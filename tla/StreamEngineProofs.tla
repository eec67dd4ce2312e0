------------------------- MODULE StreamEngineProofs -------------------------
(***************************************************************************)
(* Theorems about the stream engine, for any traffic, any number of hosts  *)
(* and packets and any sequence space.                                     *)
(***************************************************************************)
EXTENDS StreamEngine, FiniteSetTheorems, SequenceTheorems, TLAPS

Phases == {"NONE", "SYN_SENT", "SYN_RECEIVED", "ESTABLISHED", "FIN_WAIT", "CLOSE_WAIT", "CLOSED", "RESET"}
Machines == [phase : Phases, syn : SUBSET Roles, fin : SUBSET Roles]

FlowShape(f) ==
  /\ f = [id |-> f.id, src |-> f.src, dst |-> f.dst, packets |-> f.packets, state |-> f.state, machine |-> f.machine]
  /\ f.id \in Nat /\ f.packets \in Nat /\ f.machine \in Machines
  /\ f.state = Coarse(f.machine.phase)

MetricsShape(m) ==
  /\ m = [handshake |-> m.handshake, syn |-> m.syn, synack |-> m.synack, ackTs |-> m.ackTs,
          samples |-> m.samples, dupAcks |-> m.dupAcks, retransmissions |-> m.retransmissions,
          zero |-> m.zero, windows |-> m.windows, outstanding |-> m.outstanding, lastAck |-> m.lastAck]
  /\ m.outstanding = [r \in Roles |-> m.outstanding[r]]
  /\ m.lastAck = [r \in Roles |-> m.lastAck[r]]

ConvShape(c) ==
  /\ c = [client |-> c.client, server |-> c.server, metrics |-> c.metrics, text |-> c.text]
  /\ MetricsShape(c.metrics)

Known == Cardinality(DOMAIN flows)

(* Every packet has a flow, flows have ids of their own, and no state was   *)
(* told of a flow that is not there yet.                                    *)
EngineShape ==
  /\ log \in Seq(traffic)
  /\ \E S : timeline \in Seq(S)
  /\ IsFiniteSet(DOMAIN flows)
  /\ \A k \in DOMAIN flows : FlowShape(flows[k]) /\ flows[k].id \in 1..Known
  /\ \A k, l \in DOMAIN flows : flows[k].id = flows[l].id => k = l
  /\ \A k \in DOMAIN flows : k.protocol # "TCP" => flows[k].machine = NewMachine
  /\ DOMAIN convs = {k \in DOMAIN flows : k.protocol = "TCP"} /\ \A k \in DOMAIN convs : ConvShape(convs[k])
  /\ \A i \in DOMAIN log : FlowKey(log[i]) \in DOMAIN flows
  /\ \A i \in DOMAIN timeline : timeline[i].kind = "state" => timeline[i].flow \in 1..Known

(* A flow counts its packets, and its source is that of the first.          *)
CountedInv(k) ==
  /\ flows[k].packets = Cardinality(In(k))
  /\ \E i \in In(k) : (\A j \in In(k) : i <= j) /\ log[i].src = flows[k].src

(* The packets of a flow with data, and those with a flag, by direction.    *)
Watched == {"SYN", "ACK", "FIN", "RST"}
DataOf(k) == [r \in Roles |-> {i \in In(k) : Role(flows[k], log[i]) = r /\ log[i].data # <<>>}]
FlagOf(k) == [r \in Roles |-> [flag \in Watched |-> {i \in In(k) : Role(flows[k], log[i]) = r /\ flag \in log[i].flags}]]

(* What is remembered of the flags was seen, and a phase has its reason.    *)
PhaseEarned(F, m) ==
  LET Either(flag) == F["client"][flag] \cup F["server"][flag] IN
  /\ \A r \in m.fin : F[r]["FIN"] # {}
  /\ m.phase \in {"SYN_SENT", "SYN_RECEIVED"} => Either("SYN") # {}
  /\ m.phase = "ESTABLISHED" => \E i \in Either("SYN"), j \in Either("ACK") : i < j
  /\ m.phase = "CLOSED" => m.fin = Roles
  /\ m.phase = "RESET" => \E i \in Either("RST") : \A j \in Either("SYN") \cup Either("FIN") : j <= i

PhaseInv(k) == PhaseEarned(FlagOf(k), flows[k].machine)

(* SegmentsTimed, that no two segments wait with one time, and that the     *)
(* time kept of a SYN is that of one: of metrics m, of a flow whose packets *)
(* with data are D and with flags are F.                                    *)
Timed(D, F, m) ==
  LET settled(r) == {s \in m.samples : s.sent \in D[r]} IN
  /\ m.samples = settled("client") \cup settled("server")
  /\ \A r \in Roles :
       /\ {o.ts : o \in m.outstanding[r]} = D[r] \ {s.sent : s \in m.samples}
       /\ \A o, q \in m.outstanding[r] : o.ts = q.ts => o = q
       /\ \A s \in settled(r) : s.rtt > 0 /\ s.sent + s.rtt \in F[Other(r)]["ACK"]
  /\ \A s, t \in m.samples : s.sent = t.sent => s = t
  /\ m.handshake # Nothing => \E i \in F["client"]["SYN"], j \in F["server"]["SYN"] : i < j /\ m.handshake = j - i
  /\ m.syn # Nothing => m.syn \in F["client"]["SYN"]

TimesInv(k) == Timed(DataOf(k), FlagOf(k), convs[k].metrics)

EngineInv ==
  /\ EngineShape
  /\ \A k \in DOMAIN flows : CountedInv(k) /\ PhaseInv(k) /\ StatesTold(k)
  /\ \A k \in DOMAIN convs : TimesInv(k)

----------------------------------------------------------------------------
(* The operators.                                                           *)

LEMMA RoleIsOne == \A f, p : Role(f, p) \in Roles
  BY DEF Role, Roles

LEMMA OthersRole == \A r \in Roles : Other(r) \in Roles /\ Other(r) # r /\ Roles = {r, Other(r)}
  BY DEF Other, Roles

(* What the flags of one segment do to the states.                          *)
LEMMA AddFlagsMeans ==
  ASSUME NEW m \in Machines, NEW role \in Roles, NEW flags
  PROVE  LET a == AddFlags(m, role, flags) IN
         /\ a \in Machines
         /\ "RST" \in flags => a.phase = "RESET" /\ a.fin = m.fin
         /\ "RST" \notin flags => a.fin = IF "FIN" \in flags THEN m.fin \cup {role} ELSE m.fin
         /\ "RST" \notin flags /\ "FIN" \in flags =>
              IF a.fin = Roles THEN a.phase = "CLOSED" ELSE a.phase \in {"CLOSE_WAIT", "FIN_WAIT"}
         /\ "RST" \notin flags /\ "FIN" \notin flags /\ "SYN" \in flags => a.phase \in {"SYN_SENT", "SYN_RECEIVED"}
         /\ "RST" \notin flags /\ "FIN" \notin flags /\ "SYN" \notin flags =>
              a.phase = IF "ACK" \in flags /\ m.phase \in {"SYN_SENT", "SYN_RECEIVED"} THEN "ESTABLISHED" ELSE m.phase
<1> DEFINE b == AfterSyn(m, role, flags)
           a == AfterFin(b, role, flags)
<1>1. /\ b \in Machines /\ b.fin = m.fin
      /\ "SYN" \in flags => b.phase \in {"SYN_SENT", "SYN_RECEIVED"}
      /\ "SYN" \notin flags =>
           b.phase = IF "ACK" \in flags /\ m.phase \in {"SYN_SENT", "SYN_RECEIVED"} THEN "ESTABLISHED" ELSE m.phase
  BY DEF AfterSyn, Machines, Phases
<1> HIDE DEF b
<1>2. /\ a \in Machines
      /\ a.fin = IF "FIN" \in flags THEN b.fin \cup {role} ELSE b.fin
      /\ "FIN" \notin flags => a.phase = b.phase
      /\ "FIN" \in flags => a.phase = IF b.fin \cup {role} = Roles THEN "CLOSED"
                                      ELSE IF role = "server" THEN "CLOSE_WAIT" ELSE "FIN_WAIT"
  BY <1>1 DEF AfterFin, Machines, Phases
<1>3. CASE "RST" \in flags
  BY <1>3 DEF AddFlags, Machines, Phases
<1>4. CASE "RST" \notin flags
  <2>1. AddFlags(m, role, flags) = a
    BY <1>4 DEF AddFlags, b
  <2> QED BY <1>1, <1>2, <1>4, <2>1
<1> QED BY <1>3, <1>4

(* What an ACK settles, and the round trips that gives.                     *)
Settled(m, p, role) == {o \in m.outstanding[Other(role)] : AckCovers(p.ack, o.end)}
Samples(settled, n) == {[sent |-> o.ts, rtt |-> n - o.ts] : o \in settled}
Acks(p) == "ACK" \in p.flags /\ "SYN" \notin p.flags /\ p.data = <<>>

SegmentEffect(a, m, p, role, ts) ==
  /\ a.samples = IF Acks(p) THEN m.samples \cup Samples(Settled(m, p, role), ts) ELSE m.samples
  /\ a.outstanding[Other(role)] = IF Acks(p) THEN m.outstanding[Other(role)] \ Settled(m, p, role) ELSE m.outstanding[Other(role)]
  /\ a.outstanding[role] =
       IF p.data = <<>> THEN m.outstanding[role]
       ELSE m.outstanding[role] \cup {[end |-> EndSeq(Segment(p.seq, p.data)), ts |-> ts]}
  /\ a.syn = m.syn \/ (a.syn = ts /\ "SYN" \in p.flags /\ role = "client")
  /\ a.handshake = m.handshake
       \/ (a.handshake = ts - m.syn /\ m.syn # Nothing /\ "SYN" \in p.flags /\ role = "server")

(* What one segment does to the metrics.                                    *)
LEMMA OnSegmentMeans ==
  ASSUME NEW m, MetricsShape(m), NEW p, NEW role \in Roles, NEW ts
  PROVE  LET a == OnSegment(m, p, role, ts) IN
         /\ MetricsShape(a)
         /\ SegmentEffect(a, m, p, role, ts)
<1> DEFINE m1 == RecordWindow(m, p.window)
           m2 == HandshakeTimes(m1, p, role, ts)
           m3 == DuplicateAcks(m2, p, role)
           m4 == Acknowledge(m3, p, role, ts)
           a == DataSent(m4, p, role, ts)
           covered == {o \in m.outstanding[Other(role)] : AckCovers(p.ack, o.end)}
           acks == "ACK" \in p.flags /\ "SYN" \notin p.flags /\ p.data = <<>>
<1>1. MetricsShape(m1) /\ m1.samples = m.samples /\ m1.outstanding = m.outstanding
      /\ m1.syn = m.syn /\ m1.handshake = m.handshake
  BY DEF RecordWindow, MetricsShape
<1> HIDE DEF m1
<1>2. /\ MetricsShape(m2) /\ m2.samples = m.samples /\ m2.outstanding = m.outstanding
      /\ m2.syn = m.syn \/ (m2.syn = ts /\ "SYN" \in p.flags /\ role = "client")
      /\ m2.handshake = m.handshake
           \/ (m2.handshake = ts - m.syn /\ m.syn # Nothing /\ "SYN" \in p.flags /\ role = "server")
  BY <1>1 DEF HandshakeTimes, MetricsShape
<1> HIDE DEF m2
<1>3. /\ MetricsShape(m3) /\ m3.samples = m.samples /\ m3.outstanding = m.outstanding
      /\ m3.syn = m2.syn /\ m3.handshake = m2.handshake
  BY <1>2 DEF DuplicateAcks, MetricsShape
<1> HIDE DEF m3
<1>4. /\ MetricsShape(m4) /\ m4.syn = m2.syn /\ m4.handshake = m2.handshake
      /\ m4.samples = IF acks THEN m.samples \cup {[sent |-> o.ts, rtt |-> ts - o.ts] : o \in covered} ELSE m.samples
      /\ m4.outstanding[Other(role)] = IF acks THEN m.outstanding[Other(role)] \ covered ELSE m.outstanding[Other(role)]
      /\ m4.outstanding[role] = m.outstanding[role]
  BY <1>3, OthersRole DEF Acknowledge, MetricsShape
<1> HIDE DEF m4
<1>5. /\ MetricsShape(a) /\ a.syn = m4.syn /\ a.handshake = m4.handshake /\ a.samples = m4.samples
      /\ a.outstanding[Other(role)] = m4.outstanding[Other(role)]
      /\ a.outstanding[role] =
           IF p.data = <<>> THEN m4.outstanding[role]
           ELSE m4.outstanding[role] \cup {[end |-> EndSeq(Segment(p.seq, p.data)), ts |-> ts]}
  BY <1>4, OthersRole DEF DataSent, MetricsShape
<1>6. a = OnSegment(m, p, role, ts)
  BY DEF OnSegment, m1, m2, m3, m4
<1> HIDE DEF a
<1> HIDE DEF covered, acks
<1>7. acks <=> Acks(p)
  BY DEF acks, Acks
<1>8. covered = Settled(m, p, role)
  BY DEF covered, Settled
<1>9. {[sent |-> o.ts, rtt |-> ts - o.ts] : o \in covered} = Samples(covered, ts)
  BY Zenon DEF Samples
<1> QED BY <1>2, <1>4, <1>5, <1>6, <1>7, <1>8, <1>9 DEF SegmentEffect

----------------------------------------------------------------------------
(* The timeline.                                                            *)

StatesIn(s) == {i \in DOMAIN s : s[i].kind = "state"}
Shifted(n, S) == {n + i : i \in S}

LEMMA Joined ==
  ASSUME NEW S, NEW T, NEW s \in Seq(S), NEW t \in Seq(T)
  PROVE  /\ s \o t \in Seq(S \cup T) /\ Len(s \o t) = Len(s) + Len(t)
         /\ Len(s) \in Nat /\ Len(t) \in Nat
         /\ DOMAIN s = 1..Len(s) /\ DOMAIN t = 1..Len(t) /\ DOMAIN (s \o t) = 1..(Len(s) + Len(t))
         /\ \A i \in 1..Len(s) : (s \o t)[i] = s[i]
         /\ \A i \in 1..Len(t) : (s \o t)[Len(s) + i] = t[i]
         /\ \A i \in 1..(Len(s) + Len(t)) : i \in 1..Len(s) \/ (i - Len(s) \in 1..Len(t) /\ i = Len(s) + (i - Len(s)))
<1>1. s \in Seq(S \cup T) /\ t \in Seq(S \cup T)
  BY SeqMonotonic
<1> QED BY <1>1, ConcatProperties

LEMMA JoinedStates ==
  ASSUME NEW S, NEW T, NEW s \in Seq(S), NEW t \in Seq(T)
  PROVE  StatesIn(s \o t) = StatesIn(s) \cup Shifted(Len(s), StatesIn(t))
<1>1. ASSUME NEW i \in StatesIn(s \o t) PROVE i \in StatesIn(s) \cup Shifted(Len(s), StatesIn(t))
  <2>1. i \in 1..(Len(s) + Len(t)) /\ (s \o t)[i].kind = "state"
    BY Joined DEF StatesIn
  <2>2. CASE i \in 1..Len(s)
    BY <2>1, <2>2, Joined DEF StatesIn
  <2>3. CASE i - Len(s) \in 1..Len(t) /\ i = Len(s) + (i - Len(s))
    <3>1. (s \o t)[Len(s) + (i - Len(s))] = t[i - Len(s)]
      BY <2>3, Joined
    <3>2. i - Len(s) \in StatesIn(t)
      BY <2>1, <2>3, <3>1, Joined DEF StatesIn
    <3> QED BY <2>3, <3>2 DEF Shifted
  <2> QED BY <2>1, <2>2, <2>3, Joined
<1>2. ASSUME NEW i \in StatesIn(s) PROVE i \in StatesIn(s \o t)
  BY <1>2, Joined DEF StatesIn
<1>3. ASSUME NEW i \in StatesIn(t) PROVE Len(s) + i \in StatesIn(s \o t)
  BY <1>3, Joined DEF StatesIn
<1> QED BY <1>1, <1>2, <1>3 DEF Shifted

LEMMA NothingTold == StatesIn(<<>>) = {} /\ \A S : <<>> \in Seq(S)
<1>1. DOMAIN <<>> = {}
  OBVIOUS
<1> QED BY <1>1 DEF StatesIn

(* At most one event is told or none.                                       *)
LEMMA MaybeMeans ==
  ASSUME NEW c \in BOOLEAN, NEW x
  PROVE  /\ Maybe(c, x) \in Seq({x}) /\ Len(Maybe(c, x)) = IF c THEN 1 ELSE 0
         /\ StatesIn(Maybe(c, x)) = IF c /\ x.kind = "state" THEN {1} ELSE {}
         /\ c => Maybe(c, x)[1] = x
<1>1. CASE c
  <2>1. Maybe(c, x) = <<x>>
    BY <1>1 DEF Maybe
  <2>2. <<x>> \in Seq({x}) /\ Len(<<x>>) = 1 /\ <<x>>[1] = x /\ DOMAIN <<x>> = {1}
    OBVIOUS
  <2>3. StatesIn(<<x>>) = IF x.kind = "state" THEN {1} ELSE {}
    BY <2>2, Zenon DEF StatesIn
  <2> QED BY <1>1, <2>1, <2>2, <2>3, Zenon
<1>2. CASE ~c
  <2>1. Maybe(c, x) = <<>>
    BY <1>2 DEF Maybe
  <2>2. <<>> \in Seq({x}) /\ Len(<<>>) = 0
    OBVIOUS
  <2>3. StatesIn(<<>>) = {}
    BY NothingTold
  <2> QED BY <1>2, <2>1, <2>2, <2>3
<1> QED BY <1>1, <1>2

(* What is told of one packet: its state if that is new, and no other.      *)
TellsState(e, flow, before) ==
  /\ \E T : e \in Seq(T)
  /\ IF flow.state # "NONE" /\ flow.state # before
     THEN \E n \in DOMAIN e : StatesIn(e) = {n} /\ e[n] = Told("state", flow.id, flow.state)
     ELSE StatesIn(e) = {}

LEMMA EventsMeans ==
  ASSUME NEW p, NEW started \in BOOLEAN, NEW before, NEW flow, NEW issue, NEW tcp \in BOOLEAN
  PROVE  TellsState(Events(p, started, before, flow) \o (IF tcp THEN IssueEvent(flow.id, issue) ELSE <<>>), flow, before)
<1> DEFINE x1 == Told("flow", flow.id, p.protocol)
           x2 == Told("state", flow.id, flow.state)
           x3 == Told("app", flow.id, p.app)
           x4 == Told("issue", flow.id, issue)
           c == flow.state # "NONE" /\ flow.state # before
           A == Maybe(started, x1)
           B == Maybe(c, x2)
           C == Maybe(p.app # Nothing, x3)
           D == IF tcp THEN IssueEvent(flow.id, issue) ELSE <<>>
           e == Events(p, started, before, flow) \o D
<1>0. x1.kind = "flow" /\ x2.kind = "state" /\ x3.kind = "app" /\ x4.kind = "issue"
  BY DEF Told
<1>1. A \in Seq({x1}) /\ StatesIn(A) = {}
  BY <1>0, MaybeMeans
<1>2. B \in Seq({x2}) /\ StatesIn(B) = (IF c THEN {1} ELSE {}) /\ (c => B[1] = x2)
  BY <1>0, MaybeMeans
<1>3. C \in Seq({x3}) /\ StatesIn(C) = {}
  BY <1>0, MaybeMeans
<1>4. D \in Seq({x4}) /\ StatesIn(D) = {}
  <2>1. CASE tcp
    <3>1. D = Maybe(issue.kind # "none", x4)
      BY <2>1 DEF IssueEvent
    <3> QED BY <1>0, <3>1, MaybeMeans
  <2>2. CASE ~tcp
    <3>1. D = <<>>
      BY <2>2
    <3> QED BY <3>1, NothingTold, Zenon
  <2> QED BY <2>1, <2>2
<1>5. e = ((A \o B) \o C) \o D
  BY DEF Events
<1> HIDE DEF x1, x2, x3, x4, A, B, C, D, e
<1>6. A \o B \in Seq({x1} \cup {x2}) /\ StatesIn(A \o B) = IF c THEN {Len(A) + 1} ELSE {}
  <2>1. StatesIn(A \o B) = StatesIn(A) \cup Shifted(Len(A), StatesIn(B))
    <3>1. \A s \in Seq({x1}), t \in Seq({x2}) : StatesIn(s \o t) = StatesIn(s) \cup Shifted(Len(s), StatesIn(t))
      BY JoinedStates
    <3>2. A \in Seq({x1}) /\ B \in Seq({x2})
      BY <1>1, <1>2
    <3>3. \A t \in Seq({x2}) : StatesIn(A \o t) = StatesIn(A) \cup Shifted(Len(A), StatesIn(t))
      BY <3>1, <3>2
    <3> QED BY <3>2, <3>3
  <2>2. StatesIn(A \o B) = IF c THEN {Len(A) + 1} ELSE {}
    <3>1. CASE c
      <4>1. StatesIn(B) = {1}
        BY <1>2, <3>1
      <4>2. Shifted(Len(A), {1}) = {Len(A) + 1}
        BY Zenon DEF Shifted
      <4> QED BY <1>1, <2>1, <3>1, <4>1, <4>2
    <3>2. CASE ~c
      <4>1. StatesIn(B) = {}
        BY <1>2, <3>2
      <4>2. Shifted(Len(A), {}) = {}
        BY Zenon DEF Shifted
      <4> QED BY <1>1, <2>1, <3>2, <4>1, <4>2
    <3> QED BY <3>1, <3>2
  <2> QED BY <1>1, <1>2, <2>2, Joined, Zenon
<1>7. (A \o B) \o C \in Seq({x1} \cup {x2} \cup {x3}) /\ StatesIn((A \o B) \o C) = StatesIn(A \o B)
  <2>1. StatesIn((A \o B) \o C) = StatesIn(A \o B) \cup Shifted(Len(A \o B), StatesIn(C))
    <3>1. \A s \in Seq({x1} \cup {x2}), t \in Seq({x3}) : StatesIn(s \o t) = StatesIn(s) \cup Shifted(Len(s), StatesIn(t))
      BY JoinedStates
    <3>2. (A \o B) \in Seq({x1} \cup {x2}) /\ C \in Seq({x3})
      BY <1>3, <1>6
    <3>3. \A t \in Seq({x3}) : StatesIn((A \o B) \o t) = StatesIn((A \o B)) \cup Shifted(Len((A \o B)), StatesIn(t))
      BY <3>1, <3>2
    <3> QED BY <3>2, <3>3
  <2>3. Shifted(Len(A \o B), {}) = {}
    BY Zenon DEF Shifted
  <2>2. (A \o B) \o C \in Seq(({x1} \cup {x2}) \cup {x3})
    BY <1>3, <1>6, Joined, Zenon
  <2> QED BY <1>3, <2>1, <2>2, <2>3, Zenon
<1>8. e \in Seq({x1} \cup {x2} \cup {x3} \cup {x4}) /\ StatesIn(e) = StatesIn(A \o B)
  <2>1. StatesIn(e) = StatesIn((A \o B) \o C) \cup Shifted(Len((A \o B) \o C), StatesIn(D))
    <3>1. \A s \in Seq({x1} \cup {x2} \cup {x3}), t \in Seq({x4}) : StatesIn(s \o t) = StatesIn(s) \cup Shifted(Len(s), StatesIn(t))
      BY JoinedStates
    <3>2. ((A \o B) \o C) \in Seq({x1} \cup {x2} \cup {x3}) /\ D \in Seq({x4})
      BY <1>4, <1>5, <1>7
    <3>3. \A t \in Seq({x4}) : StatesIn(((A \o B) \o C) \o t) = StatesIn(((A \o B) \o C)) \cup Shifted(Len(((A \o B) \o C)), StatesIn(t))
      BY <3>1, <3>2
    <3> QED BY <3>2, <3>3, <1>5
  <2>3. Shifted(Len((A \o B) \o C), {}) = {}
    BY Zenon DEF Shifted
  <2>2. e \in Seq(({x1} \cup {x2} \cup {x3}) \cup {x4})
    BY <1>4, <1>5, <1>7, Joined, Zenon
  <2> QED BY <1>4, <1>7, <2>1, <2>2, <2>3, Zenon
<1>9. c => Len(A) + 1 \in DOMAIN e /\ e[Len(A) + 1] = x2
  <2> SUFFICES ASSUME c PROVE Len(A) + 1 \in DOMAIN e /\ e[Len(A) + 1] = x2
    OBVIOUS
  <2>1. Len(A) + 1 \in StatesIn(A \o B) /\ (A \o B)[Len(A) + 1] = x2
    <3>1. 1 \in StatesIn(B) /\ 1 \in 1..Len(B)
      BY <1>2, Joined DEF StatesIn
    <3> QED BY <1>1, <1>2, <1>6, <3>1, Joined
  <2>2. Len(A) + 1 \in 1..Len(A \o B)
    BY <1>1, <1>2, <2>1, Joined DEF StatesIn
  <2>3. /\ ((A \o B) \o C)[Len(A) + 1] = x2 /\ Len(A) + 1 \in 1..Len((A \o B) \o C)
    BY <1>3, <1>6, <2>1, <2>2, Joined
  <2> QED BY <1>4, <1>5, <1>7, <2>3, Joined
<1> QED BY <1>6, <1>8, <1>9 DEF e, D, x2, TellsState

----------------------------------------------------------------------------
(* One packet.                                                              *)

Machine(k) == IF k \in DOMAIN flows THEN flows[k].machine ELSE NewMachine

(* What becomes of the flow of a packet.                                    *)
LEMMA TrackedMeans ==
  ASSUME EngineShape, NEW p
  PROVE  LET K == FlowKey(p)  flow == TrackedFlow(p)  m == Machine(K) IN
         /\ m \in Machines /\ FlowShape(flow)
         /\ flow.machine = IF p.protocol = "TCP" THEN AddFlags(m, Role(flow, p), p.flags) ELSE m
         /\ K \in DOMAIN flows =>
              /\ flow.id = flows[K].id /\ flow.src = flows[K].src /\ flow.dst = flows[K].dst
              /\ flow.packets = flows[K].packets + 1
         /\ K \notin DOMAIN flows => flow.id = Known + 1 /\ flow.src = p.src /\ flow.dst = p.dst /\ flow.packets = 1
<1> DEFINE K == FlowKey(p)
           flow == TrackedFlow(p)
           m == Machine(K)
           new == [id |-> Known + 1, src |-> p.src, dst |-> p.dst, packets |-> 0, state |-> "NONE", machine |-> NewMachine]
           known == Got(flows, K, new)
           machine == IF p.protocol = "TCP" THEN AddFlags(known.machine, Role(known, p), p.flags) ELSE known.machine
<1>1. Known \in Nat
  BY FS_CardinalityType DEF EngineShape, Known
<1>2. FlowShape(new) /\ new.machine = NewMachine
  BY <1>1 DEF FlowShape, Machines, Phases, NewMachine, Coarse
<1>3. FlowShape(known) /\ known.machine = m
  <2>1. CASE K \in DOMAIN flows
    BY <2>1 DEF Got, EngineShape, Machine
  <2>2. CASE K \notin DOMAIN flows
    BY <1>2, <2>2 DEF Got, Machine
  <2> QED BY <2>1, <2>2
<1>4. machine \in Machines
  BY <1>3, RoleIsOne, AddFlagsMeans DEF FlowShape
<1>5. flow = [known EXCEPT !.packets = @ + 1, !.machine = machine, !.state = Coarse(machine.phase)]
  BY DEF TrackedFlow, Known
<1>6. K \in DOMAIN flows => known = flows[K]
  BY DEF Got
<1>7. K \notin DOMAIN flows => known = new
  BY DEF Got
<1> HIDE DEF K, flow, m, known, machine
<1>8. /\ FlowShape(flow) /\ flow.machine = machine /\ flow.id = known.id /\ flow.src = known.src /\ flow.dst = known.dst
      /\ flow.packets = known.packets + 1
  <2>1. /\ known = [id |-> known.id, src |-> known.src, dst |-> known.dst, packets |-> known.packets,
                     state |-> known.state, machine |-> known.machine]
        /\ known.id \in Nat /\ known.packets \in Nat
    BY <1>3 DEF FlowShape
  <2>2. flow = [id |-> known.id, src |-> known.src, dst |-> known.dst, packets |-> known.packets + 1,
                state |-> Coarse(machine.phase), machine |-> machine]
    BY <1>5, <2>1
  <2> QED BY <1>4, <2>1, <2>2 DEF FlowShape
<1>9. Role(flow, p) = Role(known, p)
  BY <1>8 DEF Role
<1>10. flow.machine = IF p.protocol = "TCP" THEN AddFlags(m, Role(flow, p), p.flags) ELSE m
  BY <1>3, <1>8, <1>9 DEF machine
<1>11. m \in Machines
  BY <1>3 DEF FlowShape
<1>12. K \notin DOMAIN flows => flow.id = Known + 1 /\ flow.src = p.src /\ flow.dst = p.dst /\ flow.packets = 1
  BY <1>7, <1>8
<1> QED BY <1>6, <1>8, <1>10, <1>11, <1>12 DEF K, flow, m

(* Where a packet is in the log, and that all else is where it was.         *)
LEMMA Placed ==
  ASSUME EngineShape, NEW p \in traffic, PacketArrives(p), NEW K, K = FlowKey(p)
  PROVE  LET n == Len(log) + 1  role == Role(TrackedFlow(p), p) IN
         /\ n \in Nat \ {0} /\ log' \in Seq(traffic') /\ Len(log') = n
         /\ DOMAIN log' = DOMAIN log \cup {n} /\ \A i \in DOMAIN log : i \in Nat /\ i < n /\ log'[i] = log[i]
         /\ log'[n] = p
         /\ DOMAIN flows' = DOMAIN flows \cup {K} /\ flows'[K] = TrackedFlow(p)
         /\ \A k \in DOMAIN flows \ {K} : flows'[k] = flows[k]
         /\ K \notin DOMAIN flows => In(K) = {}
         /\ In(K)' = In(K) \cup {n}
         /\ \A k : k # K => In(k)' = In(k)
<1> DEFINE n == Len(log) + 1
<1>1. log' = Append(log, p) /\ flows' = Extended(flows, K, TrackedFlow(p)) /\ traffic' = traffic
  BY DEF PacketArrives
<1>2. log \in Seq(traffic) /\ Len(log) \in Nat /\ DOMAIN log = 1..Len(log)
  BY DEF EngineShape
<1>3. /\ log' \in Seq(traffic') /\ Len(log') = n /\ DOMAIN log' = 1..n /\ log'[n] = p
      /\ \A i \in 1..Len(log) : log'[i] = log[i]
  BY <1>1, <1>2
<1>4. DOMAIN log' = DOMAIN log \cup {n} /\ \A i \in DOMAIN log : i \in Nat /\ i < n /\ log'[i] = log[i]
  BY <1>2, <1>3
<1>5. /\ DOMAIN flows' = DOMAIN flows \cup {K} /\ flows'[K] = TrackedFlow(p)
      /\ \A k \in DOMAIN flows \ {K} : flows'[k] = flows[k]
  BY <1>1 DEF Extended
<1>6. K \notin DOMAIN flows => In(K) = {}
  BY DEF EngineShape, In
<1>7. FlowKey(log'[n]) = K /\ \A i \in DOMAIN log : FlowKey(log'[i]) = FlowKey(log[i])
  BY <1>3, <1>4
<1> HIDE DEF n
<1>8. In(K)' = In(K) \cup {n} /\ \A k : k # K => In(k)' = In(k)
  BY <1>4, <1>7 DEF In
<1>9. n \in Nat \ {0}
  BY <1>2 DEF n
<1> QED BY <1>3, <1>4, <1>5, <1>6, <1>8, <1>9 DEF n

(* The packets of one direction, and what they carry.                       *)
LEMMA PlacedBy ==
  ASSUME EngineShape, NEW p \in traffic, PacketArrives(p), NEW K, K = FlowKey(p)
  PROVE  LET n == Len(log) + 1
             role == Role(TrackedFlow(p), p) IN
         /\ \A r \in Roles : DataOf(K)'[r] = DataOf(K)[r] \cup (IF r = role /\ p.data # <<>> THEN {n} ELSE {})
         /\ \A r \in Roles, flag \in Watched :
              FlagOf(K)'[r][flag] = FlagOf(K)[r][flag] \cup (IF r = role /\ flag \in p.flags THEN {n} ELSE {})
         /\ \A k \in DOMAIN flows \ {K} : DataOf(k)' = DataOf(k) /\ FlagOf(k)' = FlagOf(k)
<1> DEFINE n == Len(log) + 1
           flow == TrackedFlow(p)
           role == Role(flow, p)
<1>1. K \in DOMAIN flows => \A q : Role(flow, q) = Role(flows[K], q)
  BY TrackedMeans DEF Role
<1>2. /\ DOMAIN log' = DOMAIN log \cup {n} /\ log'[n] = p
      /\ \A i \in DOMAIN log : i < n /\ log'[i] = log[i]
      /\ flows'[K] = flow /\ \A k \in DOMAIN flows \ {K} : flows'[k] = flows[k]
      /\ K \notin DOMAIN flows => In(K) = {}
      /\ In(K)' = In(K) \cup {n}
      /\ \A k : k # K => In(k)' = In(k)
  BY Placed, Zenon
<1>3. n \notin DOMAIN log /\ \A k : In(k) \subseteq DOMAIN log
  BY <1>2 DEF EngineShape, In
<1> HIDE DEF n, flow, role
<1>4. \A i \in In(K) : Role(flow, log'[i]) = Role(flows[K], log[i]) /\ log'[i] = log[i]
  BY <1>1, <1>2, <1>3
<1>5. ASSUME NEW r \in Roles
      PROVE  DataOf(K)'[r] = DataOf(K)[r] \cup (IF r = role /\ p.data # <<>> THEN {n} ELSE {})
  BY <1>2, <1>4 DEF DataOf, role
<1>6. ASSUME NEW r \in Roles, NEW flag \in Watched
      PROVE  FlagOf(K)'[r][flag] = FlagOf(K)[r][flag] \cup (IF r = role /\ flag \in p.flags THEN {n} ELSE {})
  BY <1>2, <1>4 DEF FlagOf, role
<1>7. ASSUME NEW k \in DOMAIN flows \ {K}
      PROVE  DataOf(k)' = DataOf(k) /\ FlagOf(k)' = FlagOf(k)
  <2>1. flows'[k] = flows[k] /\ In(k)' = In(k) /\ \A i \in In(k) : log'[i] = log[i]
    BY <1>2, <1>3
  <2>2. DataOf(k)' = DataOf(k)
    BY <2>1 DEF DataOf
  <2>3. FlagOf(k)' = FlagOf(k)
    BY <2>1 DEF FlagOf
  <2> QED BY <2>2, <2>3
<1> QED BY <1>5, <1>6, <1>7 DEF n, flow, role

LEMMA FlagsAreLogged ==
  ASSUME EngineShape, NEW k
  PROVE  /\ \A r \in Roles : DataOf(k)[r] \subseteq DOMAIN log
         /\ \A r \in Roles, flag \in Watched : FlagOf(k)[r][flag] \subseteq DOMAIN log
  BY DEF DataOf, FlagOf, In

LEMMA FreshMachine == \A F : PhaseEarned(F, NewMachine)
  BY DEF PhaseEarned, NewMachine

(* A flow still counts its packets, the first of them its source's.         *)
LEMMA CountedStep ==
  ASSUME EngineShape, NEW p \in traffic, PacketArrives(p), \A k \in DOMAIN flows : CountedInv(k)
  PROVE  \A k \in DOMAIN flows' : CountedInv(k)'
<1>0. PICK K : K = FlowKey(p)
  OBVIOUS
<1> DEFINE n == Len(log) + 1
           flow == TrackedFlow(p)
<1>1. /\ log'[n] = p /\ \A i \in DOMAIN log : i \in Nat /\ i < n /\ log'[i] = log[i]
      /\ n \in Nat \ {0}
      /\ DOMAIN flows' = DOMAIN flows \cup {K} /\ flows'[K] = flow
      /\ \A k \in DOMAIN flows \ {K} : flows'[k] = flows[k]
      /\ K \notin DOMAIN flows => In(K) = {}
      /\ In(K)' = In(K) \cup {n}
      /\ \A k : k # K => In(k)' = In(k)
  BY <1>0, Placed, Zenon
<1>2. \A k : In(k) \subseteq DOMAIN log
  BY DEF In
<1>3. /\ K \in DOMAIN flows => flow.src = flows[K].src /\ flow.packets = flows[K].packets + 1
      /\ K \notin DOMAIN flows => flow.src = p.src /\ flow.packets = 1
  BY <1>0, TrackedMeans
<1>4. IsFiniteSet(In(K))
  <2>1. DOMAIN log = 1..Len(log) /\ Len(log) \in Nat
    BY DEF EngineShape
  <2>2. IsFiniteSet(DOMAIN log)
    BY <2>1, FS_Interval
  <2> QED BY <1>2, <2>2, FS_Subset
<1> HIDE DEF n, flow
<1>5. n \notin In(K)
  BY <1>1, <1>2
<1>6. Cardinality(In(K)') = Cardinality(In(K)) + 1
  BY <1>1, <1>4, <1>5, FS_AddElement
<1>7. CountedInv(K)'
  <2>1. CASE K \in DOMAIN flows
    <3>1. PICK i \in In(K) : (\A j \in In(K) : i <= j) /\ log[i].src = flows[K].src
      BY <2>1 DEF CountedInv
    <3>2. i \in In(K)' /\ (\A j \in In(K)' : i <= j) /\ log'[i].src = flows'[K].src
      BY <1>1, <1>2, <1>3, <2>1, <3>1
    <3>3. flows'[K].packets = Cardinality(In(K)')
      BY <1>1, <1>3, <1>6, <2>1 DEF CountedInv
    <3> QED BY <3>2, <3>3 DEF CountedInv
  <2>2. CASE K \notin DOMAIN flows
    <3>1. In(K) = {} /\ Cardinality(In(K)) = 0
      BY <1>1, <2>2, FS_EmptySet
    <3>2. n \in In(K)' /\ (\A j \in In(K)' : n <= j) /\ log'[n].src = flows'[K].src
      BY <1>1, <1>3, <2>2, <3>1
    <3>3. flows'[K].packets = Cardinality(In(K)')
      BY <1>1, <1>3, <1>6, <2>2, <3>1
    <3> QED BY <3>2, <3>3 DEF CountedInv
  <2> QED BY <2>1, <2>2
<1>8. ASSUME NEW k \in DOMAIN flows \ {K} PROVE CountedInv(k)'
  <2>1. flows'[k] = flows[k] /\ In(k)' = In(k) /\ CountedInv(k)
    BY <1>1
  <2>2. PICK i \in In(k) : (\A j \in In(k) : i <= j) /\ log[i].src = flows[k].src
    BY <2>1 DEF CountedInv
  <2>3. i \in In(k)' /\ (\A j \in In(k)' : i <= j) /\ log'[i].src = flows'[k].src
    BY <1>1, <1>2, <2>1, <2>2
  <2> QED BY <2>1, <2>3 DEF CountedInv
<1> QED BY <1>1, <1>7, <1>8

(* The reasons grow with the flags that are seen.                           *)
LEMMA PhaseMoves ==
  ASSUME NEW F, NEW G, NEW m \in Machines, NEW role \in Roles, NEW flags, NEW n \in Nat,
         PhaseEarned(F, m),
         \A r \in Roles, flag \in Watched : \A i \in F[r][flag] : i \in Nat /\ i < n,
         \A r \in Roles, flag \in Watched : G[r][flag] = F[r][flag] \cup (IF r = role /\ flag \in flags THEN {n} ELSE {})
  PROVE  PhaseEarned(G, AddFlags(m, role, flags))
<1> DEFINE a == AddFlags(m, role, flags)
           E(flag) == F["client"][flag] \cup F["server"][flag]
           H(flag) == G["client"][flag] \cup G["server"][flag]
<1>1. /\ a \in Machines
      /\ "RST" \in flags => a.phase = "RESET" /\ a.fin = m.fin
      /\ "RST" \notin flags => a.fin = IF "FIN" \in flags THEN m.fin \cup {role} ELSE m.fin
      /\ "RST" \notin flags /\ "FIN" \in flags =>
           IF a.fin = Roles THEN a.phase = "CLOSED" ELSE a.phase \in {"CLOSE_WAIT", "FIN_WAIT"}
      /\ "RST" \notin flags /\ "FIN" \notin flags /\ "SYN" \in flags => a.phase \in {"SYN_SENT", "SYN_RECEIVED"}
      /\ "RST" \notin flags /\ "FIN" \notin flags /\ "SYN" \notin flags =>
           a.phase = IF "ACK" \in flags /\ m.phase \in {"SYN_SENT", "SYN_RECEIVED"} THEN "ESTABLISHED" ELSE m.phase
  BY AddFlagsMeans
<1>2. /\ \A r \in m.fin : F[r]["FIN"] # {}
      /\ m.phase \in {"SYN_SENT", "SYN_RECEIVED"} => E("SYN") # {}
      /\ m.phase = "ESTABLISHED" => \E i \in E("SYN"), j \in E("ACK") : i < j
      /\ m.phase = "CLOSED" => m.fin = Roles
      /\ m.phase = "RESET" => \E i \in E("RST") : \A j \in E("SYN") \cup E("FIN") : j <= i
  BY DEF PhaseEarned
<1>3. m.fin \subseteq Roles
  BY DEF Machines
<1>4. /\ H("SYN") = E("SYN") \cup (IF "SYN" \in flags THEN {n} ELSE {})
      /\ H("ACK") = E("ACK") \cup (IF "ACK" \in flags THEN {n} ELSE {})
      /\ H("FIN") = E("FIN") \cup (IF "FIN" \in flags THEN {n} ELSE {})
      /\ H("RST") = E("RST") \cup (IF "RST" \in flags THEN {n} ELSE {})
  BY DEF Roles, Watched
<1>5. \A i \in E("SYN") \cup E("FIN") : i \in Nat /\ i < n
  BY DEF Roles, Watched
<1>6. \A r \in a.fin : G[r]["FIN"] # {}
  BY <1>1, <1>2, <1>3 DEF Watched
<1> HIDE DEF a, E, H
<1>7. a.phase \in {"SYN_SENT", "SYN_RECEIVED"} => H("SYN") # {}
  BY <1>1, <1>2, <1>4
<1>8. a.phase = "ESTABLISHED" => \E i \in H("SYN"), j \in H("ACK") : i < j
  BY <1>1, <1>2, <1>4, <1>5
<1>9. a.phase = "CLOSED" => a.fin = Roles
  BY <1>1, <1>2
<1>10. a.phase = "RESET" => \E i \in H("RST") : \A j \in H("SYN") \cup H("FIN") : j <= i
  <2>1. CASE "RST" \in flags
    <3>1. n \in H("RST") /\ \A j \in H("SYN") \cup H("FIN") : j <= n
      BY <1>4, <1>5, <2>1
    <3> QED BY <3>1
  <2>2. CASE "RST" \notin flags
    BY <1>1, <1>2, <1>4, <2>2
  <2> QED BY <2>1, <2>2
<1> QED BY <1>6, <1>7, <1>8, <1>9, <1>10 DEF PhaseEarned, a, H

(* A phase still has its reason.                                            *)
LEMMA PhaseStep ==
  ASSUME EngineShape, NEW p \in traffic, PacketArrives(p),
         \A k \in DOMAIN flows : PhaseInv(k)
  PROVE  \A k \in DOMAIN flows' : PhaseInv(k)'
<1>0. PICK K : K = FlowKey(p)
  OBVIOUS
<1> DEFINE n == Len(log) + 1
           flow == TrackedFlow(p)
           role == Role(flow, p)
           m == Machine(K)
           a == AddFlags(m, role, p.flags)
<1>1. /\ DOMAIN flows' = DOMAIN flows \cup {K} /\ flows'[K] = flow
      /\ \A k \in DOMAIN flows \ {K} : flows'[k] = flows[k]
      /\ \A i \in DOMAIN log : i \in Nat /\ i < n
      /\ n \in Nat
  BY <1>0, Placed, Zenon
<1>2. \A r \in Roles, flag \in Watched :
        FlagOf(K)'[r][flag] = FlagOf(K)[r][flag] \cup (IF r = role /\ flag \in p.flags THEN {n} ELSE {})
  BY <1>0, PlacedBy
<1>10. \A k \in DOMAIN flows \ {K} : FlagOf(k)' = FlagOf(k)
  BY <1>0, PlacedBy, Zenon
<1>3. flow.machine = (IF p.protocol = "TCP" THEN a ELSE m) /\ m \in Machines /\ role \in Roles
  BY <1>0, TrackedMeans, RoleIsOne, Zenon
<1>4. PhaseEarned(FlagOf(K), m)
  BY FreshMachine DEF Machine, PhaseInv
<1>5. p.protocol # "TCP" => m = NewMachine
  <2>1. K.protocol = p.protocol
    BY <1>0 DEF FlowKey
  <2> QED BY <2>1 DEF EngineShape, Machine
<1>6. \A r \in Roles, flag \in Watched : \A i \in FlagOf(K)[r][flag] : i \in Nat /\ i < n
  BY <1>1, FlagsAreLogged
<1>7. ASSUME p.protocol = "TCP" PROVE PhaseInv(K)'
  <2>2. flows'[K].machine = a
    BY <1>1, <1>3, <1>7
  <2> HIDE DEF n, flow, role, m, a
  <2>3. PhaseEarned(FlagOf(K)', a)
    <3> DEFINE F == FlagOf(K)
               G == FlagOf(K)'
               flags == p.flags
    <3>1. /\ m \in Machines /\ role \in Roles /\ n \in Nat /\ PhaseEarned(F, m)
          /\ \A r \in Roles, flag \in Watched : \A i \in F[r][flag] : i \in Nat /\ i < n
          /\ \A r \in Roles, flag \in Watched : G[r][flag] = F[r][flag] \cup (IF r = role /\ flag \in flags THEN {n} ELSE {})
      BY <1>1, <1>2, <1>3, <1>4, <1>6
    <3>2. a = AddFlags(m, role, flags)
      BY DEF a
    <3> HIDE DEF F, G, flags
    <3>3. PhaseEarned(G, AddFlags(m, role, flags))
      BY <3>1, PhaseMoves
    <3> QED BY <3>2, <3>3 DEF G
  <2> QED BY <2>2, <2>3, Zenon DEF PhaseInv
<1>8. ASSUME p.protocol # "TCP" PROVE PhaseInv(K)'
  <2>1. flows'[K].machine = NewMachine
    BY <1>1, <1>3, <1>5, <1>8
  <2> QED BY <2>1, FreshMachine, Zenon DEF PhaseInv
<1>9. ASSUME NEW k \in DOMAIN flows \ {K} PROVE PhaseInv(k)'
  BY <1>1, <1>10 DEF PhaseInv
<1> QED BY <1>1, <1>7, <1>8, <1>9

Before(D, F, n) ==
  /\ \A r \in Roles : \A i \in D[r] : i \in Nat /\ i < n
  /\ \A r \in Roles, flag \in Watched : \A i \in F[r][flag] : i \in Nat /\ i < n
Grown(D, F, E, G, p, role, n) ==
  /\ \A r \in Roles : E[r] = D[r] \cup (IF r = role /\ p.data # <<>> THEN {n} ELSE {})
  /\ \A r \in Roles, flag \in Watched : G[r][flag] = F[r][flag] \cup (IF r = role /\ flag \in p.flags THEN {n} ELSE {})

(* A segment keeps the time it was sent until it is acknowledged, and gives *)
(* one sample then.                                                         *)
LEMMA TimedMoves ==
  ASSUME NEW D, NEW F, NEW E, NEW G, NEW m, MetricsShape(m), NEW p, NEW role \in Roles, NEW n \in Nat,
         Timed(D, F, m), D["client"] \cap D["server"] = {}, Before(D, F, n), Grown(D, F, E, G, p, role, n)
  PROVE  Timed(E, G, OnSegment(m, p, role, n))
<1> DEFINE a == OnSegment(m, p, role, n)
           o == Other(role)
           covered == Settled(m, p, role)
           acks == Acks(p)
           new == Samples(covered, n)
           sent(x) == {s.sent : s \in x.samples}
<1>0. /\ \A r \in Roles : \A i \in D[r] : i \in Nat /\ i < n
      /\ \A r \in Roles, flag \in Watched : \A i \in F[r][flag] : i \in Nat /\ i < n
      /\ \A r \in Roles : E[r] = D[r] \cup (IF r = role /\ p.data # <<>> THEN {n} ELSE {})
      /\ \A r \in Roles, flag \in Watched : G[r][flag] = F[r][flag] \cup (IF r = role /\ flag \in p.flags THEN {n} ELSE {})
  BY DEF Before, Grown
<1>1. /\ a.samples = IF acks THEN m.samples \cup new ELSE m.samples
      /\ a.outstanding[o] = IF acks THEN m.outstanding[o] \ covered ELSE m.outstanding[o]
      /\ a.outstanding[role] =
           IF p.data = <<>> THEN m.outstanding[role]
           ELSE m.outstanding[role] \cup {[end |-> EndSeq(Segment(p.seq, p.data)), ts |-> n]}
      /\ a.syn = m.syn \/ (a.syn = n /\ "SYN" \in p.flags /\ role = "client")
      /\ a.handshake = m.handshake
           \/ (a.handshake = n - m.syn /\ m.syn # Nothing /\ "SYN" \in p.flags /\ role = "server")
  <2>1. SegmentEffect(a, m, p, role, n)
    BY OnSegmentMeans, Zenon
  <2> QED BY <2>1, Zenon DEF SegmentEffect
<1>2. o \in Roles /\ o # role /\ Roles = {role, o} /\ Other(o) = role
  BY DEF Other, Roles
<1>3. /\ \A s \in m.samples : s.sent \in D["client"] \/ s.sent \in D["server"]
      /\ \A r \in Roles :
           /\ {q.ts : q \in m.outstanding[r]} = D[r] \ sent(m)
           /\ \A q, x \in m.outstanding[r] : q.ts = x.ts => q = x
           /\ \A s \in m.samples : s.sent \in D[r] => s.rtt > 0 /\ s.sent + s.rtt \in F[Other(r)]["ACK"]
      /\ \A s, t \in m.samples : s.sent = t.sent => s = t
      /\ m.handshake # Nothing => \E i \in F["client"]["SYN"], j \in F["server"]["SYN"] : i < j /\ m.handshake = j - i
      /\ m.syn # Nothing => m.syn \in F["client"]["SYN"]
  BY DEF Timed
<1>4. \A i \in D[role] : i \notin D[o]
  BY <1>2 DEF Roles
<1> HIDE DEF a, o, covered, acks, new, sent
<1>5. a.syn # Nothing => a.syn \in G["client"]["SYN"]
  BY <1>0, <1>1, <1>3 DEF Roles, Watched
<1>6. a.handshake # Nothing => \E i \in G["client"]["SYN"], j \in G["server"]["SYN"] : i < j /\ a.handshake = j - i
  <2>1. F["client"]["SYN"] \subseteq G["client"]["SYN"] /\ F["server"]["SYN"] \subseteq G["server"]["SYN"]
    BY <1>0 DEF Roles, Watched
  <2>2. CASE a.handshake = m.handshake
    BY <1>3, <2>1, <2>2
  <2>3. CASE a.handshake = n - m.syn /\ m.syn # Nothing /\ "SYN" \in p.flags /\ role = "server"
    <3>1. m.syn \in F["client"]["SYN"] /\ m.syn < n
      BY <1>0, <1>3, <2>3 DEF Roles, Watched
    <3>2. n \in G["server"]["SYN"]
      BY <1>0, <2>3 DEF Roles, Watched
    <3> QED BY <2>1, <2>3, <3>1, <3>2
  <2> QED BY <1>1, <2>2, <2>3
<1>7. \A q \in covered : q \in m.outstanding[o] /\ q.ts \in D[o] \ sent(m) /\ q.ts \in Nat /\ q.ts < n
  <2>1. covered \subseteq m.outstanding[o]
    BY DEF covered, o, Settled
  <2>2. \A q \in m.outstanding[o] : q.ts \in D[o] \ sent(m)
    BY <1>2, <1>3
  <2> QED BY <1>0, <1>2, <2>1, <2>2
<1>8. \A s \in new : s.sent \in D[o] \ sent(m) /\ s.rtt > 0 /\ s.sent + s.rtt = n
  BY <1>7 DEF new, Samples
<1>9. \A s \in a.samples : s.sent \in E["client"] \/ s.sent \in E["server"]
  <2>1. \A r \in Roles : D[r] \subseteq E[r]
    BY <1>0
  <2>2. \A s \in new : s.sent \in D["client"] \/ s.sent \in D["server"]
    BY <1>2, <1>8 DEF Roles
  <2> QED BY <1>1, <1>3, <2>1, <2>2 DEF Roles
<1>10. \A r \in Roles, flag \in Watched : F[r][flag] \subseteq G[r][flag]
  BY <1>0
<1>11. \A s, t \in a.samples : s.sent = t.sent => s = t
  <2>1. \A s, t \in new : s.sent = t.sent => s = t
    BY <1>7 DEF new, Samples
  <2>2. \A s \in new, t \in m.samples : s.sent # t.sent
    BY <1>8 DEF sent
  <2> QED BY <1>1, <1>3, <2>1, <2>2
<1>12. CASE p.data # <<>>
  <2>1. /\ ~acks /\ E[o] = D[o] /\ E[role] = D[role] \cup {n}
    BY <1>0, <1>2, <1>12 DEF acks, Acks
  <2> DEFINE x == [end |-> EndSeq(Segment(p.seq, p.data)), ts |-> n]
  <2>2. /\ a.samples = m.samples /\ a.outstanding[o] = m.outstanding[o]
        /\ a.outstanding[role] = m.outstanding[role] \cup {x} /\ x.ts = n
    BY <1>1, <1>12, <2>1
  <2> HIDE DEF x
  <2>3. \A s \in m.samples : s.sent # n
    BY <1>0, <1>3 DEF Roles
  <2>4. \A q \in m.outstanding[role] : q.ts # n
    <3>1. \A q \in m.outstanding[role] : q.ts \in D[role]
      BY <1>3
    <3> QED BY <1>0, <3>1
  <2>5. sent(a) = sent(m) /\ n \notin sent(m)
    BY <2>2, <2>3 DEF sent
  <2>6. {q.ts : q \in a.outstanding[role]} = E[role] \ sent(a)
    <3>1. {q.ts : q \in a.outstanding[role]} = {q.ts : q \in m.outstanding[role]} \cup {n}
      BY <2>2
    <3> QED BY <1>3, <2>1, <2>5, <3>1
  <2>7. {q.ts : q \in a.outstanding[o]} = E[o] \ sent(a)
    BY <1>2, <1>3, <2>1, <2>2, <2>5
  <2>8. \A q, y \in a.outstanding[role] : q.ts = y.ts => q = y
    BY <1>3, <2>2, <2>4
  <2>9. \A r \in Roles : \A s \in a.samples : s.sent \in E[r] => s.rtt > 0 /\ s.sent + s.rtt \in G[Other(r)]["ACK"]
    <3>1. \A r \in Roles : \A s \in a.samples : s.sent \in E[r] => s.sent \in D[r]
      BY <1>2, <2>1, <2>2, <2>3
    <3> QED BY <1>3, <1>10, <2>2, <3>1, OthersRole DEF Watched
  <2>10. \A r \in Roles :
          /\ {q.ts : q \in a.outstanding[r]} = E[r] \ sent(a)
          /\ \A q, y \in a.outstanding[r] : q.ts = y.ts => q = y
    BY <1>2, <1>3, <2>2, <2>6, <2>7, <2>8
  <2> QED BY <1>5, <1>6, <1>9, <1>11, <2>9, <2>10 DEF Timed, a, sent
<1>13. CASE p.data = <<>>
  <2>1. \A r \in Roles : E[r] = D[r]
    BY <1>0, <1>13
  <2>2. a.outstanding[role] = m.outstanding[role]
    BY <1>1, <1>13
  <2>3. CASE acks
    <3>1. a.samples = m.samples \cup new /\ a.outstanding[o] = m.outstanding[o] \ covered
      BY <1>1, <2>3
    <3>2. n \in G[role]["ACK"]
      BY <1>0, <2>3 DEF acks, Acks, Watched
    <3>3. sent(a) = sent(m) \cup {q.ts : q \in covered}
      <4>1. \A q \in covered : [sent |-> q.ts, rtt |-> n - q.ts] \in new /\ [sent |-> q.ts, rtt |-> n - q.ts].sent = q.ts
        BY DEF new, Samples
      <4>2. \A s \in new : \E q \in covered : s.sent = q.ts
        BY DEF new, Samples
      <4>3. sent(a) = sent(m) \cup {s.sent : s \in new}
        BY <3>1 DEF sent
      <4>4. {s.sent : s \in new} = {q.ts : q \in covered}
        <5>1. \A q \in covered : \E s \in new : s.sent = q.ts
          BY <4>1
        <5>2. {s.sent : s \in new} \subseteq {q.ts : q \in covered}
          BY <4>2
        <5>3. {q.ts : q \in covered} \subseteq {s.sent : s \in new}
          BY <5>1
        <5> QED BY <5>2, <5>3
      <4> QED BY <4>3, <4>4
    <3>4. {q.ts : q \in a.outstanding[role]} = E[role] \ sent(a)
      <4>1. \A q \in covered : q.ts \notin D[role]
        BY <1>4, <1>7
      <4> QED BY <1>3, <2>1, <2>2, <3>3, <4>1
    <3>5. {q.ts : q \in a.outstanding[o]} = E[o] \ sent(a)
      <4>1. {q.ts : q \in m.outstanding[o] \ covered} = {q.ts : q \in m.outstanding[o]} \ {q.ts : q \in covered}
        BY <1>2, <1>3, <1>7
      <4> QED BY <1>2, <1>3, <2>1, <3>1, <3>3, <4>1
    <3>6. \A r \in Roles : \A q, y \in a.outstanding[r] : q.ts = y.ts => q = y
      BY <1>2, <1>3, <2>2, <3>1
    <3>7. \A r \in Roles : \A s \in a.samples : s.sent \in E[r] => s.rtt > 0 /\ s.sent + s.rtt \in G[Other(r)]["ACK"]
      <4>1. \A r \in Roles : \A s \in m.samples : s.sent \in E[r] => s.rtt > 0 /\ s.sent + s.rtt \in G[Other(r)]["ACK"]
        BY <1>3, <1>10, <2>1, OthersRole DEF Watched
      <4>2. \A r \in Roles : \A s \in new : s.sent \in E[r] => r = o
        BY <1>2, <1>4, <1>8, <2>1
      <4>3. \A s \in new : s.rtt > 0 /\ s.sent + s.rtt \in G[Other(o)]["ACK"]
        BY <1>2, <1>8, <3>2
      <4> QED BY <3>1, <4>1, <4>2, <4>3
    <3> QED BY <1>2, <1>3, <1>5, <1>6, <1>9, <1>11, <3>4, <3>5, <3>6, <3>7 DEF Timed, a, sent
  <2>4. CASE ~acks
    <3>1. a.samples = m.samples /\ a.outstanding[o] = m.outstanding[o]
      BY <1>1, <2>4
    <3>2. \A r \in Roles : a.outstanding[r] = m.outstanding[r]
      BY <1>2, <2>2, <3>1
    <3>3. \A r \in Roles : \A s \in a.samples : s.sent \in E[r] => s.rtt > 0 /\ s.sent + s.rtt \in G[Other(r)]["ACK"]
      BY <1>3, <1>10, <2>1, <3>1, OthersRole DEF Watched
    <3> QED BY <1>3, <1>5, <1>6, <1>9, <1>11, <2>1, <3>1, <3>2, <3>3 DEF Timed, a, sent
  <2> QED BY <2>3, <2>4
<1> QED BY <1>12, <1>13

(* What one segment does to the conversation of its flow.                   *)
LEMMA ConversedMeans ==
  ASSUME NEW c, ConvShape(c), NEW flow, NEW p, NEW ts
  PROVE  LET d == Conversed(c, flow, p, ts).conv IN
         ConvShape(d) /\ d.metrics = OnSegment(c.metrics, p, Role(flow, p), ts)
<1> DEFINE role == Role(flow, p)
           fed == FeedStream(c[role], p.seq, p.data)
           new == From(fed.st.out, Len(c[role].out))
           d == Conversed(c, flow, p, ts).conv
           metrics == OnSegment(c.metrics, p, role, ts)
<1>1. role \in Roles
  BY RoleIsOne
<1>2. MetricsShape(metrics)
  BY <1>1, OnSegmentMeans, Zenon DEF ConvShape
<1>3. d = IF p.data = <<>> THEN [c EXCEPT !.metrics = OnSegment(@, p, role, ts)]
          ELSE [c EXCEPT !.metrics = OnSegment(@, p, role, ts), ![role] = fed.st, !.text[role] = @ \o new]
  BY DEF Conversed
<1> HIDE DEF role, fed, new, d
<1>4. c = [client |-> c.client, server |-> c.server, metrics |-> c.metrics, text |-> c.text]
  BY DEF ConvShape
<1>5. d = [client |-> d.client, server |-> d.server, metrics |-> metrics, text |-> d.text]
  <2>1. CASE p.data = <<>>
    BY <1>3, <1>4, <2>1
  <2>2. CASE p.data # <<>> /\ role = "client"
    BY <1>3, <1>4, <2>2
  <2>3. CASE p.data # <<>> /\ role = "server"
    BY <1>3, <1>4, <2>3
  <2> QED BY <1>1, <2>1, <2>2, <2>3 DEF Roles
<1>6. d.metrics = metrics
  BY <1>5
<1> QED BY <1>2, <1>5, <1>6 DEF ConvShape, d, role

LEMMA FreshConversation == ConvShape(NewConversation) /\ NewConversation.metrics = NewMetrics
  BY DEF ConvShape, MetricsShape, NewConversation, NewMetrics

(* The times of a conversation are still those of its packets.              *)
LEMMA TimesStep ==
  ASSUME EngineShape, NEW p \in traffic, PacketArrives(p), \A k \in DOMAIN convs : TimesInv(k)
  PROVE  /\ DOMAIN convs' = {k \in DOMAIN flows' : k.protocol = "TCP"}
         /\ \A k \in DOMAIN convs' : ConvShape(convs'[k])
         /\ \A k \in DOMAIN convs' : TimesInv(k)'
<1>0. PICK K : K = FlowKey(p)
  OBVIOUS
<1> DEFINE n == Len(log) + 1
           flow == TrackedFlow(p)
           role == Role(flow, p)
           old == Got(convs, K, NewConversation)
           fed == Conversed(old, flow, p, n)
<1>1. /\ n \in Nat \ {0}
      /\ \A i \in DOMAIN log : i \in Nat /\ i < n
      /\ DOMAIN flows' = DOMAIN flows \cup {K}
      /\ K \notin DOMAIN flows => In(K) = {}
  BY <1>0, Placed, Zenon
<1>2. \A r \in Roles : DataOf(K)'[r] = DataOf(K)[r] \cup (IF r = role /\ p.data # <<>> THEN {n} ELSE {})
  BY <1>0, PlacedBy
<1>3. \A r \in Roles, flag \in Watched :
        FlagOf(K)'[r][flag] = FlagOf(K)[r][flag] \cup (IF r = role /\ flag \in p.flags THEN {n} ELSE {})
  BY <1>0, PlacedBy
<1>4. \A k \in DOMAIN flows \ {K} : DataOf(k)' = DataOf(k) /\ FlagOf(k)' = FlagOf(k)
  BY <1>0, PlacedBy, Zenon
<1>5. convs' = IF p.protocol = "TCP" THEN Extended(convs, K, fed.conv) ELSE convs
  BY <1>0 DEF PacketArrives
<1>6. K.protocol = p.protocol
  BY <1>0 DEF FlowKey
<1>7. DOMAIN convs = {k \in DOMAIN flows : k.protocol = "TCP"} /\ \A k \in DOMAIN convs : ConvShape(convs[k])
  BY DEF EngineShape
<1>8. role \in Roles
  BY RoleIsOne
<1> HIDE DEF n, flow, role, fed
<1>9. ASSUME NEW k \in DOMAIN convs \ {K}
      PROVE  ConvShape(convs'[k]) /\ convs'[k] = convs[k] /\ TimesInv(k)'
  <2>1. convs'[k] = convs[k]
    BY <1>5 DEF Extended
  <2>2. DataOf(k)' = DataOf(k) /\ FlagOf(k)' = FlagOf(k)
    BY <1>4, <1>7
  <2> QED BY <1>7, <2>1, <2>2 DEF TimesInv
<1>10. CASE p.protocol # "TCP"
  <2>1. K \notin DOMAIN convs /\ convs' = convs /\ DOMAIN convs' = {k \in DOMAIN flows' : k.protocol = "TCP"}
    BY <1>1, <1>5, <1>6, <1>7, <1>10
  <2> QED BY <1>9, <2>1
<1>11. CASE p.protocol = "TCP"
  <2>1. DOMAIN convs' = DOMAIN convs \cup {K} /\ convs'[K] = fed.conv
    BY <1>5, <1>11 DEF Extended
  <2>2. DOMAIN convs' = {k \in DOMAIN flows' : k.protocol = "TCP"}
    BY <1>1, <1>6, <1>7, <1>11, <2>1
  <2>3. ConvShape(old)
    BY <1>7, FreshConversation DEF Got
  <2>4. ConvShape(fed.conv) /\ fed.conv.metrics = OnSegment(old.metrics, p, role, n)
    BY <2>3, ConversedMeans DEF fed, role
  <2>5. Timed(DataOf(K), FlagOf(K), old.metrics)
    <3>1. CASE K \in DOMAIN flows
      <4>1. K \in DOMAIN convs /\ old = convs[K]
        BY <1>6, <1>7, <1>11, <3>1 DEF Got
      <4> QED BY <4>1 DEF TimesInv
    <3>2. CASE K \notin DOMAIN flows
      <4>1. old.metrics = NewMetrics
        BY <1>7, <3>2, FreshConversation DEF Got
      <4>2. \A r \in Roles : DataOf(K)[r] = {}
        BY <1>1, <3>2 DEF DataOf
      <4> QED BY <4>1, <4>2 DEF Timed, NewMetrics, Roles
    <3> QED BY <3>1, <3>2
  <2>6. DataOf(K)["client"] \cap DataOf(K)["server"] = {}
    BY DEF DataOf, Roles
  <2>7. /\ \A r \in Roles : \A i \in DataOf(K)[r] : i \in Nat /\ i < n
        /\ \A r \in Roles, flag \in Watched : \A i \in FlagOf(K)[r][flag] : i \in Nat /\ i < n
    BY <1>1, FlagsAreLogged
  <2>8. Timed(DataOf(K)', FlagOf(K)', OnSegment(old.metrics, p, role, n))
    <3> DEFINE D == DataOf(K)
               F == FlagOf(K)
               E == DataOf(K)'
               G == FlagOf(K)'
               m == old.metrics
    <3>1. /\ MetricsShape(m) /\ role \in Roles /\ n \in Nat
          /\ Timed(D, F, m) /\ D["client"] \cap D["server"] = {}
      BY <1>1, <1>8, <2>3, <2>5, <2>6 DEF ConvShape
    <3>2. Before(D, F, n)
      BY <2>7 DEF Before
    <3>3. Grown(D, F, E, G, p, role, n)
      BY <1>2, <1>3 DEF Grown
    <3> HIDE DEF D, F, E, G, m
    <3>4. Timed(E, G, OnSegment(m, p, role, n))
      BY <3>1, <3>2, <3>3, TimedMoves, Zenon
    <3> QED BY <3>4 DEF E, G, m
  <2>9. TimesInv(K)'
    BY <2>1, <2>4, <2>8, Zenon DEF TimesInv
  <2> QED BY <1>9, <2>1, <2>2, <2>4, <2>9
<1> QED BY <1>10, <1>11

LEMMA PhaseStays ==
  ASSUME NEW m \in Machines, NEW role \in Roles, NEW flags
  PROVE  AddFlags(m, role, flags).phase = "NONE" => m.phase = "NONE"
<1>1. CASE "RST" \in flags
  BY <1>1, AddFlagsMeans
<1>2. CASE "RST" \notin flags /\ "FIN" \in flags
  BY <1>2, AddFlagsMeans
<1>3. CASE "RST" \notin flags /\ "FIN" \notin flags
  BY <1>3, AddFlagsMeans
<1> QED BY <1>1, <1>2, <1>3

(* The state of a flow never becomes NONE again.                            *)
LEMMA StateStays ==
  ASSUME EngineShape, NEW p, NEW K, K = FlowKey(p)
  PROVE  TrackedFlow(p).state = "NONE" => (K \in DOMAIN flows => flows[K].state = "NONE")
<1> DEFINE flow == TrackedFlow(p)
           m == Machine(K)
<1>1. /\ m \in Machines /\ FlowShape(flow)
      /\ flow.machine = IF p.protocol = "TCP" THEN AddFlags(m, Role(flow, p), p.flags) ELSE m
  BY TrackedMeans
<1>2. Role(flow, p) \in Roles
  BY RoleIsOne
<1>3. flow.machine.phase = "NONE" => m.phase = "NONE"
  <2> HIDE DEF flow, m
  <2>1. AddFlags(m, Role(flow, p), p.flags).phase = "NONE" => m.phase = "NONE"
    BY <1>1, <1>2, PhaseStays, Zenon
  <2> QED BY <1>1, <2>1
<1>4. \A phase \in Phases : Coarse(phase) = "NONE" <=> phase = "NONE"
  BY DEF Phases, Coarse
<1>5. flow.state = "NONE" => m.phase = "NONE"
  BY <1>1, <1>3, <1>4 DEF FlowShape, Machines
<1>6. K \in DOMAIN flows => flows[K].state = Coarse(m.phase)
  BY DEF EngineShape, FlowShape, Machine
<1> QED BY <1>1, <1>4, <1>5, <1>6 DEF Machines

(* The states told of a flow, by their places S in the timeline T, when the *)
(* flow is in this state.                                                   *)
ToldInv(S, T, state) ==
  /\ S = {} => state = "NONE"
  /\ \A i \in S : (\A j \in S : j <= i) => T[i].what = state
  /\ \A i, j \in S : i < j /\ (\A n \in S : n <= i \/ j <= n) => T[i].what # T[j].what

LEMMA ToldMoves ==
  ASSUME NEW S, NEW T, NEW U, NEW before, NEW after, NEW N \in Nat,
         \A i \in S : i \in Nat /\ i < N /\ U[i] = T[i],
         U[N].what = after, before # after, ToldInv(S, T, before)
  PROVE  ToldInv(S \cup {N}, U, after)
<1>1. \A i \in S \cup {N} : (\A j \in S \cup {N} : j <= i) => U[i].what = after
  OBVIOUS
<1>2. ASSUME NEW i \in S \cup {N}, NEW j \in S \cup {N}, i < j, \A n \in S \cup {N} : n <= i \/ j <= n
      PROVE  U[i].what # U[j].what
  <2>1. i \in S
    BY <1>2
  <2>2. CASE j \in S
    BY <1>2, <2>1, <2>2 DEF ToldInv
  <2>3. CASE j = N
    <3>1. \A n \in S : n <= i
      BY <1>2, <2>3
    <3>2. T[i].what = before
      BY <2>1, <3>1 DEF ToldInv
    <3> QED BY <2>1, <2>3, <3>2
  <2> QED BY <2>2, <2>3
<1> QED BY <1>1, <1>2 DEF ToldInv

LEMMA ToldAlike ==
  ASSUME NEW S, NEW T, NEW U, NEW state, \A i \in S : U[i] = T[i], ToldInv(S, T, state)
  PROVE  ToldInv(S, U, state)
  BY DEF ToldInv

LEMMA StatesAreTold ==
  /\ \A k : StatesTold(k) <=> ToldInv(States(k), timeline, flows[k].state)
  /\ \A k : States(k) = {i \in StatesIn(timeline) : timeline[i].flow = flows[k].id}
  /\ \A k : StatesTold(k)' <=> ToldInv(States(k)', timeline', flows'[k].state)
  /\ \A k : States(k)' = {i \in StatesIn(timeline') : timeline'[i].flow = flows'[k].id}
<1>1. /\ \A k : StatesTold(k) <=> ToldInv(States(k), timeline, flows[k].state)
      /\ \A k : States(k) = {i \in StatesIn(timeline) : timeline[i].flow = flows[k].id}
  BY Zenon DEF StatesTold, ToldInv, States, StatesIn
<1>2. /\ \A k : StatesTold(k)' <=> ToldInv(States(k)', timeline', flows'[k].state)
      /\ \A k : States(k)' = {i \in StatesIn(timeline') : timeline'[i].flow = flows'[k].id}
  BY Zenon DEF StatesTold, ToldInv, States, StatesIn
<1> QED BY <1>1, <1>2

LEMMA EventsAreSequences ==
  ASSUME NEW p, NEW started \in BOOLEAN, NEW before, NEW flow, NEW issue, NEW tcp \in BOOLEAN
  PROVE  \E T : /\ Events(p, started, before, flow) \in Seq(T)
                /\ (IF tcp THEN IssueEvent(flow.id, issue) ELSE <<>>) \in Seq(T)
<1> DEFINE x1 == Told("flow", flow.id, p.protocol)
           x2 == Told("state", flow.id, flow.state)
           x3 == Told("app", flow.id, p.app)
           x4 == Told("issue", flow.id, issue)
           T == {x1, x2, x3, x4}
           A == Maybe(started, x1)
           B == Maybe(flow.state # "NONE" /\ flow.state # before, x2)
           C == Maybe(p.app # Nothing, x3)
           D == IF tcp THEN IssueEvent(flow.id, issue) ELSE <<>>
<1>1. \A c \in BOOLEAN, x \in T : Maybe(c, x) \in Seq(T)
  <2> SUFFICES ASSUME NEW c \in BOOLEAN, NEW x \in T PROVE Maybe(c, x) \in Seq(T)
    OBVIOUS
  <2> HIDE DEF T
  <2> QED BY DEF Maybe
<1>2. A \in Seq(T) /\ B \in Seq(T) /\ C \in Seq(T)
  BY <1>1
<1>3. D \in Seq(T)
  <2>1. CASE tcp
    <3>1. D = Maybe(issue.kind # "none", x4)
      BY <2>1 DEF IssueEvent
    <3> QED BY <1>1, <3>1
  <2>2. CASE ~tcp
    <3>1. D = <<>>
      BY <2>2
    <3> HIDE DEF T, D
    <3> QED BY <3>1, NothingTold
  <2> QED BY <2>1, <2>2
<1>4. Events(p, started, before, flow) = (A \o B) \o C
  BY DEF Events
<1> HIDE DEF T, A, B, C, D
<1>5. (A \o B) \o C \in Seq(T)
  BY <1>2
<1> QED BY <1>3, <1>4, <1>5 DEF D

(* What one packet adds to the timeline.                                    *)
LEMMA TimelineMoves ==
  ASSUME EngineShape, NEW p \in traffic, PacketArrives(p), NEW K, K = FlowKey(p)
  PROVE  LET flow == TrackedFlow(p)
             before == IF K \in DOMAIN flows THEN flows[K].state ELSE "NONE" IN
         /\ \E S : timeline' \in Seq(S)
         /\ \A i \in DOMAIN timeline : timeline'[i] = timeline[i]
         /\ IF flow.state # "NONE" /\ flow.state # before
            THEN \E N \in Nat : /\ \A i \in DOMAIN timeline : i \in Nat /\ i < N
                                /\ StatesIn(timeline') = StatesIn(timeline) \cup {N}
                                /\ timeline'[N] = Told("state", flow.id, flow.state)
            ELSE StatesIn(timeline') = StatesIn(timeline)
<1> DEFINE flow == TrackedFlow(p)
           n == Len(log) + 1
           started == K \notin DOMAIN flows
           before == IF started THEN "NONE" ELSE flows[K].state
           tcp == p.protocol = "TCP"
           fed == Conversed(Got(convs, K, NewConversation), flow, p, n)
           X == Events(p, started, before, flow)
           Y == IF tcp THEN IssueEvent(flow.id, fed.issue) ELSE <<>>
           e == X \o Y
           c == flow.state # "NONE" /\ flow.state # before
<1>1. timeline' = (timeline \o X) \o Y
  BY DEF PacketArrives
<1>2. PICK S : timeline \in Seq(S)
  BY DEF EngineShape
<1>3. PICK T : X \in Seq(T) /\ Y \in Seq(T)
  BY EventsAreSequences
<1>4. TellsState(e, flow, before)
  <2> started \in BOOLEAN /\ tcp \in BOOLEAN
    OBVIOUS
  <2> HIDE DEF started, tcp, flow, fed, before
  <2> QED BY EventsMeans, Zenon
<1> HIDE DEF flow, n, started, before, tcp, fed, X, Y, e, c
<1>5. timeline' = timeline \o e
  <2>1. timeline \in Seq(S \cup T) /\ X \in Seq(S \cup T) /\ Y \in Seq(S \cup T)
    BY <1>2, <1>3, SeqMonotonic
  <2> QED BY <1>1, <2>1, ConcatAssociative DEF e
<1>6. PICK Z : e \in Seq(Z)
  BY <1>4 DEF TellsState
<1>7. /\ timeline' \in Seq(S \cup Z) /\ DOMAIN timeline = 1..Len(timeline) /\ Len(timeline) \in Nat
      /\ DOMAIN e = 1..Len(e)
      /\ \A i \in 1..Len(timeline) : timeline'[i] = timeline[i]
      /\ \A i \in 1..Len(e) : timeline'[Len(timeline) + i] = e[i]
  BY <1>2, <1>5, <1>6, Joined
<1>8. StatesIn(timeline') = StatesIn(timeline) \cup Shifted(Len(timeline), StatesIn(e))
  <2>1. \A s \in Seq(S), t \in Seq(Z) : StatesIn(s \o t) = StatesIn(s) \cup Shifted(Len(s), StatesIn(t))
    BY JoinedStates
  <2>2. \A t \in Seq(Z) : StatesIn(timeline \o t) = StatesIn(timeline) \cup Shifted(Len(timeline), StatesIn(t))
    BY <1>2, <2>1
  <2> QED BY <1>5, <1>6, <2>2
<1>9. CASE c
  <2>1. PICK i \in DOMAIN e : StatesIn(e) = {i} /\ e[i] = Told("state", flow.id, flow.state)
    BY <1>4, <1>9 DEF TellsState, c
  <2>2. /\ Len(timeline) + i \in Nat
        /\ \A j \in DOMAIN timeline : j \in Nat /\ j < Len(timeline) + i
        /\ timeline'[Len(timeline) + i] = Told("state", flow.id, flow.state)
    BY <1>7, <2>1
  <2>3. Shifted(Len(timeline), {i}) = {Len(timeline) + i}
    BY Zenon DEF Shifted
  <2>4. StatesIn(timeline') = StatesIn(timeline) \cup {Len(timeline) + i}
    BY <1>8, <2>1, <2>3
  <2> QED BY <1>7, <1>9, <2>2, <2>4 DEF c, flow, before, started
<1>10. CASE ~c
  <2>1. Shifted(Len(timeline), {}) = {}
    BY Zenon DEF Shifted
  <2>2. StatesIn(timeline') = StatesIn(timeline)
    BY <1>4, <1>8, <1>10, <2>1 DEF TellsState, c
  <2> QED BY <1>7, <1>10, <2>2 DEF c, flow, before, started
<1> QED BY <1>9, <1>10

(* The state of a flow is still the last one told.                          *)
LEMMA ToldStep ==
  ASSUME EngineShape, NEW p \in traffic, PacketArrives(p), \A k \in DOMAIN flows : StatesTold(k)
  PROVE  \A k \in DOMAIN flows' : StatesTold(k)'
<1>0. PICK K : K = FlowKey(p)
  OBVIOUS
<1> DEFINE flow == TrackedFlow(p)
           before == IF K \in DOMAIN flows THEN flows[K].state ELSE "NONE"
           told == flow.state # "NONE" /\ flow.state # before
           Old == IF K \in DOMAIN flows THEN States(K) ELSE {}
<1>1. /\ \A i \in DOMAIN timeline : timeline'[i] = timeline[i]
      /\ IF told
         THEN \E N \in Nat : /\ \A i \in DOMAIN timeline : i \in Nat /\ i < N
                             /\ StatesIn(timeline') = StatesIn(timeline) \cup {N}
                             /\ timeline'[N] = Told("state", flow.id, flow.state)
         ELSE StatesIn(timeline') = StatesIn(timeline)
  BY <1>0, TimelineMoves
<1>2. /\ DOMAIN flows' = DOMAIN flows \cup {K} /\ flows'[K] = flow
      /\ \A k \in DOMAIN flows \ {K} : flows'[k] = flows[k]
  BY <1>0, Placed, Zenon
<1>3. /\ K \in DOMAIN flows => flow.id = flows[K].id
      /\ K \notin DOMAIN flows => flow.id = Known + 1
  BY <1>0, TrackedMeans
<1>4. StatesIn(timeline) \subseteq DOMAIN timeline
  BY DEF StatesIn
<1>5. /\ \A k \in DOMAIN flows : flows[k].id \in 1..Known
      /\ \A k, l \in DOMAIN flows : flows[k].id = flows[l].id => k = l
      /\ \A i \in StatesIn(timeline) : timeline[i].flow \in 1..Known
      /\ Known \in Nat
  BY FS_CardinalityType DEF EngineShape, StatesIn, Known
<1>6. \A k : States(k) = {i \in StatesIn(timeline) : timeline[i].flow = flows[k].id}
  BY StatesAreTold
<1>7. States(K)' = {i \in StatesIn(timeline') : timeline'[i].flow = flow.id}
  BY <1>2, StatesAreTold
<1>8. {i \in StatesIn(timeline) : timeline'[i].flow = flow.id} = Old
  <2>1. CASE K \in DOMAIN flows
    BY <1>1, <1>3, <1>4, <1>6, <2>1
  <2>2. CASE K \notin DOMAIN flows
    BY <1>1, <1>3, <1>4, <1>5, <2>2
  <2> QED BY <2>1, <2>2
<1>9. ToldInv(Old, timeline, before)
  <2>1. CASE K \in DOMAIN flows
    BY <2>1, StatesAreTold
  <2>2. CASE K \notin DOMAIN flows
    BY <2>2 DEF ToldInv
  <2> QED BY <2>1, <2>2
<1>10. Old \subseteq DOMAIN timeline
  BY <1>4, <1>6
<1>11. flow.state = "NONE" => before = "NONE"
  BY <1>0, StateStays
<1>12. ToldInv(States(K)', timeline', flow.state)
  <2> HIDE DEF flow, before, Old
  <2>1. CASE told
    <3>1. PICK N \in Nat : /\ \A i \in DOMAIN timeline : i \in Nat /\ i < N
                           /\ StatesIn(timeline') = StatesIn(timeline) \cup {N}
                           /\ timeline'[N] = Told("state", flow.id, flow.state)
      BY <1>1, <2>1
    <3>2. timeline'[N].flow = flow.id /\ timeline'[N].what = flow.state
      BY <3>1 DEF Told
    <3>3. States(K)' = Old \cup {N}
      BY <1>7, <1>8, <3>1, <3>2
    <3>4. \A i \in Old : i \in Nat /\ i < N /\ timeline'[i] = timeline[i]
      BY <1>1, <1>10, <3>1
    <3> DEFINE U == timeline'
               T == timeline
    <3>5. /\ \A i \in Old : i \in Nat /\ i < N /\ U[i] = T[i]
          /\ U[N].what = flow.state /\ before # flow.state /\ ToldInv(Old, T, before)
      BY <1>9, <2>1, <3>2, <3>4
    <3> HIDE DEF U, T
    <3>6. ToldInv(Old \cup {N}, U, flow.state)
      BY <3>5, ToldMoves
    <3> QED BY <3>3, <3>6 DEF U
  <2>2. CASE ~told
    <3>1. flow.state = before
      BY <1>11, <2>2
    <3>2. States(K)' = Old
      BY <1>1, <1>7, <1>8, <2>2
    <3>3. \A i \in Old : timeline'[i] = timeline[i]
      BY <1>1, <1>10
    <3> QED BY <1>9, <3>1, <3>2, <3>3, ToldAlike
  <2> QED BY <2>1, <2>2
<1>13. StatesTold(K)'
  BY <1>2, <1>12, StatesAreTold
<1>14. ASSUME NEW k \in DOMAIN flows \ {K} PROVE StatesTold(k)'
  <2>1. flows'[k] = flows[k] /\ flows[k].id # flow.id
    BY <1>2, <1>3, <1>5
  <2>2. States(k)' = {i \in StatesIn(timeline') : timeline'[i].flow = flows[k].id}
    BY <2>1, StatesAreTold
  <2>3. {i \in StatesIn(timeline) : timeline'[i].flow = flows[k].id} = States(k)
    BY <1>1, <1>4, <1>6
  <2>4. States(k)' = States(k)
    <3> HIDE DEF flow, before
    <3>1. CASE told
      <4>1. PICK N \in Nat : /\ StatesIn(timeline') = StatesIn(timeline) \cup {N}
                             /\ timeline'[N] = Told("state", flow.id, flow.state)
        BY <1>1, <3>1
      <4>2. timeline'[N].flow = flow.id
        BY <4>1 DEF Told
      <4> QED BY <2>1, <2>2, <2>3, <4>1, <4>2
    <3>2. CASE ~told
      BY <1>1, <2>2, <2>3, <3>2
    <3> QED BY <3>1, <3>2
  <2>5. ToldInv(States(k), timeline, flows[k].state)
    BY StatesAreTold
  <2>6. \A i \in States(k) : timeline'[i] = timeline[i]
    BY <1>1, <1>4, <1>6
  <2>7. ToldInv(States(k)', timeline', flows'[k].state)
    BY <2>1, <2>4, <2>5, <2>6, ToldAlike
  <2> QED BY <2>7, StatesAreTold
<1> QED BY <1>2, <1>13, <1>14

(* Every packet still has a flow of its own.                                *)
LEMMA ShapeStep ==
  ASSUME EngineInv, NEW p \in traffic, PacketArrives(p)
  PROVE  EngineShape'
<1>0. PICK K : K = FlowKey(p)
  OBVIOUS
<1> DEFINE flow == TrackedFlow(p)
           n == Len(log) + 1
           m == Machine(K)
<1>S. EngineShape
  BY DEF EngineInv
<1>1. /\ log' \in Seq(traffic')
      /\ DOMAIN log' = DOMAIN log \cup {n} /\ \A i \in DOMAIN log : log'[i] = log[i]
      /\ log'[n] = p
      /\ DOMAIN flows' = DOMAIN flows \cup {K} /\ flows'[K] = flow
      /\ \A k \in DOMAIN flows \ {K} : flows'[k] = flows[k]
  BY <1>0, <1>S, Placed, Zenon
<1>2. /\ m \in Machines /\ FlowShape(flow)
      /\ flow.machine = IF p.protocol = "TCP" THEN AddFlags(m, Role(flow, p), p.flags) ELSE m
      /\ K \in DOMAIN flows => flow.id = flows[K].id
      /\ K \notin DOMAIN flows => flow.id = Known + 1
  BY <1>0, <1>S, TrackedMeans
<1>3. /\ IsFiniteSet(DOMAIN flows') /\ Known \in Nat
      /\ Known' = IF K \in DOMAIN flows THEN Known ELSE Known + 1
  BY <1>1, <1>S, FS_AddElement, FS_CardinalityType DEF Known, EngineShape
<1>4. /\ \A k \in DOMAIN flows : FlowShape(flows[k]) /\ flows[k].id \in 1..Known
      /\ \A k, l \in DOMAIN flows : flows[k].id = flows[l].id => k = l
      /\ \A k \in DOMAIN flows : k.protocol # "TCP" => flows[k].machine = NewMachine
      /\ \A i \in DOMAIN log : FlowKey(log[i]) \in DOMAIN flows
      /\ \A i \in StatesIn(timeline) : timeline[i].flow \in 1..Known
  BY <1>S DEF EngineShape, StatesIn
<1>5. K.protocol = p.protocol
  BY <1>0 DEF FlowKey
<1> HIDE DEF flow, n, m
<1>6. \A k \in DOMAIN flows' : FlowShape(flows'[k]) /\ flows'[k].id \in 1..Known'
  BY <1>1, <1>2, <1>3, <1>4
<1>7. \A k, l \in DOMAIN flows' : flows'[k].id = flows'[l].id => k = l
  BY <1>1, <1>2, <1>3, <1>4
<1>8. \A k \in DOMAIN flows' : k.protocol # "TCP" => flows'[k].machine = NewMachine
  BY <1>1, <1>2, <1>4, <1>5 DEF m, Machine
<1>9. /\ DOMAIN convs' = {k \in DOMAIN flows' : k.protocol = "TCP"}
      /\ \A k \in DOMAIN convs' : ConvShape(convs'[k])
  BY <1>S, TimesStep DEF EngineInv
<1>10. \A i \in DOMAIN log' : FlowKey(log'[i]) \in DOMAIN flows'
  BY <1>0, <1>1, <1>4
<1>11. \A i \in DOMAIN timeline' : timeline'[i].kind = "state" => timeline'[i].flow \in 1..Known'
  <2>1. flow.id \in 1..Known' /\ 1..Known \subseteq 1..Known'
    BY <1>1, <1>3, <1>6
  <2> DEFINE before == IF K \in DOMAIN flows THEN flows[K].state ELSE "NONE"
  <2>2. /\ \A i \in DOMAIN timeline : timeline'[i] = timeline[i]
        /\ IF flow.state # "NONE" /\ flow.state # before
           THEN \E N \in Nat : /\ \A i \in DOMAIN timeline : i \in Nat /\ i < N
                               /\ StatesIn(timeline') = StatesIn(timeline) \cup {N}
                               /\ timeline'[N] = Told("state", flow.id, flow.state)
           ELSE StatesIn(timeline') = StatesIn(timeline)
    BY <1>0, <1>S, TimelineMoves DEF flow
  <2>3. \A i \in StatesIn(timeline') : i \in StatesIn(timeline) \/ timeline'[i] = Told("state", flow.id, flow.state)
    BY <2>2
  <2>4. StatesIn(timeline) \subseteq DOMAIN timeline
    BY DEF StatesIn
  <2>5. \A i \in StatesIn(timeline') : timeline'[i].flow \in 1..Known'
    BY <1>4, <2>1, <2>2, <2>3, <2>4 DEF Told
  <2> QED BY <2>5 DEF StatesIn
<1>12. \E S : timeline' \in Seq(S)
  BY <1>0, <1>S, TimelineMoves
<1> QED BY <1>1, <1>3, <1>6, <1>7, <1>8, <1>9, <1>10, <1>11, <1>12 DEF EngineShape

----------------------------------------------------------------------------
(* The end of a capture, and the invariant.                                 *)

(* What the flush tells are findings, and no states.                        *)
LEMMA FlushTells ==
  ASSUME EngineShape
  PROVE  (\E S : FlushEvents \in Seq(S)) /\ StatesIn(FlushEvents) = {}
<1> DEFINE Found == {x \in (DOMAIN convs) \X Roles : Flushed(x[1], x[2]).issue # NoIssue}
           Earlier(x, y) == flows[x[1]].id < flows[y[1]].id \/ (x[1] = y[1] /\ x[2] = "client" /\ y[2] = "server")
           At(i) == CHOOSE x \in Found : Cardinality({y \in Found : Earlier(y, x)}) = i - 1
           told(i) == Told("issue", flows[At(i)[1]].id, Flushed(At(i)[1], At(i)[2]).issue)
           n == Cardinality(Found)
           S == {told(i) : i \in 1..n}
<1>1. IsFiniteSet(Found)
  <2>1. IsFiniteSet(DOMAIN convs)
    <3>1. DOMAIN convs \subseteq DOMAIN flows /\ IsFiniteSet(DOMAIN flows)
      BY DEF EngineShape
    <3> QED BY <3>1, FS_Subset
  <2>2. IsFiniteSet(Roles)
    <3>1. Roles = ({} \cup {"client"}) \cup {"server"}
      BY DEF Roles
    <3> QED BY <3>1, FS_EmptySet, FS_AddElement
  <2>3. IsFiniteSet((DOMAIN convs) \X Roles)
    BY <2>1, <2>2, FS_Product
  <2>4. Found \in SUBSET ((DOMAIN convs) \X Roles)
    OBVIOUS
  <2> HIDE DEF Found
  <2> QED BY <2>3, <2>4, FS_Subset
<1>2. n \in Nat
  BY <1>1, FS_CardinalityType
<1>3. FlushEvents = [i \in 1..n |-> told(i)]
  BY DEF FlushEvents
<1>4. \A i \in 1..n : told(i).kind = "issue"
  BY DEF Told
<1> HIDE DEF Found, n, told
<1>5. FlushEvents \in [1..n -> S] /\ DOMAIN FlushEvents = 1..n /\ \A i \in 1..n : FlushEvents[i].kind = "issue"
  BY <1>3, <1>4
<1> HIDE DEF S
<1>6. FlushEvents \in Seq(S)
  BY <1>2, <1>5, SeqDef
<1>7. StatesIn(FlushEvents) = {}
  BY <1>5 DEF StatesIn
<1> QED BY <1>6, <1>7

LEMMA EndStep ==
  ASSUME EngineInv, EndOfCapture
  PROVE  EngineInv'
<1>1. /\ traffic' = traffic /\ log' = log /\ flows' = flows /\ timeline' = timeline \o FlushEvents
      /\ convs' = [k \in DOMAIN convs |-> [convs[k] EXCEPT !.client = Flushed(k, "client").st, !.server = Flushed(k, "server").st]]
  BY DEF EndOfCapture
<1>S. EngineShape
  BY DEF EngineInv
<1>2. DOMAIN convs' = DOMAIN convs
  BY <1>1
<1>3. ASSUME NEW k \in DOMAIN convs PROVE ConvShape(convs'[k]) /\ convs'[k].metrics = convs[k].metrics
  <2>1. convs'[k] = [convs[k] EXCEPT !.client = Flushed(k, "client").st, !.server = Flushed(k, "server").st]
    BY <1>1
  <2>2. ConvShape(convs[k])
    BY <1>S DEF EngineShape
  <2>3. convs[k] = [client |-> convs[k].client, server |-> convs[k].server, metrics |-> convs[k].metrics, text |-> convs[k].text]
    BY <2>2 DEF ConvShape
  <2>4. convs'[k] = [client |-> Flushed(k, "client").st, server |-> Flushed(k, "server").st,
                     metrics |-> convs[k].metrics, text |-> convs[k].text]
    BY <2>1, <2>3
  <2> QED BY <2>2, <2>4 DEF ConvShape
<1>4. PICK S : timeline \in Seq(S)
  BY <1>S DEF EngineShape
<1>5. PICK T : FlushEvents \in Seq(T)
  BY <1>S, FlushTells
<1>6. /\ timeline' \in Seq(S \cup T) /\ DOMAIN timeline = 1..Len(timeline)
      /\ \A i \in DOMAIN timeline : timeline'[i] = timeline[i]
  <2>1. \A s \in Seq(S), t \in Seq(T) :
          /\ s \o t \in Seq(S \cup T) /\ DOMAIN s = 1..Len(s)
          /\ \A i \in 1..Len(s) : (s \o t)[i] = s[i]
    BY Joined
  <2>2. /\ timeline \o FlushEvents \in Seq(S \cup T) /\ DOMAIN timeline = 1..Len(timeline)
        /\ \A i \in 1..Len(timeline) : (timeline \o FlushEvents)[i] = timeline[i]
    BY <1>4, <1>5, <2>1
  <2> QED BY <1>1, <2>2
<1>7. StatesIn(timeline') = StatesIn(timeline)
  <2>1. \A s \in Seq(S), t \in Seq(T) : StatesIn(s \o t) = StatesIn(s) \cup Shifted(Len(s), StatesIn(t))
    BY JoinedStates
  <2>2. \A t \in Seq(T) : StatesIn(timeline \o t) = StatesIn(timeline) \cup Shifted(Len(timeline), StatesIn(t))
    BY <1>4, <2>1
  <2>3. StatesIn(timeline \o FlushEvents) = StatesIn(timeline) \cup Shifted(Len(timeline), StatesIn(FlushEvents))
    BY <1>5, <2>2
  <2>4. Shifted(Len(timeline), {}) = {}
    BY Zenon DEF Shifted
  <2> QED BY <1>1, <1>S, <2>3, <2>4, FlushTells
<1>8. StatesIn(timeline) \subseteq DOMAIN timeline
  BY DEF StatesIn
<1>9. Known' = Known
  BY <1>1 DEF Known
<1>10. \A i \in DOMAIN timeline' : timeline'[i].kind = "state" => timeline'[i].flow \in 1..Known'
  <2>1. \A i \in StatesIn(timeline) : timeline[i].flow \in 1..Known
    BY <1>S DEF EngineShape, StatesIn
  <2>2. \A i \in StatesIn(timeline') : timeline'[i].flow \in 1..Known'
    BY <1>6, <1>7, <1>8, <1>9, <2>1
  <2> QED BY <2>2 DEF StatesIn
<1>11. EngineShape'
  BY <1>1, <1>2, <1>3, <1>6, <1>9, <1>10, <1>S DEF EngineShape
<1>12. \A k : In(k)' = In(k)
  BY <1>1 DEF In
<1>13. ASSUME NEW k \in DOMAIN flows PROVE CountedInv(k)' /\ PhaseInv(k)' /\ StatesTold(k)'
  <2>1. CountedInv(k) /\ PhaseInv(k) /\ StatesTold(k)
    BY DEF EngineInv
  <2>2. CountedInv(k)'
    BY <1>1, <1>12, <2>1 DEF CountedInv
  <2>3. FlagOf(k)' = FlagOf(k)
    BY <1>1, <1>12 DEF FlagOf
  <2>4. PhaseInv(k)'
    BY <1>1, <2>1, <2>3 DEF PhaseInv
  <2>5. States(k)' = States(k) /\ States(k) \subseteq DOMAIN timeline
    BY <1>1, <1>6, <1>7, <1>8, StatesAreTold
  <2>6. ToldInv(States(k), timeline, flows[k].state)
    BY <2>1, StatesAreTold
  <2>7. ToldInv(States(k)', timeline', flows'[k].state)
    BY <1>1, <1>6, <2>5, <2>6, ToldAlike
  <2>8. StatesTold(k)'
    BY <2>7, StatesAreTold
  <2> QED BY <2>2, <2>4, <2>8
<1>14. ASSUME NEW k \in DOMAIN convs PROVE TimesInv(k)'
  <2>1. DataOf(k)' = DataOf(k) /\ FlagOf(k)' = FlagOf(k)
    BY <1>1, <1>12 DEF DataOf, FlagOf
  <2> QED BY <1>3, <2>1 DEF TimesInv, EngineInv
<1> QED BY <1>1, <1>2, <1>11, <1>13, <1>14 DEF EngineInv

LEMMA EngineInvInit == StreamInit => EngineInv
<1> SUFFICES ASSUME StreamInit PROVE EngineInv
  OBVIOUS
<1>1. log = <<>> /\ timeline = <<>> /\ DOMAIN flows = {} /\ DOMAIN convs = {}
  BY DEF StreamInit
<1>2. DOMAIN log = {} /\ DOMAIN timeline = {} /\ log \in Seq(traffic) /\ timeline \in Seq({})
  BY <1>1
<1>3. IsFiniteSet(DOMAIN flows)
  BY <1>1, FS_EmptySet
<1> QED BY <1>1, <1>2, <1>3 DEF EngineInv, EngineShape

LEMMA EngineInvStep == EngineInv /\ [StreamNext]_streamVars => EngineInv'
<1> SUFFICES ASSUME EngineInv, [StreamNext]_streamVars PROVE EngineInv'
  OBVIOUS
<1>1. ASSUME NEW p \in traffic, PacketArrives(p) PROVE EngineInv'
  <2>1. EngineShape' /\ EngineShape
    BY <1>1, ShapeStep DEF EngineInv
  <2>2. \A k \in DOMAIN flows' : CountedInv(k)'
    BY <1>1, <2>1, CountedStep DEF EngineInv
  <2>3. \A k \in DOMAIN flows' : PhaseInv(k)'
    BY <1>1, <2>1, PhaseStep DEF EngineInv
  <2>4. \A k \in DOMAIN flows' : StatesTold(k)'
    BY <1>1, <2>1, ToldStep DEF EngineInv
  <2>5. \A k \in DOMAIN convs' : TimesInv(k)'
    BY <1>1, <2>1, TimesStep DEF EngineInv
  <2> QED BY <2>1, <2>2, <2>3, <2>4, <2>5, Zenon DEF EngineInv
<1>2. CASE EndOfCapture
  BY <1>2, EndStep
<1>3. CASE UNCHANGED streamVars
  <2>1. traffic' = traffic /\ log' = log /\ flows' = flows /\ convs' = convs /\ timeline' = timeline
    BY <1>3 DEF streamVars
  <2>2. EngineShape'
    BY <2>1 DEF EngineInv, EngineShape, Known
  <2>3. ASSUME NEW k PROVE In(k)' = In(k) /\ DataOf(k)' = DataOf(k) /\ FlagOf(k)' = FlagOf(k) /\ States(k)' = States(k)
    BY <2>1 DEF In, DataOf, FlagOf, States
  <2>4. ASSUME NEW k \in DOMAIN flows PROVE CountedInv(k)' /\ PhaseInv(k)' /\ StatesTold(k)'
    BY <2>1, <2>3 DEF EngineInv, CountedInv, PhaseInv, StatesTold
  <2>5. ASSUME NEW k \in DOMAIN convs PROVE TimesInv(k)'
    BY <2>1, <2>3 DEF EngineInv, TimesInv
  <2> QED BY <2>1, <2>2, <2>4, <2>5 DEF EngineInv
<1> QED BY <1>1, <1>2, <1>3 DEF StreamNext

LEMMA EngineInvHolds == StreamSpec => []EngineInv
  BY EngineInvInit, EngineInvStep, PTL DEF StreamSpec

(* A state is told and reached for a reason that was captured.              *)
LEMMA Earned ==
  ASSUME EngineInv, NEW k \in DOMAIN flows
  PROVE  StateEarned(k)
<1> DEFINE F == FlagOf(k)
           m == flows[k].machine
<1>1. \A r \in Roles, flag \in Watched : Flagged(k, r, flag) = F[r][flag]
  BY DEF FlagOf, Flagged, By
<1>2. m \in Machines /\ flows[k].state = Coarse(m.phase) /\ PhaseEarned(F, m)
  BY DEF EngineInv, EngineShape, FlowShape, PhaseInv
<1>3. /\ flows[k].state = "ESTABLISHED" => m.phase = "ESTABLISHED"
      /\ flows[k].state = "CLOSED" => m.phase = "CLOSED"
      /\ flows[k].state = "RST" => m.phase = "RESET"
  BY <1>2 DEF Machines, Phases, Coarse
<1>4. \A r \in Roles : /\ Flagged(k, r, "SYN") = F[r]["SYN"] /\ Flagged(k, r, "ACK") = F[r]["ACK"]
                       /\ Flagged(k, r, "FIN") = F[r]["FIN"] /\ Flagged(k, r, "RST") = F[r]["RST"]
  BY <1>1 DEF Watched
<1> HIDE DEF F, m
<1> QED BY <1>2, <1>3, <1>4 DEF StateEarned, PhaseEarned, Roles

LEMMA TimesAreTimed ==
  ASSUME EngineInv, NEW k \in DOMAIN convs
  PROVE  SegmentsTimed(k)
<1> DEFINE F == FlagOf(k)
           D == DataOf(k)
           m == convs[k].metrics
<1>1. \A r \in Roles : Carriers(k, r) = D[r]
  BY DEF DataOf, Carriers, By
<1>2. \A r \in Roles : Flagged(k, r, "SYN") = F[r]["SYN"] /\ Flagged(k, r, "ACK") = F[r]["ACK"]
  BY DEF FlagOf, Flagged, By, Watched
<1>3. Timed(D, F, m)
  BY DEF EngineInv, TimesInv
<1> HIDE DEF F, D
<1> QED BY <1>1, <1>2, <1>3, OthersRole DEF Timed, SegmentsTimed, Roles

LEMMA Counted ==
  ASSUME EngineInv, NEW k \in DOMAIN flows
  PROVE  flows[k].packets = Cardinality(In(k)) /\ log[First(In(k))].src = flows[k].src
<1>1. PICK i \in In(k) : (\A j \in In(k) : i <= j) /\ log[i].src = flows[k].src
  BY DEF EngineInv, CountedInv
<1>2. In(k) \subseteq Nat
  <2>1. DOMAIN log = 1..Len(log) /\ Len(log) \in Nat
    BY DEF EngineInv, EngineShape
  <2> QED BY <2>1 DEF In
<1>3. First(In(k)) = i
  BY <1>1, <1>2 DEF First
<1> QED BY <1>1, <1>3 DEF EngineInv, CountedInv

(* StateWasEarned: what is told and kept of a flow is what its packets,     *)
(* whatever order they come in and however often, gave reason for.          *)
THEOREM FlowStatesEarned == StreamSpec => []StateWasEarned
<1>1. EngineInv => StateWasEarned
  <2> SUFFICES ASSUME EngineInv, NEW k \in DOMAIN flows
               PROVE  /\ flows[k].packets = Cardinality(In(k)) /\ log[First(In(k))].src = flows[k].src
                      /\ StateEarned(k) /\ StatesTold(k)
                      /\ k \in DOMAIN convs => SegmentsTimed(k)
    BY DEF StateWasEarned
  <2> QED BY Counted, Earned, TimesAreTimed, Zenon DEF EngineInv
<1> QED BY <1>1, EngineInvHolds, PTL
=============================================================================
