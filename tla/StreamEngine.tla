---- MODULE StreamEngine ----
(***************************************************************************)
(* The stream engine of a capture: packets arrive in any order, repeated   *)
(* or not at all, and each is given to the flow tracker, the TCP states,   *)
(* the conversation of its flow and the timeline, as CaptureController     *)
(* does for one packet after another (core/service.py, core/flows/,        *)
(* core/timeline/service.py, core/loss.py).                                *)
(***************************************************************************)
EXTENDS TcpStreams, FiniteSets

CONSTANTS
  Traffics,     \* what two or more hosts send: sets of packets, any of which may be captured at any time
  MaxArrivals   \* how many packets are captured

\* The bytes one peer sends another over TCP are numbered from one start, and are fewer than half the
\* sequence space: as many as serial arithmetic can tell apart (RFC 1982, reassembly.py:15).
Sent(p, q) == q.protocol = "TCP" /\ q.src = p.src /\ q.dst = p.dst /\ q.data # <<>>
ASSUME TrafficAssumption ==
  \A T \in Traffics : \A p \in T :
    /\ p.data \in Seq(Nat) /\ \A i \in DOMAIN p.data : p.data[i] = p.data[1] + i - 1
    /\ p.data # <<>> => p.data[1] + Len(p.data) <= (SeqSpace - 1) \div 2
    /\ \E start \in 0..(SeqSpace - 1) : \A q \in T : Sent(p, q) => q.seq = (start + q.data[1]) % SeqSpace

VARIABLES
  traffic,
  log,        \* every packet captured, in order: the packet ids
  flows,      \* FlowTracker._flows and _tcp, by flow key
  convs,      \* the conversations of the TCP flows
  datagrams,  \* the UDP streams
  timeline,   \* the events stored
  facts,      \* the facts stored for each flow at the end
  over

streamVars == <<traffic, log, flows, convs, datagrams, timeline, facts, over>>

\* flow_key: the same for both directions.
FlowKey(p) == [protocol |-> p.protocol, ends |-> {p.src, p.dst}]

\* Whoever was seen first is the client.
Role(flow, p) == IF p.src = flow.dst THEN "server" ELSE "client"

Extended(f, k, v) == [x \in DOMAIN f \cup {k} |-> IF x = k THEN v ELSE f[x]]
Got(f, k, default) == IF k \in DOMAIN f THEN f[k] ELSE default

StreamInit ==
  /\ traffic \in Traffics
  /\ log = <<>> /\ timeline = <<>> /\ over = FALSE
  /\ flows = [k \in {} |-> 0] /\ convs = [k \in {} |-> 0]
  /\ datagrams = [k \in {} |-> 0] /\ facts = [k \in {} |-> {}]

\* FlowTracker.feed.
TrackedFlow(p) ==
  LET known == Got(flows, FlowKey(p), [id |-> Cardinality(DOMAIN flows) + 1, src |-> p.src, dst |-> p.dst,
                                       packets |-> 0, state |-> "NONE", machine |-> NewMachine])
      machine == IF p.protocol = "TCP" THEN AddFlags(known.machine, Role(known, p), p.flags) ELSE known.machine IN
  [known EXCEPT !.packets = @ + 1, !.machine = machine, !.state = Coarse(machine.phase)]

NewConversation == [client |-> NewStream, server |-> NewStream, metrics |-> NewMetrics,
                    text |-> [r \in Roles |-> <<>>]]

\* Conversation.feed: the bytes that became contiguous are added to the text of that direction.
Conversed(conv, flow, p, ts) ==
  LET role == Role(flow, p)
      fed == FeedStream(conv[role], p.seq, p.data)
      new == From(fed.st.out, Len(conv[role].out)) IN
  IF p.data = <<>> THEN [conv |-> [conv EXCEPT !.metrics = OnSegment(@, p, role, ts)], issue |-> NoIssue]
  ELSE [conv |-> [conv EXCEPT !.metrics = OnSegment(@, p, role, ts), ![role] = fed.st, !.text[role] = @ \o new],
        issue |-> fed.issue]

Told(kind, flow, what) == [kind |-> kind, flow |-> flow, what |-> what]
Maybe(condition, event) == IF condition THEN <<event>> ELSE <<>>

\* EventGenerator.feed: the flow, its new state, what the payload was found to be.
Events(p, started, before, flow) ==
  Maybe(started, Told("flow", flow.id, p.protocol))
    \o Maybe(flow.state # "NONE" /\ flow.state # before, Told("state", flow.id, flow.state))
    \o Maybe(p.app # Nothing, Told("app", flow.id, p.app))

IssueEvent(id, issue) == Maybe(issue.kind # "none", Told("issue", id, issue))

PacketArrives(p) ==
  LET k == FlowKey(p)
      flow == TrackedFlow(p)
      ts == Len(log) + 1
      fed == Conversed(Got(convs, k, NewConversation), flow, p, ts)
      started == k \notin DOMAIN flows
      tcp == p.protocol = "TCP" IN
  /\ ~over /\ Len(log) < MaxArrivals /\ p \in traffic
  /\ log' = Append(log, p)
  /\ flows' = Extended(flows, k, flow)
  /\ convs' = IF tcp THEN Extended(convs, k, fed.conv) ELSE convs
  /\ datagrams' = IF tcp THEN datagrams ELSE Extended(datagrams, k, Append(Got(datagrams, k, <<>>), ts))
  /\ timeline' = timeline \o Events(p, started, IF started THEN "NONE" ELSE flows[k].state, flow)
                          \o (IF tcp THEN IssueEvent(flow.id, fed.issue) ELSE <<>>)
  /\ UNCHANGED <<traffic, facts, over>>

\* The capture is over: every conversation is flushed (its text is not told) and its metrics stored.
Flushed(k, r) == FlushStream(convs[k][r])

\* In the order of the flows, the client's direction first.
FlushEvents ==
  LET Found == {x \in (DOMAIN convs) \X Roles : Flushed(x[1], x[2]).issue # NoIssue}
      Earlier(x, y) == flows[x[1]].id < flows[y[1]].id \/ (x[1] = y[1] /\ x[2] = "client" /\ y[2] = "server")
      At(n) == CHOOSE x \in Found : Cardinality({y \in Found : Earlier(y, x)}) = n - 1 IN
  [n \in 1..Cardinality(Found) |-> Told("issue", flows[At(n)[1]].id, Flushed(At(n)[1], At(n)[2]).issue)]

EndOfCapture ==
  /\ ~over /\ over' = TRUE
  /\ convs' = [k \in DOMAIN convs |-> [convs[k] EXCEPT !.client = Flushed(k, "client").st, !.server = Flushed(k, "server").st]]
  /\ timeline' = timeline \o FlushEvents
  /\ facts' = [k \in DOMAIN flows |-> IF k \in DOMAIN convs THEN MetricFacts(convs[k].metrics)
                                      ELSE {"datagrams", "avg_size", "datagrams_per_second"}]
  /\ UNCHANGED <<traffic, log, flows, datagrams>>

StreamNext == (\E p \in traffic : PacketArrives(p)) \/ EndOfCapture

StreamSpec == StreamInit /\ [][StreamNext]_streamVars

----------------------------------------------------------------------------
\* detect_loss: each finding of a flow spans to the next one of that flow.
LossMarkers ==
  {[flow |-> timeline[i].flow, from |-> i, severity |-> timeline[i].what.kind,
    to |-> LET later == {j \in DOMAIN timeline : j > i /\ timeline[j].kind = "issue" /\ timeline[j].flow = timeline[i].flow}
           IN IF later = {} THEN i ELSE CHOOSE j \in later : \A n \in later : j <= n] :
     i \in {n \in DOMAIN timeline : timeline[n].kind = "issue"}}

StreamTypeOK ==
  /\ Len(log) <= MaxArrivals /\ over \in BOOLEAN /\ DOMAIN convs \subseteq DOMAIN flows
  /\ \A k \in DOMAIN flows : flows[k].state \in {"NONE", "SYN", "SYN/ACK", "ESTABLISHED", "FIN", "CLOSED", "RST"}
  /\ \A k \in DOMAIN convs, r \in Roles : convs[k][r].next \in 0..(SeqSpace - 1) \cup {Nothing}

\* The packets of a flow, of one of its directions, and of these the ones with data, by their place in the log.
In(k) == {i \in DOMAIN log : FlowKey(log[i]) = k}
By(k, r) == {i \in In(k) : Role(flows[k], log[i]) = r}
Carriers(k, r) == {i \in By(k, r) : log[i].data # <<>>}
First(S) == CHOOSE i \in S : \A j \in S : i <= j
Bytes(s) == {s[i] : i \in DOMAIN s}
Received(k, r) == UNION {Bytes(log[i].data) : i \in Carriers(k, r)}

\* The bytes that a gap told of this flow names: from the one expected to the one that came. What is
\* told of a gap names no direction, so that one of the other direction counts where its numbers fit.
HoleBytes(k, r) ==
  {b \in 0..SeqSpace : \E i \in DOMAIN timeline :
     /\ timeline[i].kind = "issue" /\ timeline[i].flow = flows[k].id /\ timeline[i].what.kind = "gap"
     /\ \E n \in Carriers(k, r) : LET at == (log[n].seq + b - log[n].data[1]) % SeqSpace IN
          Ahead(at, timeline[i].what.at) < timeline[i].what.size}

\* StreamFaithful: whatever is repeated, reordered, split anew or lost, each direction yields bytes that
\* were captured, in the order they were sent, each once, and at the end every byte captured was
\* yielded but those before the first that came and those inside a gap that was told; at most one
\* segment is ever held back, the text is all that was yielded before the end, and each finding
\* counted is on the timeline and marked (TcpStream.feed 142-197, flush, _drain, detect_loss).
StreamFaithful ==
  \A k \in DOMAIN convs, r \in Roles :
    LET st == convs[k][r] IN
    /\ \A i \in 1..(Len(st.out) - 1) : st.out[i] < st.out[i + 1]
    /\ Bytes(st.out) \subseteq Received(k, r)
    /\ over => \A b \in Received(k, r) \ Bytes(st.out) :
                 b < log[First(Carriers(k, r))].data[1] \/ b \in HoleBytes(k, r)
    /\ Len(st.buffer) <= 1 /\ st.segments = Cardinality(Carriers(k, r))
    /\ IF over THEN IsPrefix(convs[k].text[r], st.out) ELSE convs[k].text[r] = st.out
    /\ Cardinality({m \in LossMarkers : m.flow = flows[k].id}) =
         convs[k].client.gaps + convs[k].client.retransmissions + convs[k].client.overlaps
           + convs[k].server.gaps + convs[k].server.retransmissions + convs[k].server.overlaps

Flagged(k, r, flag) == {i \in By(k, r) : flag \in log[i].flags}
States(k) == {i \in DOMAIN timeline : timeline[i].kind = "state" /\ timeline[i].flow = flows[k].id}
Pending(k) == convs[k].metrics.outstanding

\* StateWasEarned: a flow is ESTABLISHED only with a SYN and a later ACK of it, CLOSED only with a FIN of
\* each side, RST only with the reset last but for ACKs; its state is the last one the timeline tells, and no
\* two told in a row are the same; each captured data segment is waiting for an ACK or gave one sample of
\* the round trip, to a later ACK of the other side; a handshake time is that from a SYN of the client to one of the
\* server; all its packets are counted (TcpStateMachine.add 98-138, EventGenerator.feed, on_segment 60-113).
StateEarned(k) ==
  LET state == flows[k].state
      Either(flag) == Flagged(k, "client", flag) \cup Flagged(k, "server", flag) IN
  /\ state = "ESTABLISHED" => \E i \in Either("SYN"), j \in Either("ACK") : i < j
  /\ state = "CLOSED" => \A r \in Roles : Flagged(k, r, "FIN") # {}
  /\ state = "RST" => \E i \in Either("RST") : \A j \in Either("SYN") \cup Either("FIN") : j <= i
StatesTold(k) ==
  /\ States(k) = {} => flows[k].state = "NONE"
  /\ \A i \in States(k) : (\A j \in States(k) : j <= i) => timeline[i].what = flows[k].state
  /\ \A i, j \in States(k) : i < j /\ (\A n \in States(k) : n <= i \/ j <= n) => timeline[i].what # timeline[j].what
SegmentsTimed(k) ==
  LET m == convs[k].metrics
      settled(r) == {s \in m.samples : s.sent \in Carriers(k, r)} IN
  /\ m.samples = settled("client") \cup settled("server")
  /\ \A r \in Roles :
       /\ {o.ts : o \in m.outstanding[r]} = Carriers(k, r) \ {s.sent : s \in m.samples}
       /\ \A s \in settled(r) : s.rtt > 0 /\ s.sent + s.rtt \in Flagged(k, Other(r), "ACK")
  /\ \A s, t \in m.samples : s.sent = t.sent => s = t
  /\ m.handshake # Nothing =>
       \E i \in Flagged(k, "client", "SYN"), j \in Flagged(k, "server", "SYN") : i < j /\ m.handshake = j - i
StateWasEarned ==
  \A k \in DOMAIN flows :
    /\ flows[k].packets = Cardinality(In(k)) /\ log[First(In(k))].src = flows[k].src
    /\ StateEarned(k) /\ StatesTold(k)
    /\ k \in DOMAIN convs => SegmentsTimed(k)

\* AckSettles: "True when ``ack`` acknowledges the byte at ``end_seq-1`` (RFC 1982)"
\* (tcp_metrics.py:29): once an ACK without data says that all up to its number came, no segment
\* that ends there or before is still waiting for one.
AckSettles ==
  \A k \in DOMAIN convs :
    LET p == log[Len(log)]  flow == flows[k] IN
    log # <<>> /\ FlowKey(p) = k /\ "ACK" \in p.flags /\ "SYN" \notin p.flags /\ p.data = <<>> =>
      \A o \in Pending(k)[Other(Role(flow, p))] : SeqGt(o.end, p.ack)
====
