---- MODULE CaptureAnalysis ----
(***************************************************************************)
(* What is computed from the captures of a workspace without changing      *)
(* them: the queries of a session (core/storage/database.py), statistics   *)
(* (core/stats.py), the comparison of two captures (core/compare.py), the  *)
(* rankings by shared addresses (core/search.py) and by behaviour          *)
(* (core/incidents.py), and regression checks (core/regression.py).        *)
(* Captures grow packet by packet; flows and events are those the tracker  *)
(* and the timeline store for these packets.                               *)
(***************************************************************************)
EXTENDS Integers, Sequences, FiniteSets, FiniteSetsExt, SequencesExt

CONSTANTS
  Workspace,     \* the session files, in the order of their names
  Observed,      \* packets: [src, dst, sport, dport, protocol, size, reset, tells, name]
  Ticks,         \* timestamps
  MaxObserved,   \* packets of all sessions together
  MaxSpoiled,    \* files that stop being session files
  Pages,         \* page sizes tried
  Expectations,      \* expectations tried: partial functions of ExpectationNames
  NoTell         \* a packet that gives rise to no event of its own

ASSUME AnalysisAssumption == Ticks \subseteq Nat /\ {MaxObserved, MaxSpoiled} \subseteq Nat /\ Pages \subseteq Nat \ {0}

VARIABLES
  stored,    \* the tables of each session: packets and events in the order of their ids, flows by key
  readable   \* whether open_session accepts the file

analysisVars == <<stored, readable>>
Files == ToSet(Workspace)

\* A set in the order of a strict total order.
Sorted(S, before(_, _)) ==
  [k \in 1..Cardinality(S) |-> CHOOSE x \in S : Cardinality({y \in S : before(y, x)}) = k - 1]

AnalysisInit ==
  /\ stored = [s \in Files |-> [packets |-> <<>>, flows |-> <<>>, events |-> <<>>]]
  /\ readable = [s \in Files |-> TRUE]

\* flow_key and _endpoint_key: protocol and the two ends, in either direction.
KeyOf(p) == [protocol |-> p.protocol, ends |-> {<<p.src, p.sport>>, <<p.dst, p.dport>>}]

\* The row of a flow before and after a packet: whoever was seen first is its source.
\* Of its state only "reset or not" is told apart here; StreamEngine has the phases.
FlowBefore(c, p, ts) ==
  IF KeyOf(p) \in DOMAIN c.flows THEN c.flows[KeyOf(p)]
  ELSE [source |-> p.src, destination |-> p.dst, dst_port |-> p.dport, start |-> ts, end |-> ts,
        packets |-> 0, bytes |-> 0, state |-> "NONE"]
FlowAfter(row, p, ts) ==
  [row EXCEPT !.end = ts, !.packets = @ + 1, !.bytes = @ + p.size, !.state = IF p.reset THEN "RST" ELSE @]

\* The events of a packet: the start of its flow, a reset, what its payload tells.
Event(type, ts, name) == [type |-> type, ts |-> ts, name |-> name]
EventsOfPacket(row, p, ts) ==
  (IF row.packets = 0 THEN <<Event(p.protocol, ts, NoTell)>> ELSE <<>>)
  \o (IF p.reset /\ row.state # "RST" THEN <<Event("TCP", ts, NoTell)>> ELSE <<>>)
  \o (IF p.tells = NoTell THEN <<>> ELSE <<Event(p.tells, ts, p.name)>>)

\* A capture stores a packet, its flow and its events; its clock may step back.
Observe(s, p, ts) ==
  /\ FoldLeft(LAMBDA n, f : n + Len(stored[f].packets), 0, Workspace) < MaxObserved
  /\ readable[s]
  /\ LET row == FlowBefore(stored[s], p, ts)
     IN stored' = [stored EXCEPT
          ![s].packets = Append(@, ts),
          ![s].flows = [k \in (DOMAIN @) \cup {KeyOf(p)} |-> IF k = KeyOf(p) THEN FlowAfter(row, p, ts) ELSE @[k]],
          ![s].events = @ \o EventsOfPacket(row, p, ts)]
  /\ UNCHANGED readable

\* A file stops being a session file (InvalidNrpError).
Spoil(s) ==
  /\ readable[s] /\ Cardinality({f \in Files : ~readable[f]}) < MaxSpoiled
  /\ readable' = [readable EXCEPT ![s] = FALSE]
  /\ UNCHANGED stored

AnalysisNext ==
  \/ \E s \in Files, p \in Observed, ts \in Ticks : Observe(s, p, ts)
  \/ \E s \in Files : Spoil(s)
AnalysisSpec == AnalysisInit /\ [][AnalysisNext]_analysisVars

FlowKeys(s) == DOMAIN stored[s].flows
FlowRow(s, k) == stored[s].flows[k]
EventsOf(s) == stored[s].events
EventTypes(s) == {EventsOf(s)[i].type : i \in DOMAIN EventsOf(s)}
EventCount(s, type) == Cardinality({i \in DOMAIN EventsOf(s) : EventsOf(s)[i].type = type})

----------------------------------------------------------------------------
\* packets, packets_page: rows by (ts, id), after a row already seen, or after an offset.
Earlier(s, i, j) == stored[s].packets[i] < stored[s].packets[j] \/ (stored[s].packets[i] = stored[s].packets[j] /\ i < j)
PacketsInOrder(s, S) == LET earlier(i, j) == Earlier(s, i, j) IN Sorted(S, earlier)
FirstOf(seq, n) == SubSeq(seq, 1, IF n < Len(seq) THEN n ELSE Len(seq))
\* Mutant: the next page begins behind the timestamp, not behind the row.
BehindTick(s, i) == {j \in DOMAIN stored[s].packets : stored[s].packets[i] < stored[s].packets[j]}
Behind(s, i) == {j \in DOMAIN stored[s].packets : Earlier(s, i, j)}
KeysetPage(s, seen, size) ==
  FirstOf(PacketsInOrder(s, IF seen = <<>> THEN DOMAIN stored[s].packets ELSE Behind(s, Last(seen))), size)
PacketRows(s, size) ==
  FoldLeft(LAMBDA seen, page : seen \o KeysetPage(s, seen, size), <<>>, [i \in 1..(Len(stored[s].packets) + 1) |-> i])
OffsetPage(s, limit, offset) == FirstOf(SubSeq(PacketsInOrder(s, DOMAIN stored[s].packets), offset + 1, Len(stored[s].packets)), limit)

\* bounds: a first timestamp of zero is taken for none.
Bounds(s) ==
  LET ts == {stored[s].packets[i] : i \in DOMAIN stored[s].packets}
  IN IF ts = {} \/ Min(ts) = 0 THEN <<>> ELSE <<Min(ts), Max(ts)>>
Duration(s) == IF Bounds(s) = <<>> THEN 0 ELSE Bounds(s)[2] - Bounds(s)[1]

\* compute_stats.
Stats(s) ==
  LET packets(k) == FlowRow(s, k).packets
      bytes(k) == FlowRow(s, k).bytes
      rows == Len(stored[s].packets)
  IN [packets |-> IF rows = 0 THEN MapThenSumSet(packets, FlowKeys(s)) ELSE rows,
      bytes |-> MapThenSumSet(bytes, FlowKeys(s)), flows |-> Cardinality(FlowKeys(s)),
      resets |-> Cardinality({k \in FlowKeys(s) : FlowRow(s, k).state = "RST"}), duration |-> Duration(s)]

\* compare_flows, compare_timing, compare_events, CaptureComparison.identical: the
\* numbers and the state of a flow and the events by type; no direction and no time.
FlowFigures(s, k) == LET row == FlowRow(s, k) IN <<row.packets, row.bytes, row.state>>
FlowStatus(a, b, k) ==
  CASE k \notin FlowKeys(a) -> "added"
    [] k \notin FlowKeys(b) -> "removed"
    [] OTHER -> IF FlowFigures(a, k) = FlowFigures(b, k) THEN "unchanged" ELSE "changed"
CompareFlows(a, b) == [k \in FlowKeys(a) \cup FlowKeys(b) |-> FlowStatus(a, b, k)]
FlowTime(s, k) == LET row == FlowRow(s, k) IN IF row.end < row.start THEN 0 ELSE row.end - row.start
CompareTiming(a, b) ==
  [whole |-> Duration(b) - Duration(a),
   flows |-> [k \in FlowKeys(a) \cap FlowKeys(b) |-> FlowTime(b, k) - FlowTime(a, k)]]
CompareEvents(a, b) == [t \in EventTypes(a) \cup EventTypes(b) |-> EventCount(b, t) - EventCount(a, t)]
Identical(a, b) ==
  /\ \A k \in DOMAIN CompareFlows(a, b) : CompareFlows(a, b)[k] = "unchanged"
  /\ \A t \in DOMAIN CompareEvents(a, b) : CompareEvents(a, b)[t] = 0

----------------------------------------------------------------------------
\* fingerprint, _vector (search.py): names in DNS and TLS events, addresses of flows,
\* and their services, weighted 3 : 1 : 1/2, here doubled.
Feature(kind, value) == <<kind, value>>
Named(s) == {i \in DOMAIN EventsOf(s) : EventsOf(s)[i].type \in {"DNS", "TLS"} /\ EventsOf(s)[i].name # NoTell}
Traits(s) ==
  {Feature("domain", EventsOf(s)[i].name) : i \in Named(s)}
  \cup UNION {{Feature("ip", FlowRow(s, k).source), Feature("ip", FlowRow(s, k).destination),
               Feature("port", <<k.protocol, FlowRow(s, k).dst_port>>)} : k \in FlowKeys(s)}
TraitWeight(s, f) ==
  CASE f[1] = "domain" -> 6 * Cardinality({i \in Named(s) : EventsOf(s)[i].name = f[2]})
    [] f[1] = "ip" -> 2 * (Cardinality({k \in FlowKeys(s) : FlowRow(s, k).source = f[2]})
                          + Cardinality({k \in FlowKeys(s) : FlowRow(s, k).destination = f[2]}))
    [] f[1] = "port" -> Cardinality({k \in FlowKeys(s) : <<k.protocol, FlowRow(s, k).dst_port>> = f[2]})

\* build_fingerprint (incidents.py): protocols, events and kinds of ports, weighted
\* 1 : 3/2 : 3/4, here four times that.
PortCategory(port) ==
  CASE port = 80 -> "web" [] port = 443 -> "web-alt" [] port = 8080 -> "web-alt2" [] port = 53 -> "dns"
    [] port = 25 -> "mail" [] port = 587 -> "mail-alt" [] OTHER -> IF port < 1024 THEN "well-known" ELSE "ephemeral"
Habits(s) ==
  {Feature("proto", k.protocol) : k \in FlowKeys(s)} \cup {Feature("event", t) : t \in EventTypes(s)}
  \cup {Feature("port", PortCategory(FlowRow(s, k).dst_port)) : k \in FlowKeys(s)}
HabitWeight(s, f) ==
  CASE f[1] = "proto" -> 4 * Cardinality({k \in FlowKeys(s) : k.protocol = f[2]})
    [] f[1] = "event" -> 6 * EventCount(s, f[2])
    [] f[1] = "port" -> 3 * Cardinality({k \in FlowKeys(s) : PortCategory(FlowRow(s, k).dst_port) = f[2]})

\* _cosine, as its parts: the product and the two squared norms.  Scores against one
\* target are compared by dot^2 over the norm of the other.
Cosine(F(_), weight(_, _), a, b) ==
  LET both(f) == weight(a, f) * weight(b, f)
      mine(f) == weight(a, f) * weight(a, f)
      yours(f) == weight(b, f) * weight(b, f)
  IN IF F(a) = {} \/ F(b) = {} THEN [dot |-> 0, mine |-> 1, yours |-> 1]
     ELSE [dot |-> MapThenSumSet(both, F(a) \cap F(b)), mine |-> MapThenSumSet(mine, F(a)), yours |-> MapThenSumSet(yours, F(b))]
Similarity(a, b) == Cosine(Traits, TraitWeight, a, b)
Resemblance(a, b) == Cosine(Habits, HabitWeight, a, b)
Above(x, y) == x.dot * x.dot * y.yours > y.dot * y.dot * x.yours

\* The sorts by score are stable over the order of the files.
Scored(s, score) == [file |-> s, score |-> score]
Ranked(candidates, top) ==
  LET place(x) == CHOOSE i \in DOMAIN Workspace : Workspace[i] = x.file
      before(x, y) == Above(x.score, y.score) \/ (~Above(y.score, x.score) /\ place(x) < place(y))
  IN FirstOf(Sorted(candidates, before), top)

\* similar_sessions, find_similar_incidents: a target that cannot be read raises, which
\* gives no ranking; other files that cannot be read are passed over, and so is the
\* target; only the first leaves out what shares nothing.
Others(target) == {s \in Files \ {target} : readable[s]}
SimilarSessions(target, top) ==
  LET scored == {Scored(s, Similarity(target, s)) : s \in Others(target)}
  IN IF ~readable[target] \/ Traits(target) = {} THEN <<>> ELSE Ranked({x \in scored : x.score.dot > 0}, top)
SimilarIncidents(target, top) ==
  IF ~readable[target] THEN <<>>
  ELSE Ranked({Scored(s, Resemblance(target, s)) : s \in Others(target)}, top)
FilesOf(ranking) == {ranking[i].file : i \in DOMAIN ranking}

\* IncidentProbe.from_session, matches.
ProbeMatches(from, s) ==
  /\ EventTypes(from) = {} \/ EventTypes(from) \cap EventTypes(s) # {}
  /\ FlowKeys(from) = {} \/ {k.protocol : k \in FlowKeys(from)} \cap {k.protocol : k \in FlowKeys(s)} # {}

----------------------------------------------------------------------------
\* check_expectations, run_case: a limit that is not given is not checked; a file that
\* cannot be read has failed.
ExpectationNames == {"min_packets", "max_packets", "min_flows", "max_flows", "max_resets", "min_duration", "max_duration", "event"}
Checked(s, e) ==
  LET figures == Stats(s)
      holds(name) ==
        CASE name = "min_packets" -> figures.packets >= e[name]
          [] name = "max_packets" -> figures.packets <= e[name]
          [] name = "min_flows" -> figures.flows >= e[name]
          [] name = "max_flows" -> figures.flows <= e[name]
          [] name = "max_resets" -> figures.resets <= e[name]
          [] name = "min_duration" -> figures.duration >= e[name]
          [] name = "max_duration" -> figures.duration <= e[name]
          [] name = "event" -> e[name] \in EventTypes(s)
  IN \A name \in DOMAIN e : holds(name)
RunCase(s, e) == readable[s] /\ Checked(s, e)

----------------------------------------------------------------------------
AnalysisTypeOK ==
  /\ \A s \in Files : stored[s].packets \in Seq(Ticks) /\ FlowKeys(s) \subseteq {KeyOf(p) : p \in Observed}
  /\ readable \in [Files -> BOOLEAN]
  /\ \A e \in Expectations : DOMAIN e \subseteq ExpectationNames

\* Comparing swaps with its arguments, and captures it calls identical pass and fail the
\* same regression cases, except for their duration, which it does not look at
\* (compare_captures against run_case, computed by different queries).
Mirror == [added |-> "removed", removed |-> "added", changed |-> "changed", unchanged |-> "unchanged"]
ComparisonLaws ==
  \A a, b \in Files :
    /\ Identical(a, a)
    /\ \A k \in DOMAIN CompareFlows(a, b) : CompareFlows(b, a)[k] = Mirror[CompareFlows(a, b)[k]]
    /\ CompareEvents(b, a) = [t \in DOMAIN CompareEvents(a, b) |-> -CompareEvents(a, b)[t]]
    /\ CompareTiming(a, b).whole = -CompareTiming(b, a).whole
    /\ (Identical(a, b) /\ readable[a] = readable[b])
         => \A e \in Expectations :
              {"min_duration", "max_duration"} \cap DOMAIN e = {} => RunCase(a, e) = RunCase(b, e)

\* Reading a capture by keyset pages or by offset pages, of any size, gives every packet
\* once in the order of time and arrival (SessionStorage.packets, packets_page).
PagesAreTheCapture ==
  \A s \in Files, n \in Pages :
    /\ PacketRows(s, n) = PacketsInOrder(s, DOMAIN stored[s].packets)
    /\ FlattenSeq([i \in 1..(Len(stored[s].packets) + 1) |-> OffsetPage(s, n, (i - 1) * n)]) = PacketsInOrder(s, DOMAIN stored[s].packets)

\* A score is a cosine: symmetric, at most one, and above zero exactly when a feature is
\* shared; the ranking of a target that can be read never rises and leaves out no better
\* file for a worse one; a probe made from a capture matches it (similar_sessions,
\* find_similar_incidents).
RankingLaws ==
  \A a \in Files :
    /\ ProbeMatches(a, a)
    /\ \A b \in Files :
         LET similarity == Similarity(a, b)  resemblance == Resemblance(a, b)
         IN /\ similarity.dot = Similarity(b, a).dot /\ resemblance.dot = Resemblance(b, a).dot
            /\ \A x \in {similarity, resemblance} : x.dot * x.dot <= x.mine * x.yours
            /\ similarity.dot > 0 <=> Traits(a) \cap Traits(b) # {}
    /\ \A top \in Pages : readable[a] =>
         LET similar == SimilarSessions(a, top)
             alike == SimilarIncidents(a, top)
         IN /\ \A i, j \in DOMAIN similar : i < j => ~Above(similar[j].score, similar[i].score)
            /\ \A s \in Others(a) \ FilesOf(similar) : Len(similar) = top \/ Similarity(a, s).dot = 0
            /\ \A s \in Others(a) \ FilesOf(alike) :
                 LET score == Resemblance(a, s) IN \A i \in DOMAIN alike : ~Above(score, alike[i].score)
====
