---------------------------- MODULE MC_Analysis ----------------------------
(***************************************************************************)
(* Instances for TLC of what is kept in a session file and of what is      *)
(* computed from it: the file itself, the case rows in it, the stream      *)
(* engine, the stream parsers, decryption, display filters and the         *)
(* analyses of a workspace.  A behaviour is about one of them, `part'; the *)
(* others stay as they are.                                                *)
(***************************************************************************)
EXTENDS MC_SessionFile, MC_StreamEngine, CaseFile, StreamParsers, TlsDecrypt, DisplayFilter, CaptureAnalysis

VARIABLE part

----------------------------------------------------------------------------
(* A replay of all of a capture, and one of a packet, a flow and a window.  *)
ReplayOf(i, f, a, b) == [ids |-> i, flows |-> f, start |-> a, end |-> b]
MCSelections == {ReplayOf({}, {}, None, None), ReplayOf({1}, {2}, 1, 2)}
MCRows == [id : {1, 2}, ts : 0..3, flow : {1, 2}, protocol : {"tcp"}]
            \cup {[id |-> 1, ts |-> 1, flow |-> None, protocol |-> "arp"]}

(* What a peer writes in each protocol, the units no parser gets past       *)
(* among them, and chunked messages with an end mark inside or behind them. *)
Unit(kind, size) == [kind |-> kind, size |-> size, marks |-> {}]
Marked(kind, size, marks) == [kind |-> kind, size |-> size, marks |-> marks]
MCWritten ==
  [protocol : {"tls"}, units : {<<Unit("handshake", 2), Unit("handshake", 0), Unit("data", 3)>>,
                                <<Unit("data", 1), Unit("other", 1)>>}]
  \cup [protocol : {"http2"},
        units : {<<Unit("preface", 0), Unit("headers", 2), Unit("data", 0), Unit("data", 3)>>,
                 <<Unit("preface", 0), Unit("data", 4), Unit("data", 1)>>}]
  \cup [protocol : {"http1"},
        units : {<<Unit("length", 1), Unit("length", 0), Unit("chunked", 2), Unit("length", 1)>>,
                 <<Unit("chunked", 1), Unit("chunked", 1)>>, <<Unit("bare", 0), Unit("length", 2)>>,
                 <<Unit("bare", 1), Unit("length", 1)>>,
                 <<Marked("length", 0, {2}), Unit("chunked", 0), Marked("length", 0, {2})>>,
                 <<Marked("chunked", 2, {3}), Marked("length", 1, {3})>>,
                 <<Unit("length", 5), Unit("length", 0)>>}]

(* Key logs with all secrets, without those of the handshake, with only     *)
(* them, and with one of them missing.                                      *)
Secrets == Peers \X {"hs", "app", "master"}
MCKeyLogs == {Secrets, Peers \X {"app", "master"}, Peers \X {"hs"}, Secrets \ {<<"server", "hs">>}}

MCChunks == {<<"tcp">>, <<"ip", "!=", "h1">>, <<"port", "<", "80">>, <<"and">>, <<"or">>, <<"not">>,
             <<"(">>, <<")">>, <<"src">>}
FilterRow(p, s, d, sp, dp) ==
  [protocol |-> p, source |-> s, destination |-> d, src_port |-> sp, dst_port |-> dp, length |-> "80",
   event_type |-> Absent, flow_id |-> Absent, summary |-> Absent]
MCFilterRows == {FilterRow("tcp", "h1", "h2", "443", "080"), FilterRow("udp", "h1", "h1", "53", "80")}
MCNumbers == [n \in {"443", "080", "80", "53"} |-> CASE n = "443" -> 443 [] n = "53" -> 53 [] OTHER -> 80]

(* A request, a reset in the other direction, a query for a name.           *)
Seen(s, d, sp, dp, protocol, size, reset, tells, name) ==
  [src |-> s, dst |-> d, sport |-> sp, dport |-> dp, protocol |-> protocol, size |-> size,
   reset |-> reset, tells |-> tells, name |-> name]
MCObserved == {Seen("h1", "h2", 5000, 80, "TCP", 60, FALSE, NoTell, NoTell),
               Seen("h2", "h1", 80, 5000, "TCP", 60, TRUE, NoTell, NoTell),
               Seen("h1", "h3", 6000, 53, "DNS", 40, FALSE, "DNS", "name")}
MCWorkspace == <<"a", "b", "c">>
MCExpectations == {[max_resets |-> 0], [min_packets |-> 2, max_flows |-> 1], [event |-> "DNS"],
                   [min_duration |-> 1, min_packets |-> 1], [max_duration |-> 0, max_packets |-> 3, min_flows |-> 1]}

----------------------------------------------------------------------------
(* The processes that open a file are alike, and so are the API threads;    *)
(* nothing in this run is about what must happen in the end.                *)
Alike == Permutations(Openers) \cup Permutations(Workers)

vars == <<part, fileVars, caseVars, streamVars, parserVars, decryptVars, filterVars, analysisVars>>

Parts == {"file", "case", "stream", "parser", "decrypt", "filter", "analysis"}

Init ==
  /\ part \in Parts
  /\ FileInit /\ (part # "file" => ~db.exists)
  /\ CaseInit
  /\ StreamInit /\ (part # "stream" => traffic = CHOOSE t \in Traffics : TRUE)
  /\ ParserInit /\ (part # "parser" => writer = CHOOSE w \in Written : TRUE)
  /\ DecryptInit /\ (part # "decrypt" => shape = "full13" /\ keylog = Secrets)
  /\ FilterInit /\ AnalysisInit

Next ==
  \/ /\ part = "file" /\ FileNext
     /\ UNCHANGED <<part, caseVars, streamVars, parserVars, decryptVars, filterVars, analysisVars>>
  \/ /\ part = "case" /\ CaseNext
     /\ UNCHANGED <<part, fileVars, streamVars, parserVars, decryptVars, filterVars, analysisVars>>
  \/ /\ part = "stream" /\ StreamNext
     /\ UNCHANGED <<part, fileVars, caseVars, parserVars, decryptVars, filterVars, analysisVars>>
  \/ /\ part = "parser" /\ ParserNext
     /\ UNCHANGED <<part, fileVars, caseVars, streamVars, decryptVars, filterVars, analysisVars>>
  \/ /\ part = "decrypt" /\ DecryptNext
     /\ UNCHANGED <<part, fileVars, caseVars, streamVars, parserVars, filterVars, analysisVars>>
  \/ /\ part = "filter" /\ FilterNext
     /\ UNCHANGED <<part, fileVars, caseVars, streamVars, parserVars, decryptVars, analysisVars>>
  \/ /\ part = "analysis" /\ AnalysisNext
     /\ UNCHANGED <<part, fileVars, caseVars, streamVars, parserVars, decryptVars, filterVars>>

Spec == Init /\ [][Next]_vars

----------------------------------------------------------------------------
(* Every variable of the part that runs has its type.                       *)
AnalysisTypes ==
  /\ part = "file" => FileTypeOK
  /\ part = "case" => CaseTypeOK
  /\ part = "stream" => StreamTypeOK
  /\ part = "parser" => ParserTypeOK
  /\ part = "decrypt" => DecryptTypeOK
  /\ part = "filter" => FilterTypeOK
  /\ part = "analysis" => AnalysisTypeOK

(* What different functions compute of the same captures agrees: comparison *)
(* with regression checks, pages with the whole, rankings with scores, and  *)
(* a display filter with what it says (compare.py, regression.py,           *)
(* database.py 1171-1222, search.py, incidents.py, display_filter.py).      *)
AnalysisAgrees ==
  /\ part = "filter" => FilterMeansWhatItSays
  /\ part = "analysis" => ComparisonLaws /\ PagesAreTheCapture /\ RankingLaws
============================================================================
