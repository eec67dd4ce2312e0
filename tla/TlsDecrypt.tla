---- MODULE TlsDecrypt ----
(***************************************************************************)
(* Decryption of a captured TLS connection with a key log                  *)
(* (core/protocols/decrypt.py, decrypt_service.py).  The two peers run a   *)
(* handshake and write; the capture keeps, misses, repeats or alters what  *)
(* passes; then decrypt_flow works on what was kept.  Cryptography is      *)
(* symbolic: a record opens under the key and the number it was sealed     *)
(* with, and a Finished message covers the messages its sender had seen.   *)
(* One record is one packet.                                              *)
(***************************************************************************)
EXTENDS Naturals, Sequences, FiniteSets, SequencesExt

CONSTANTS
  Handshakes,   \* the shapes of handshakes tried, of DOMAIN Script
  KeyLogs,      \* the key logs tried: sets of secrets, a secret being <<direction, epoch>>
  Contents,     \* what a peer writes: of {"text", "zeros", "padded", "framed", "empty", "alert"}
  MaxWrites,    \* writes of a connection
  MaxFaults     \* packets missed, repeated or altered

ASSUME DecryptAssumption == MaxWrites \in Nat /\ MaxFaults \in Nat

VARIABLES
  shape,      \* the handshake being run
  keylog,     \* the secrets load_keylog found for this client random
  passed,     \* what was sent, in order: [dir, rec, fate]
  closed,     \* how the capture ended: "no" while it runs, "whole", or "cut" inside a record
  found       \* what decrypt_flow found: data of each direction, and Finished reports

decryptVars == <<shape, keylog, passed, closed, found>>

Peers == {"client", "server"}
Plain == <<"nobody", "none">>

\* What each handshake sends, in order: who, which message, under which epoch.
Says(d, m, e) == [dir |-> d, msg |-> m, epoch |-> e]
Script ==
  [full12 |-> << Says("client", "hello", "none"), Says("server", "hello", "none"), Says("server", "certificate", "none"),
                 Says("client", "exchange", "none"), Says("client", "ccs", "none"), Says("client", "finished", "master"),
                 Says("server", "ticket", "none"), Says("server", "ccs", "none"), Says("server", "finished", "master") >>,
   resumed12 |-> << Says("client", "hello", "none"), Says("server", "hello", "none"), Says("server", "ccs", "none"),
                    Says("server", "finished", "master"), Says("client", "ccs", "none"), Says("client", "finished", "master") >>,
   full13 |-> << Says("client", "hello", "none"), Says("server", "hello", "none"), Says("server", "certificate", "hs"),
                 Says("server", "finished", "hs"), Says("client", "ccs", "none"), Says("client", "finished", "hs") >>,
   client13 |-> << Says("client", "hello", "none"), Says("server", "hello", "none"), Says("server", "finished", "hs"),
                   Says("client", "certificate", "hs"), Says("client", "finished", "hs") >>]

Is13 == shape \in {"full13", "client13"}

\* The fields of the messages that the code reads: who sent it, which it is, whether
\* the capture altered it ("keys": a hello in what the keys follow from), and what a Finished covers.
Name(m) == <<m.from, m.type, m.altered>>
Message(step, before) ==
  [from |-> step.dir, type |-> step.msg, altered |-> "no",
   covers |-> IF step.msg = "finished" THEN before ELSE <<>>]

Sealed(kind, key, seq, inner, pad, msgs, data) ==
  [kind |-> kind, key |-> key, seq |-> seq, inner |-> inner, pad |-> pad, msgs |-> msgs, data |-> data]

Under(key) == Cardinality({i \in DOMAIN passed : passed[i].rec.key = key})

\* The messages the peers exchanged so far.
Exchanged == FlattenSeq([i \in DOMAIN passed |-> [j \in DOMAIN passed[i].rec.msgs |-> Name(passed[i].rec.msgs[j])]])

HandshakeRecord(step) ==
  LET key == IF step.epoch = "none" THEN Plain ELSE <<step.dir, step.epoch>>
  IN IF step.msg = "ccs" THEN Sealed("ccs", Plain, 0, "ccs", 0, <<>>, <<>>)
     ELSE Sealed(IF step.epoch = "hs" THEN "data" ELSE "handshake", key, IF key = Plain THEN 0 ELSE Under(key),
                 "handshake", 0, <<Message(step, Exchanged)>>, <<>>)

\* A write is numbered, so that no two are alike; `zeros' ends in a zero byte, and
\* `padded' is a TLS 1.3 record with padding behind the type, `framed' data of TLS 1.2 that begins
\* like a handshake message, its type and its length, as a frame of HTTP/2 does.
Numbered(what, n) == CASE what = "zeros" -> <<n, 0>> [] what \in {"empty", "alert"} -> <<>> [] OTHER -> <<n>>
WrittenRecord(d, what) ==
  LET inner == IF what = "alert" THEN "alert" ELSE "data"
      key == <<d, IF Is13 THEN "app" ELSE "master">>
      reads == IF what = "framed" THEN <<Message(Says(d, "frame", "master"), <<>>)>> ELSE <<>>
  IN Sealed(IF Is13 THEN "data" ELSE inner, key, Under(key), inner, IF what = "padded" THEN 1 ELSE 0, reads,
            Numbered(what, Len(passed)))

Faults == Cardinality({i \in DOMAIN passed : passed[i].fate # "kept"})
Writes == Len(passed) - Len(Script[shape])

NothingFound == [data |-> [d \in Peers |-> <<>>], reports |-> <<>>]

DecryptInit ==
  /\ shape \in Handshakes /\ keylog \in KeyLogs
  /\ passed = <<>> /\ closed = "no" /\ found = NothingFound

Pass(d, rec, fate) ==
  /\ closed = "no"
  /\ fate = "kept" \/ Faults < MaxFaults
  /\ passed' = Append(passed, [dir |-> d, rec |-> rec, fate |-> fate])
  /\ UNCHANGED <<shape, keylog, closed, found>>

\* The next record of the handshake.  Only what is sent in clear can be altered, a message keeping its
\* type and its length; of a hello also what the keys follow from.
Shake(fate) ==
  /\ Writes < 0
  /\ LET step == Script[shape][Len(passed) + 1]
     IN /\ fate = "altered" => step.epoch = "none" /\ step.msg # "ccs"
        /\ fate = "rekeyed" => step.msg = "hello"
        /\ Pass(step.dir, HandshakeRecord(step), fate)

\* After the handshake the peers write in any order.
Write(d, what, fate) ==
  /\ Writes \in 0..(MaxWrites - 1)
  /\ (what = "padded" => Is13) /\ (what = "framed" => ~Is13)
  /\ Pass(d, WrittenRecord(d, what), fate)

\* What the capture holds of one direction, in the order of (ts, id).
Altered(rec, where) == [rec EXCEPT !.msgs = [i \in DOMAIN rec.msgs |-> [rec.msgs[i] EXCEPT !.altered = where]]]
Copies(p) ==
  CASE p.fate = "kept" -> <<p.rec>>
    [] p.fate = "twice" -> <<p.rec, p.rec>>
    [] p.fate = "altered" -> <<Altered(p.rec, "body")>>
    [] p.fate = "rekeyed" -> <<Altered(p.rec, "keys")>>
    [] p.fate = "lost" -> <<>>
CapturedOf(d) ==
  LET from(p) == p.dir = d
      mine == SelectSeq(passed, from)
  IN FlattenSeq([i \in DOMAIN mine |-> Copies(mine[i])])

\* Keylog: a record opens under a secret that is there, sealed with it, at this number.
Opens(rec, key, seq) == key \in keylog /\ rec.key = key /\ rec.seq = seq

\* The hello in clear: the key log is looked up by the random of the client's, the suite and the
\* server's random are of the server's. With another random or suite no key is found, or one that
\* opens nothing.
HelloTells(d) ==
  \E i \in DOMAIN CapturedOf(d) : \E m \in ToSet(CapturedOf(d)[i].msgs) : m.type = "hello" /\ m.altered # "keys"

\* rstrip, and the last byte of a TLS 1.3 plaintext: the type, or the padding behind it.
StripZeros(s) ==
  LET ends == {i \in DOMAIN s : s[i] # 0}
  IN SubSeq(s, 1, IF ends = {} THEN 0 ELSE CHOOSE i \in ends : \A j \in ends : j <= i)
LastByte(rec) == IF rec.pad > 0 THEN "zero" ELSE rec.inner

\* Mutant: only records of data are numbered.
Step12CountsData(d, st, rec) ==
  LET plain == st.ready /\ rec.kind = "data" /\ Opens(rec, <<d, "master">>, st.seq) /\ rec.data # <<>>
  IN [ready |-> st.ready \/ rec.kind = "ccs",
      seq |-> IF st.ready /\ rec.kind = "data" THEN st.seq + 1 ELSE st.seq,
      out |-> IF plain THEN Append(st.out, rec.data) ELSE st.out]
\* _handshake_processor: numbers count from the first record behind ChangeCipherSpec.
Step12(d, st, rec) ==
  LET plain == st.ready /\ rec.kind = "data" /\ Opens(rec, <<d, "master">>, st.seq) /\ rec.data # <<>>
  IN [ready |-> st.ready \/ rec.kind = "ccs",
      seq |-> IF st.ready THEN st.seq + 1 ELSE st.seq,
      out |-> IF plain THEN Append(st.out, rec.data) ELSE st.out]
AppData12(d) ==
  LET step(st, rec) == Step12(d, st, rec)
  IN FoldLeft(step, [ready |-> FALSE, seq |-> 0, out |-> <<>>], CapturedOf(d)).out

\* _tls13_process_direction: the handshake key first; what does not open under it, or is
\* no handshake message, ends that epoch.  Without the handshake secret it never ends.
Taken(st, rec) == IF LastByte(rec) = "data" THEN Append(st.out, StripZeros(rec.data)) ELSE st.out
AppStep13(d, st, rec) ==
  IF Opens(rec, <<d, "app">>, st.app) THEN [st EXCEPT !.epoch = "app", !.app = @ + 1, !.out = Taken(st, rec)]
  ELSE [st EXCEPT !.epoch = "app"]
Step13(d, st, rec) ==
  CASE rec.kind # "data" -> st
    [] rec.kind = "data" /\ st.epoch = "hs" /\ <<d, "hs">> \notin keylog -> st
    [] rec.kind = "data" /\ st.epoch = "hs" /\ Opens(rec, <<d, "hs">>, st.hs) ->
         [st EXCEPT !.hs = @ + 1, !.out = Taken(st, rec), !.epoch = IF LastByte(rec) = "handshake" THEN "hs" ELSE "app"]
    [] OTHER -> AppStep13(d, st, rec)
AppData13(d) ==
  LET step(st, rec) == Step13(d, st, rec)
  IN FoldLeft(step, [epoch |-> "hs", hs |-> 0, app |-> 0, out |-> <<>>], CapturedOf(d)).out

\* decrypt_stream_pair, of one direction.
DecryptedData(d) ==
  IF ~HelloTells("client") \/ ~HelloTells("server") \/ keylog = {} THEN <<>>
  ELSE IF Is13 THEN AppData13(d) ELSE AppData12(d)

\* _tls12_handshake_messages: in clear before ChangeCipherSpec, decrypted behind it, records of data
\* among them; a further ChangeCipherSpec is not numbered here.
HandshakeStep12(d, st, rec) ==
  CASE rec.kind = "ccs" -> [st EXCEPT !.ready = TRUE]
    [] rec.kind # "ccs" /\ st.ready ->
         [st EXCEPT !.seq = @ + 1,
                    !.out = IF rec.kind \in {"handshake", "data"} /\ Opens(rec, <<d, "master">>, st.seq) THEN @ \o rec.msgs ELSE @]
    [] OTHER -> [st EXCEPT !.out = IF rec.kind = "handshake" THEN @ \o rec.msgs ELSE @]
Messages12(d) ==
  LET step(st, rec) == HandshakeStep12(d, st, rec)
  IN FoldLeft(step, [ready |-> FALSE, seq |-> 0, out |-> <<>>], CapturedOf(d)).out

\* _tls13_handshake_messages: the handshake epoch is read until a record does not open
\* or is no handshake; what was gathered counts.
HandshakeStep13(d, st, rec) ==
  CASE st.over -> st
    [] ~st.over /\ ~st.sealed /\ rec.kind = "handshake" -> [st EXCEPT !.out = @ \o rec.msgs]
    [] ~st.over /\ ~st.sealed /\ rec.kind \in {"ccs", "alert"} -> st
    [] OTHER -> IF Opens(rec, <<d, "hs">>, st.seq) /\ LastByte(rec) = "handshake"
                THEN [st EXCEPT !.sealed = TRUE, !.seq = @ + 1, !.out = @ \o rec.msgs]
                ELSE [st EXCEPT !.over = TRUE]
Messages13(d) ==
  LET step(st, rec) == HandshakeStep13(d, st, rec)
  IN FoldLeft(step, [over |-> FALSE, sealed |-> FALSE, seq |-> 0, out |-> <<>>], CapturedOf(d)).out

\* _classify_finished, _ordered_finished: the two directions are put in the order of a
\* full handshake without client authentication in TLS 1.3.
Rank(m) ==
  CASE m.type = "hello" /\ m.from = "client" -> 0
    [] m.type = "ticket" /\ ~Is13 -> 4
    [] m.type = "finished" -> IF Is13 THEN (IF m.from = "server" THEN 3 ELSE 4) ELSE (IF m.from = "client" THEN 3 ELSE 5)
    [] OTHER -> IF m.from = "server" THEN 1 ELSE 2
Transcript ==
  LET all == IF Is13 THEN Messages13("client") \o Messages13("server") ELSE Messages12("client") \o Messages12("server")
      of(r) == LET here(m) == Rank(m) = r IN SelectSeq(all, here)
  IN FlattenSeq([k \in 1..6 |-> of(k - 1)])

\* _finish_tls12, _finish_tls13: every Finished is compared with the hash of all before it.
Report(t, i) ==
  [from |-> t[i].from, verified |-> t[i].altered = "no" /\ t[i].covers = [j \in 1..(i - 1) |-> Name(t[j])]]
Reports ==
  LET t == Transcript
      finished(i) == t[i].type = "finished"
      at == SelectSeq([i \in DOMAIN t |-> i], finished)
  IN [k \in DOMAIN at |-> Report(t, at[k])]

\* verify_finished needs both hellos, and the master secret or both handshake secrets.
SecretsToVerify == IF Is13 THEN {<<d, "hs">> : d \in Peers} ELSE {<<d, "master">> : d \in Peers}
VerifiedFinished ==
  IF HelloTells("client") /\ HelloTells("server") /\ SecretsToVerify \subseteq keylog THEN Reports ELSE <<>>

\* decrypt_flow, decrypt_session: a record cut short in either direction raises, and
\* the flow yields nothing; else an event for every record and every report.
CaptureEnds(cut) ==
  /\ closed = "no" /\ closed' = IF cut THEN "cut" ELSE "whole"
  /\ found' = IF cut THEN NothingFound
              ELSE [data |-> [d \in Peers |-> DecryptedData(d)], reports |-> VerifiedFinished]
  /\ UNCHANGED <<shape, keylog, passed>>

DecryptNext ==
  \/ \E fate \in {"kept", "lost", "twice", "altered", "rekeyed"} : Shake(fate)
  \/ \E d \in Peers, what \in Contents, fate \in {"kept", "lost", "twice"} : Write(d, what, fate)
  \/ \E cut \in BOOLEAN : CaptureEnds(cut)

DecryptSpec == DecryptInit /\ [][DecryptNext]_decryptVars

----------------------------------------------------------------------------
DecryptTypeOK ==
  /\ shape \in DOMAIN Script /\ closed \in {"no", "whole", "cut"}
  /\ Len(passed) <= Len(Script[shape]) + MaxWrites /\ Faults <= MaxFaults
  /\ DOMAIN found.data = Peers
  /\ \A i \in DOMAIN found.reports : found.reports[i].verified \in BOOLEAN

\* The numbers of the writes of one direction, and what decryption can make of one:
\* a TLS 1.3 record loses its trailing zeros, a padded one is not taken for data.
WritesOf(d) == {i \in DOMAIN passed : i > Len(Script[shape]) /\ passed[i].dir = d}
Visible(i) ==
  LET rec == passed[i].rec
  IN rec.inner = "data" /\ (IF Is13 THEN rec.pad = 0 ELSE rec.data # <<>>)
Made(i) == IF Is13 THEN StripZeros(passed[i].rec.data) ELSE passed[i].rec.data
InOrder(S) ==
  LET in(i) == i \in S
      at == SelectSeq([i \in DOMAIN passed |-> i], in)
  IN [k \in DOMAIN at |-> Made(at[k])]
\* What went wrong before write i in a way that moves the numbering: in TLS 1.2 any
\* record from ChangeCipherSpec on, in TLS 1.3 a lost record of the application epoch.
SealedFrom(d) ==
  IF Is13 THEN Len(Script[shape]) + 1
  ELSE CHOOSE i \in DOMAIN Script[shape] : Script[shape][i].dir = d /\ Script[shape][i].msg = "ccs"
Breaks(d) ==
  {i \in DOMAIN passed : i >= SealedFrom(d) /\ passed[i].dir = d
                         /\ passed[i].fate \in (IF Is13 THEN {"lost"} ELSE {"lost", "twice"})}
\* The writes up to the first break: the broken record itself is there when it was doubled.
Reached(d) == {i \in WritesOf(d) : Visible(i) /\ \A b \in Breaks(d) : i < b \/ (i = b /\ passed[i].fate = "twice")}
HasKeys(d) == IF Is13 THEN {<<d, "hs">>, <<d, "app">>} \subseteq keylog ELSE <<d, "master">> \in keylog

\* Decrypted data is what that peer wrote: nothing twice, nothing out of order, nothing
\* of another record (some set of the writes, in order); and with the keys and both hellos that tell them a
\* fault costs only what comes behind it, so all before the first break is there
\* (_handshake_processor, _tls13_process_direction number the records themselves).
DataAsWritten ==
  closed # "no" => \A d \in Peers :
    /\ \E S \in SUBSET WritesOf(d) : found.data[d] = InOrder(S)
    /\ (HasKeys(d) /\ HelloTells("client") /\ HelloTells("server") /\ closed = "whole")
         => IsPrefix(InOrder(Reached(d)), found.data[d])

\* A Finished that verifies covers only messages captured as they were sent; and of a full handshake
\* captured whole, its keys known, both verify ("genuinely forged/transcript-mutated messages are
\* reported as MISMATCH", decrypt.py:726-727), unless data of TLS 1.2 read as a message: 658-663
\* takes it for one of the handshake, and both are told to mismatch.
HandshakeKept == \A i \in 1..Len(Script[shape]) : i \in DOMAIN passed /\ passed[i].fate = "kept"
AsSent(r) ==
  LET mine == CHOOSE i \in DOMAIN Script[shape] : Script[shape][i].msg = "finished" /\ Script[shape][i].dir = r.from
  IN \A i \in 1..mine : Script[shape][i].msg # "ccs" => passed[i].fate \in {"kept", "twice"}
ReadAsMessage == \E i \in DOMAIN passed : i > Len(Script[shape]) /\ passed[i].rec.msgs # <<>> /\ passed[i].fate # "lost"
FinishedTruthful ==
  closed # "no" =>
    /\ \A k \in DOMAIN found.reports : found.reports[k].verified => AsSent(found.reports[k])
    /\ (/\ closed = "whole" /\ SecretsToVerify \subseteq keylog
        /\ shape \in {"full12", "full13"} /\ HandshakeKept /\ ~ReadAsMessage)
         => Len(found.reports) = 2 /\ \A k \in DOMAIN found.reports : found.reports[k].verified

\* Both, as one statement about what decryption reports.
DecryptionTruthful == DataAsWritten /\ FinishedTruthful
====
