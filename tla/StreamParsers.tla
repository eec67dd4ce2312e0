---- MODULE StreamParsers ----
(***************************************************************************)
(* The incremental parsers of a reassembled direction                      *)
(* (core/protocols/streams.py): TLS records, HTTP/2 frames after the       *)
(* preface, HTTP/1.x messages by length or in chunks.  The stream is what  *)
(* the peer wrote, cut anywhere.  A byte is a record: the first byte of a  *)
(* unit carries what its header says, a byte tells whether the bytes up to *)
(* it read as the mark that ends the chunks, and a header, the preface and *)
(* that mark are HeadLen bytes long.  One iteration of a parser's loop is  *)
(* one step.                                                               *)
(***************************************************************************)
EXTENDS Naturals, Sequences, FiniteSets, SequencesExt

CONSTANTS
  Written,    \* what peers write: [protocol, units], a unit being [kind, size, marks], where
              \* marks are the places in it, its own end aside, that read as an end mark
  HeadLen,    \* bytes of a header, of the preface, and of the mark that ends the chunks
  MaxUnit,    \* _MAX_RECORD of HTTP/2: a longer frame is not taken
  MaxMessage  \* _MAX_MESSAGE of HTTP/1.x: a longer buffer loses its front after a feed

TlsKinds == {"handshake", "alert", "data"}
HttpKinds == {"length", "chunked", "bare"}
H2Kinds == {"preface", "headers", "data"}

UnitsOf(kinds) == [kind : kinds, size : Nat, marks : SUBSET Nat]

\* What is written over each protocol; a client of HTTP/2 begins with the preface.
ASSUME ParserAssumption ==
  /\ HeadLen \in Nat \ {0, 1} /\ MaxUnit \in Nat /\ MaxMessage \in Nat
  /\ \A w \in Written :
       \/ w.protocol = "tls" /\ w.units \in Seq(UnitsOf(TlsKinds \cup {"other"}))
       \/ w.protocol = "http1" /\ w.units \in Seq(UnitsOf(HttpKinds))
       \/ /\ w.protocol = "http2" /\ w.units \in Seq(UnitsOf(H2Kinds))
          /\ w.units # <<>> /\ w.units[1].kind = "preface" /\ w.units[1].size = 0

VARIABLES
  writer,   \* the protocol and the units being written
  fed,      \* how many bytes have been fed
  cuts,     \* where the stream was cut
  pbuf,     \* _buf
  parsed,   \* what the parser returned, in order
  ready,    \* preface_ok
  parsing   \* in the loop of a feed

parserVars == <<writer, fed, cuts, pbuf, parsed, ready, parsing>>

\* The chunks of a message end with a mark of their own.
UnitLen(u) == HeadLen + u.size + (IF u.kind = "chunked" THEN HeadLen ELSE 0)
Encoded(u) ==
  [i \in 1..UnitLen(u) |->
     [mark |-> IF i = 1 THEN u.kind ELSE "rest", size |-> IF i = 1 THEN u.size ELSE 0,
      ends |-> i \in u.marks \/ (u.kind = "chunked" /\ i = UnitLen(u))]]
Stream(w) == FlattenSeq([i \in DOMAIN w.units |-> Encoded(w.units[i])])

ParserInit ==
  /\ writer \in Written
  /\ fed = 0 /\ cuts = {} /\ pbuf = <<>> /\ parsed = <<>> /\ ready = FALSE /\ parsing = FALSE

\* feed(data): the bytes are appended and the loop begins.
Feed(n) ==
  /\ ~parsing /\ n \in 1..(Len(Stream(writer)) - fed)
  /\ pbuf' = pbuf \o SubSeq(Stream(writer), fed + 1, fed + n)
  /\ fed' = fed + n /\ cuts' = cuts \cup {fed + n}
  /\ parsing' = TRUE
  /\ UNCHANGED <<writer, parsed, ready>>

Drop(n) == SubSeq(pbuf, n + 1, Len(pbuf))

\* The first n bytes are taken, and returned as one unit of what their header says.
Yield(n) ==
  /\ pbuf' = Drop(n) /\ parsed' = Append(parsed, [kind |-> pbuf[1].mark, size |-> n])
  /\ UNCHANGED <<parsing, ready>>
Leave == parsing' = FALSE /\ UNCHANGED <<pbuf, parsed, ready>>

\* TlsStreamParser.feed: a header of no known type, or half a record, ends the loop.
\* Mutant: a record is taken before all of it came.
TlsStepEager ==
  IF Len(pbuf) < HeadLen \/ pbuf[1].mark \notin TlsKinds THEN Leave
  ELSE Yield(HeadLen + pbuf[1].size)
TlsStep ==
  IF Len(pbuf) < HeadLen \/ pbuf[1].mark \notin TlsKinds \/ Len(pbuf) < HeadLen + pbuf[1].size THEN Leave
  ELSE Yield(HeadLen + pbuf[1].size)

\* Http2Parser.feed: the preface is looked at once a first header lies behind it.
H2Preface ==
  IF Len(pbuf) >= 2 * HeadLen /\ pbuf[1].mark = "preface"
  THEN ready' = TRUE /\ pbuf' = Drop(HeadLen) /\ UNCHANGED <<parsed, parsing>>
  ELSE Leave
H2Frames ==
  IF Len(pbuf) < HeadLen \/ pbuf[1].size > MaxUnit \/ Len(pbuf) < HeadLen + pbuf[1].size THEN Leave
  ELSE Yield(HeadLen + pbuf[1].size)
Http2Step == IF ready THEN H2Frames ELSE H2Preface

\* Http1Parser._extract_one: a chunked message ends at the last end mark in the buffer, in whatever
\* head or body that stands, and a message without a length ends with its head. A start that is none
\* of HTTP is never passed. The loop left, a buffer too long loses half of what it may hold.
EndMarks == {i \in HeadLen..Len(pbuf) : pbuf[i].ends}
ChunkEnd == IF EndMarks = {} THEN 0 ELSE CHOOSE i \in EndMarks : \A j \in EndMarks : j <= i
HttpTotal ==
  CASE pbuf[1].mark = "length" -> HeadLen + pbuf[1].size
    [] pbuf[1].mark = "chunked" -> ChunkEnd
    [] OTHER -> HeadLen
LeaveHttp1 ==
  /\ parsing' = FALSE /\ UNCHANGED <<parsed, ready>>
  /\ pbuf' = IF Len(pbuf) > MaxMessage THEN Drop(MaxMessage \div 2) ELSE pbuf
Http1Step ==
  IF Len(pbuf) < HeadLen \/ pbuf[1].mark \notin HttpKinds \/ HttpTotal = 0 \/ Len(pbuf) < HttpTotal THEN LeaveHttp1
  ELSE Yield(HttpTotal)

ParseStep ==
  /\ parsing
  /\ CASE writer.protocol = "tls" -> TlsStep
       [] writer.protocol = "http2" -> Http2Step
       [] writer.protocol = "http1" -> Http1Step
  /\ UNCHANGED <<writer, fed, cuts>>

ParserNext == (\E n \in 1..Len(Stream(writer)) : Feed(n)) \/ ParseStep
ParserSpec == ParserInit /\ [][ParserNext]_parserVars

----------------------------------------------------------------------------
\* What a parser holds is the end of what was fed, byte for byte.
ParserTypeOK ==
  /\ fed \in 0..Len(Stream(writer)) /\ ready \in BOOLEAN /\ parsing \in BOOLEAN
  /\ Len(pbuf) <= fed /\ \A k \in 1..Len(pbuf) : pbuf[k] = Stream(writer)[(fed - Len(pbuf)) + k]

\* What a unit is returned as; those of HTTP/2 begin after the preface.
TakenAs(u) == [kind |-> u.kind, size |-> UnitLen(u)]
Expected ==
  LET all == [i \in DOMAIN writer.units |-> TakenAs(writer.units[i])]
  IN IF writer.protocol = "http2" THEN SubSeq(all, 2, Len(writer.units)) ELSE all

\* Where a unit ends, and how many units lie wholly in what was fed.
Ends(w, i) == Len(FlattenSeq([j \in 1..i |-> Encoded(w.units[j])]))
Whole == Cardinality({i \in DOMAIN writer.units : Ends(writer, i) <= fed})

\* What keeps a parser from the units as they were written: a frame too long, a record of no known
\* type, a body without a length; a chunked message that is cut behind an end mark of its head or
\* its body, or whose end came in one feed with an end mark behind it; and a message of which
\* a feed left more than the buffer may hold.
CutIn(a, b) == \E c \in cuts : a <= c /\ c < b
Misread(w, i) ==
  \E m \in (Ends(w, i - 1) + 1)..fed :
    /\ Stream(w)[m].ends
    /\ \/ m < Ends(w, i) /\ CutIn(m, Ends(w, i))
       \/ m > Ends(w, i) /\ ~CutIn(Ends(w, i), m)
Trap(w, i) ==
  \/ w.protocol = "http2" /\ w.units[i].size > MaxUnit
  \/ w.protocol = "tls" /\ w.units[i].kind \notin TlsKinds
  \/ w.units[i].kind = "bare" /\ w.units[i].size > 0
  \/ w.units[i].kind = "chunked" /\ Misread(w, i)
  \/ w.protocol = "http1" /\ CutIn(Ends(w, i - 1) + MaxMessage + 1, Ends(w, i))

\* SplitIrrelevant: wherever the stream is cut, what is returned are the units written, in order and
\* each once; and once a feed is done, every unit that came whole was returned, unless a cut or a
\* unit is one of those above (TlsStreamParser.feed 156-180, Http1Parser 343-397, Http2Parser.feed
\* 445-474).
SplitIrrelevant ==
  (\A i \in DOMAIN writer.units : ~Trap(writer, i)) =>
    /\ IsPrefix(parsed, Expected)
    /\ ~parsing /\ fed = Len(Stream(writer)) => parsed = Expected
    /\ ~parsing /\ writer.protocol # "http2" => Len(parsed) = Whole
====
