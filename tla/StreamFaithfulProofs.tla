------------------------ MODULE StreamFaithfulProofs ------------------------
(***************************************************************************)
(* StreamFaithful of StreamEngine, for any traffic whose peers number      *)
(* their bytes from one start, any number of hosts and packets and any     *)
(* sequence space: what a direction yields is what came, each byte once,   *)
(* in the order it was sent; at the end only bytes before the first        *)
(* segment that came, or inside a gap that was told, were captured and not *)
(* yielded.                                                                *)
(***************************************************************************)
EXTENDS StreamEngineProofs

(***************************************************************************)
(* Pure facts first.  The folds of Drain and FlushStream, and serial       *)
(* arithmetic (RFC 1982): numbers that wrap around compare as the places   *)
(* they stand for, while these lie less than half the sequence space       *)
(* apart.                                                                  *)
(***************************************************************************)

(* The folds over at most two segments.                                     *)
LEMMA GreatestOfTwo == Max({1}) = 1 /\ Max({2}) = 2 /\ Max({1, 2}) = 2
  BY DEF Max

(* Draining and flushing a list of segments.                                *)
Drains(base, s) == FoldLeft(DrainOne, base, s)
Flushes(base, s) == FoldLeft(FlushOne, base, s)

(* Draining a list of at most two segments: one DrainOne after another.     *)
LEMMA DrainFold ==
  ASSUME NEW base, NEW s
  PROVE  /\ s = <<>> => Drains(base, s) = base
         /\ \A a : s = <<a>> => Drains(base, s) = DrainOne(base, a)
         /\ \A a, b : s = <<a, b>> => Drains(base, s) = DrainOne(DrainOne(base, a), b)
<1> DEFINE S == DOMAIN s
           step(iter, t) == IF t = {} THEN base ELSE DrainOne(iter[t \ {Max(t)}], s[Max(t)])
           Folds(iter) == iter = [t \in SUBSET S |-> step(iter, t)]
           f == CHOOSE iter : Folds(iter)
           g == [t \in SUBSET S |-> IF t = {} THEN base
                                    ELSE IF t = {1} THEN DrainOne(base, s[1])
                                    ELSE IF t = {2} THEN DrainOne(base, s[2])
                                    ELSE DrainOne(DrainOne(base, s[1]), s[2])]
<1>1. Drains(base, s) = f[S]
  BY DEF Drains, FoldLeft, MapThenFoldSet
<1>2. ASSUME S \subseteq {1, 2} PROVE \A t \in SUBSET S : f[t] = step(f, t)
  <2>1. g = [t \in SUBSET S |-> step(g, t)]
    <3>1. SUFFICES ASSUME NEW t \in SUBSET S PROVE g[t] = step(g, t)
      OBVIOUS
    <3>2. t = {} \/ t = {1} \/ t = {2} \/ t = {1, 2}
      BY <1>2
    <3>3. CASE t = {}
      BY <3>3
    <3>4. CASE t = {1}
      <4>1. t \ {Max(t)} = {} /\ {} \in SUBSET S
        BY <3>4, GreatestOfTwo
      <4>2. g[t] = DrainOne(base, s[1]) /\ g[{}] = base
        BY <3>4, <4>1
      <4> QED BY <3>4, <4>1, <4>2, GreatestOfTwo
    <3>5. CASE t = {2}
      <4>1. t \ {Max(t)} = {} /\ {} \in SUBSET S
        BY <3>5, GreatestOfTwo
      <4>2. g[t] = DrainOne(base, s[2]) /\ g[{}] = base
        BY <3>5, <4>1
      <4> QED BY <3>5, <4>1, <4>2, GreatestOfTwo
    <3>6. CASE t = {1, 2}
      <4>1. t \ {Max(t)} = {1} /\ {1} \in SUBSET S
        BY <3>6, GreatestOfTwo
      <4>2. g[t] = DrainOne(DrainOne(base, s[1]), s[2]) /\ g[{1}] = DrainOne(base, s[1])
        BY <3>6, <4>1
      <4> QED BY <3>6, <4>1, <4>2, GreatestOfTwo
    <3> QED BY <3>2, <3>3, <3>4, <3>5, <3>6
  <2>2. Folds(g)
    BY <2>1
  <2> HIDE DEF g, step
  <2>3. Folds(f)
    BY <2>2
  <2> QED BY <2>3
<1>3. ASSUME s = <<>> PROVE f[S] = base
  <2>1. S = {}
    BY <1>3
  <2> HIDE DEF f, S
  <2> QED BY <1>2, <2>1
<1>4. ASSUME NEW a, s = <<a>> PROVE f[S] = DrainOne(base, a)
  <2>1. S = {1} /\ s[1] = a
    BY <1>4
  <2> HIDE DEF f, S
  <2>2. \A t \in SUBSET {1} : f[t] = step(f, t)
    BY <1>2, <2>1
  <2>3. f[{}] = base
    BY <2>2
  <2>4. f[{1}] = DrainOne(f[{}], s[1])
    <3>1. {1} \ {1} = {}
      OBVIOUS
    <3> QED BY <2>2, <3>1, GreatestOfTwo
  <2> QED BY <2>1, <2>3, <2>4
<1>5. ASSUME NEW a, NEW b, s = <<a, b>> PROVE f[S] = DrainOne(DrainOne(base, a), b)
  <2>1. S = {1, 2} /\ s[1] = a /\ s[2] = b
    BY <1>5
  <2> HIDE DEF f, S
  <2>2. \A t \in SUBSET {1, 2} : f[t] = step(f, t)
    BY <1>2, <2>1
  <2>3. f[{}] = base
    BY <2>2
  <2>4. f[{1}] = DrainOne(f[{}], s[1])
    <3>1. {1} \ {1} = {}
      OBVIOUS
    <3> QED BY <2>2, <3>1, GreatestOfTwo
  <2>5. f[{1, 2}] = DrainOne(f[{1}], s[2])
    <3>1. {1, 2} \ {2} = {1}
      OBVIOUS
    <3> QED BY <2>2, <3>1, GreatestOfTwo
  <2> QED BY <2>1, <2>3, <2>4, <2>5
<1> QED BY <1>1, <1>3, <1>4, <1>5

(* Flushing a list of one segment is one FlushOne.                          *)
LEMMA FlushFold ==
  ASSUME NEW base, NEW s
  PROVE  \A a : s = <<a>> => Flushes(base, s) = FlushOne(base, a)
<1> DEFINE S == DOMAIN s
           step(iter, t) == IF t = {} THEN base ELSE FlushOne(iter[t \ {Max(t)}], s[Max(t)])
           Folds(iter) == iter = [t \in SUBSET S |-> step(iter, t)]
           f == CHOOSE iter : Folds(iter)
           g == [t \in SUBSET S |-> IF t = {} THEN base ELSE FlushOne(base, s[1])]
<1>1. Flushes(base, s) = f[S]
  BY DEF Flushes, FoldLeft, MapThenFoldSet
<1>2. ASSUME S = {1} PROVE \A t \in SUBSET S : f[t] = step(f, t)
  <2>1. g = [t \in SUBSET S |-> step(g, t)]
    <3>1. SUFFICES ASSUME NEW t \in SUBSET S PROVE g[t] = step(g, t)
      OBVIOUS
    <3>2. t = {} \/ t = {1}
      BY <1>2
    <3>3. CASE t = {}
      BY <3>3
    <3>4. CASE t = {1}
      <4>1. t \ {Max(t)} = {} /\ {} \in SUBSET S
        BY <3>4, GreatestOfTwo
      <4>2. g[t] = FlushOne(base, s[1]) /\ g[{}] = base
        BY <3>4, <4>1
      <4> QED BY <3>4, <4>1, <4>2, GreatestOfTwo
    <3> QED BY <3>2, <3>3, <3>4
  <2>2. Folds(g)
    BY <2>1
  <2> HIDE DEF g, step
  <2>3. Folds(f)
    BY <2>2
  <2> QED BY <2>3
<1>4. ASSUME NEW a, s = <<a>> PROVE f[S] = FlushOne(base, a)
  <2>1. S = {1} /\ s[1] = a
    BY <1>4
  <2> HIDE DEF f, S
  <2>2. \A t \in SUBSET {1} : f[t] = step(f, t)
    BY <1>2, <2>1
  <2>3. f[{}] = base
    BY <2>2
  <2>4. f[{1}] = FlushOne(f[{}], s[1])
    <3>1. {1} \ {1} = {}
      OBVIOUS
    <3> QED BY <2>2, <3>1, GreatestOfTwo
  <2> QED BY <2>1, <2>3, <2>4
<1> QED BY <1>1, <1>4

(* Serial arithmetic on places less than half the sequence space apart.     *)
Half == (SeqSpace - 1) \div 2
Nr(start, a) == (start + a) % SeqSpace

(* Half is the largest distance that is less than half the sequence space.  *)
LEMMA HalfOf == Half \in Nat \ {0} /\ 2 * Half < SeqSpace /\ SeqSpace <= 2 * Half + 2
  BY StreamAssumption DEF Half

(* A remainder is the only one.                                             *)
Turns(q) == SeqSpace * q

(* Whole turns of the sequence space add up.                                *)
LEMMA TurnsAdd ==
  /\ \A q \in Int : Turns(q) \in Int /\ Turns(q - 1) = Turns(q) - SeqSpace
  /\ \A p, q \in Int : Turns(p - q) = Turns(p) - Turns(q)
<1>s. SeqSpace \in Int
  BY StreamAssumption
<1>1. ASSUME NEW q \in Int PROVE Turns(q) \in Int /\ Turns(q - 1) = Turns(q) - SeqSpace
  BY <1>s DEF Turns
<1>2. ASSUME NEW p \in Int, NEW q \in Int PROVE Turns(p - q) = Turns(p) - Turns(q)
  BY <1>s DEF Turns
<1> QED BY <1>1, <1>2

(* What is left beside whole turns is the remainder.                        *)
LEMMA OneRemainder ==
  \A a \in Int, q \in Int, r \in 0..(SeqSpace - 1) : a = Turns(q) + r => a % SeqSpace = r
<1>1. ASSUME NEW S \in Nat \ {0}, NEW q \in Int, NEW r \in 0..(S - 1), NEW a \in Int, a = S * q + r
      PROVE  a % S = r
  BY <1>1
<1>2. SeqSpace \in Nat \ {0}
  BY StreamAssumption
<1> QED BY <1>1, <1>2 DEF Turns

(* Every integer is its remainder and some whole turns.                     *)
LEMMA Remainder ==
  \A a \in Int : a % SeqSpace \in 0..(SeqSpace - 1) /\ \E q \in Int : a = Turns(q) + (a % SeqSpace)
<1>1. ASSUME NEW S \in Nat \ {0}, NEW a \in Int
      PROVE  a \div S \in Int /\ a = S * (a \div S) + (a % S) /\ a % S \in 0..(S - 1)
  OBVIOUS
<1>2. SeqSpace \in Nat \ {0}
  BY StreamAssumption
<1>3. ASSUME NEW a \in Int
      PROVE  a % SeqSpace \in 0..(SeqSpace - 1) /\ \E q \in Int : a = Turns(q) + (a % SeqSpace)
  <2>1. a \div SeqSpace \in Int /\ a = SeqSpace * (a \div SeqSpace) + (a % SeqSpace) /\ a % SeqSpace \in 0..(SeqSpace - 1)
    BY <1>1, <1>2
  <2> QED BY <2>1 DEF Turns
<1> QED BY <1>3

(* The number of a place is that place, some turns of the space away.       *)
LEMMA Numbers ==
  \A start, a \in Nat : Nr(start, a) \in 0..(SeqSpace - 1) /\ \E q \in Int : start + a = Turns(q) + Nr(start, a)
<1> SUFFICES ASSUME NEW start \in Nat, NEW a \in Nat
             PROVE  Nr(start, a) \in 0..(SeqSpace - 1) /\ \E q \in Int : start + a = Turns(q) + Nr(start, a)
  OBVIOUS
<1>1. start + a \in Int
  OBVIOUS
<1> QED BY <1>1, Remainder DEF Nr

(* The distance of two places is that of their numbers.                     *)
LEMMA Distance ==
  ASSUME NEW start \in Nat, NEW a \in Nat, NEW b \in Nat, a < SeqSpace, b < SeqSpace
  PROVE  Ahead(Nr(start, a), Nr(start, b)) = IF b <= a THEN a - b ELSE SeqSpace - (b - a)
<1>s. SeqSpace \in Nat \ {0}
  BY StreamAssumption
<1> DEFINE x == Nr(start, a)
           y == Nr(start, b)
<1>1. x \in 0..(SeqSpace - 1) /\ \E q \in Int : start + a = Turns(q) + x
  BY Numbers
<1>2. y \in 0..(SeqSpace - 1) /\ \E q \in Int : start + b = Turns(q) + y
  BY Numbers
<1> HIDE DEF x, y
<1>3. PICK q \in Int : start + a = Turns(q) + x
  BY <1>1
<1>4. PICK p \in Int : start + b = Turns(p) + y
  BY <1>2
<1>5. /\ p - q \in Int /\ p - q - 1 \in Int /\ x - y \in Int
      /\ x - y = Turns(p - q) + (a - b)
      /\ x - y = Turns(p - q - 1) + (SeqSpace - (b - a))
  <2>0. p \in Int /\ q \in Int /\ p - q \in Int
    OBVIOUS
  <2>1. Turns(p) \in Int /\ Turns(q) \in Int /\ Turns(p - q) = Turns(p) - Turns(q)
    BY <2>0, TurnsAdd
  <2>2. Turns(p - q - 1) = Turns(p - q) - SeqSpace
    BY <2>0, TurnsAdd
  <2> QED BY <1>s, <1>1, <1>2, <1>3, <1>4, <2>0, <2>1, <2>2
<1>6. CASE b <= a
  <2>1. a - b \in 0..(SeqSpace - 1)
    BY <1>s, <1>6
  <2>2. (x - y) % SeqSpace = a - b
    BY <1>5, <2>1, OneRemainder
  <2> QED BY <1>6, <2>2 DEF Ahead, x, y
<1>7. CASE a < b
  <2>1. SeqSpace - (b - a) \in 0..(SeqSpace - 1)
    BY <1>s, <1>7
  <2>2. (x - y) % SeqSpace = SeqSpace - (b - a)
    BY <1>5, <2>1, OneRemainder
  <2> QED BY <1>7, <2>2 DEF Ahead, x, y
<1> QED BY <1>6, <1>7

(* So numbers compare as places do.                                         *)
LEMMA Compared ==
  ASSUME NEW start \in Nat, NEW a \in 0..Half, NEW b \in 0..Half
  PROVE  /\ SeqLt(Nr(start, a), Nr(start, b)) <=> a < b
         /\ SeqGt(Nr(start, a), Nr(start, b)) <=> a > b
         /\ SeqLe(Nr(start, a), Nr(start, b)) <=> a <= b
         /\ SeqGe(Nr(start, a), Nr(start, b)) <=> a >= b
         /\ Nr(start, a) = Nr(start, b) <=> a = b
         /\ Ahead(Nr(start, a), Nr(start, b)) = IF b <= a THEN a - b ELSE SeqSpace - (b - a)
<1> DEFINE x == Nr(start, a)
           y == Nr(start, b)
           H == Half
           d == Ahead(x, y)
           e == Ahead(y, x)
<1>h. SeqSpace \in Nat /\ H \in Nat /\ 2 * H < SeqSpace
  BY HalfOf, StreamAssumption
<1>0. a \in 0..H /\ b \in 0..H
  OBVIOUS
<1>1. /\ d = IF b <= a THEN a - b ELSE SeqSpace - (b - a)
      /\ e = IF a <= b THEN b - a ELSE SeqSpace - (a - b)
  <2> HIDE DEF H
  <2>1. a \in Nat /\ b \in Nat /\ a < SeqSpace /\ b < SeqSpace
    BY <1>h, <1>0
  <2> QED BY <2>1, Distance
<1>2. /\ SeqLt(x, y) <=> d > H
      /\ SeqGt(x, y) <=> e > H
      /\ SeqLe(x, y) <=> x = y \/ d > H
      /\ SeqGe(x, y) <=> x = y \/ e > H
      /\ a = b => x = y
      /\ x = y => d = e
  BY DEF SeqLt, SeqGt, SeqLe, SeqGe, Half
<1> HIDE DEF x, y, H, d, e
<1>3. (d > H <=> a < b) /\ (e > H <=> a > b)
  BY <1>h, <1>0, <1>1
<1>4. x = y <=> a = b
  BY <1>h, <1>0, <1>1, <1>2
<1>5. /\ SeqLt(x, y) <=> a < b
      /\ SeqGt(x, y) <=> a > b
      /\ SeqLe(x, y) <=> a <= b
      /\ SeqGe(x, y) <=> a >= b
  BY <1>0, <1>2, <1>3, <1>4
<1> QED BY <1>1, <1>4, <1>5 DEF x, y, d

(* A number moved on is that of the place moved on.                         *)
LEMMA MovedOn ==
  ASSUME NEW start \in Nat, NEW a \in Nat, NEW d \in Int, a + d \in Nat
  PROVE  (Nr(start, a) + d) % SeqSpace = Nr(start, a + d)
<1>s. SeqSpace \in Nat \ {0}
  BY StreamAssumption
<1> DEFINE x == Nr(start, a)
           y == Nr(start, a + d)
<1>1. x \in 0..(SeqSpace - 1) /\ \E q \in Int : start + a = Turns(q) + x
  BY Numbers
<1>2. y \in 0..(SeqSpace - 1) /\ \E q \in Int : start + (a + d) = Turns(q) + y
  BY Numbers
<1> HIDE DEF x, y
<1>3. PICK q \in Int : start + a = Turns(q) + x
  BY <1>1
<1>4. PICK p \in Int : start + (a + d) = Turns(p) + y
  BY <1>2
<1>5. x + d = Turns(p - q) + y /\ p - q \in Int /\ x + d \in Int
  <2>0. p \in Int /\ q \in Int /\ p - q \in Int
    OBVIOUS
  <2>1. Turns(p) \in Int /\ Turns(q) \in Int /\ Turns(p - q) = Turns(p) - Turns(q)
    BY <2>0, TurnsAdd
  <2>2. Turns(p - q - 1) = Turns(p - q) - SeqSpace
    BY <2>0, TurnsAdd
  <2> QED BY <1>s, <1>1, <1>2, <1>3, <1>4, <2>0, <2>1, <2>2
<1>6. (x + d) % SeqSpace = y
  BY <1>2, <1>5, OneRemainder
<1> QED BY <1>6 DEF x, y

(***************************************************************************)
(* Places.  A peer numbers its bytes from a start; a segment is a span of  *)
(* them, so that what reassembly does can be told in places that never     *)
(* wrap.                                                                   *)
(***************************************************************************)

(* Segments by the places of their bytes.                                   *)
Span(a, b) == [i \in 1..(b - a) |-> a + i - 1]
Piece(start, a, b) == [seq |-> Nr(start, a), data |-> Span(a, b)]
Pieces(start) == {Piece(start, x[1], x[2]) : x \in {y \in (0..Half) \X (0..Half) : y[1] < y[2]}}
BytesOf(B) == UNION {Bytes(s.data) : s \in B}

(* A span holds the places from a up to, not including, b, in order.        *)
LEMMA SpanMeans ==
  ASSUME NEW a \in Nat, NEW b \in Nat, a <= b
  PROVE  /\ Span(a, b) \in Seq(Nat) /\ Len(Span(a, b)) = b - a /\ DOMAIN Span(a, b) = 1..(b - a)
         /\ \A i \in 1..(b - a) : Span(a, b)[i] = a + i - 1
         /\ Bytes(Span(a, b)) = a..(b - 1)
<1> DEFINE s == Span(a, b)
<1>1. b - a \in Nat /\ s \in [1..(b - a) -> Nat]
  BY DEF Span
<1>2. s \in Seq(Nat) /\ Len(s) = b - a /\ DOMAIN s = 1..(b - a)
  BY <1>1, SeqDef, LenProperties
<1>3. \A i \in 1..(b - a) : s[i] = a + i - 1
  BY DEF Span
<1>4. Bytes(s) \subseteq a..(b - 1)
  BY <1>2, <1>3 DEF Bytes
<1>5. ASSUME NEW y \in a..(b - 1) PROVE y \in Bytes(s)
  <2>1. y - a + 1 \in 1..(b - a) /\ s[y - a + 1] = y
    BY <1>3
  <2> QED BY <1>2, <2>1 DEF Bytes
<1> QED BY <1>2, <1>3, <1>4, <1>5

(* What is left of a sequence after its first n elements.                   *)
LEMMA FromMeans ==
  ASSUME NEW S, NEW s \in Seq(S), NEW n \in 0..Len(s)
  PROVE  /\ From(s, n) \in Seq(S) /\ Len(From(s, n)) = Len(s) - n
         /\ \A i \in 1..(Len(s) - n) : From(s, n)[i] = s[n + i]
<1> DEFINE l == Len(s)
<1>1. l \in Nat /\ n \in Nat /\ n <= l /\ \A i \in (n + 1)..l : s[i] \in S
  BY LenProperties, ElementOfSeq
<1>2. /\ SubSeq(s, n + 1, l) \in Seq(S)
      /\ Len(SubSeq(s, n + 1, l)) = IF n + 1 <= l THEN l - (n + 1) + 1 ELSE 0
      /\ \A i \in 1..(l - (n + 1) + 1) : SubSeq(s, n + 1, l)[i] = s[n + 1 + i - 1]
  <2> HIDE DEF l
  <2>1. n + 1 \in Int /\ l \in Int
    BY <1>1
  <2> QED BY <1>1, <2>1, SubSeqProperties
<1>3. From(s, n) = SubSeq(s, n + 1, l)
  BY DEF From
<1> HIDE DEF l
<1>4. \A i : i \in 1..(l - n) => n + 1 + i - 1 = n + i /\ i \in 1..(l - (n + 1) + 1)
  BY <1>1
<1> QED BY <1>1, <1>2, <1>3, <1>4 DEF l

(* A span without its first bytes is a span.                                *)
LEMMA SpanFrom ==
  ASSUME NEW a \in Nat, NEW b \in Nat, NEW c \in Nat, a <= c, c <= b
  PROVE  From(Span(a, b), c - a) = Span(c, b)
<1> DEFINE s == Span(a, b)
           t == From(s, c - a)
           u == Span(c, b)
<1>1. s \in Seq(Nat) /\ Len(s) = b - a /\ \A i \in 1..(b - a) : s[i] = a + i - 1
  BY SpanMeans
<1>2. u \in Seq(Nat) /\ Len(u) = b - c /\ \A i \in 1..(b - c) : u[i] = c + i - 1
  BY SpanMeans
<1> HIDE DEF s, u
<1>3. c - a \in 0..Len(s) /\ Len(s) - (c - a) = b - c
  BY <1>1
<1>4. t \in Seq(Nat) /\ Len(t) = b - c /\ \A i \in 1..(b - c) : t[i] = s[(c - a) + i]
  <2>1. \A n \in 0..Len(s) : /\ From(s, n) \in Seq(Nat) /\ Len(From(s, n)) = Len(s) - n
                            /\ \A i \in 1..(Len(s) - n) : From(s, n)[i] = s[n + i]
    BY <1>1, FromMeans
  <2> QED BY <1>3, <2>1
<1>5. \A i \in 1..(b - c) : t[i] = u[i]
  <2> SUFFICES ASSUME NEW i \in 1..(b - c) PROVE t[i] = u[i]
    OBVIOUS
  <2>1. (c - a) + i \in 1..(b - a) /\ a + ((c - a) + i) - 1 = c + i - 1
    OBVIOUS
  <2> QED BY <1>1, <1>2, <1>4, <2>1
<1> HIDE DEF t
<1>6. t = u
  BY <1>2, <1>4, <1>5, SeqEqual
<1> QED BY <1>6 DEF t, u, s

(* A piece is a segment that begins at a, ends at b and holds the bytes     *)
(* between.                                                                 *)
LEMMA PieceMeans ==
  ASSUME NEW start \in Nat, NEW a \in 0..Half, NEW b \in 0..Half, a < b
  PROVE  LET s == Piece(start, a, b) IN
         /\ s = Segment(Nr(start, a), Span(a, b)) /\ s \in Pieces(start)
         /\ s.seq = Nr(start, a) /\ s.data = Span(a, b) /\ EndSeq(s) = Nr(start, b)
         /\ Len(s.data) = b - a /\ s.data # <<>>
         /\ BytesOf({s}) = a..(b - 1)
<1>0. a \in Nat /\ b \in Nat
  BY HalfOf
<1> DEFINE s == Piece(start, a, b)
<1>1. s.seq = Nr(start, a) /\ s.data = Span(a, b) /\ s = Segment(Nr(start, a), Span(a, b))
  BY DEF Piece, Segment
<1>2. Len(s.data) = b - a /\ s.data # <<>> /\ Bytes(s.data) = a..(b - 1)
  BY <1>0, <1>1, SpanMeans
<1>3. EndSeq(s) = Nr(start, b)
  <2>1. b - a \in Int /\ a + (b - a) = b
    BY <1>0
  <2>2. (Nr(start, a) + (b - a)) % SeqSpace = Nr(start, b)
    BY <1>0, <2>1, MovedOn
  <2> QED BY <1>1, <1>2, <2>2 DEF EndSeq
<1>4. s \in Pieces(start)
  <2>1. <<a, b>> \in {y \in (0..Half) \X (0..Half) : y[1] < y[2]}
    OBVIOUS
  <2>2. s = Piece(start, <<a, b>>[1], <<a, b>>[2])
    OBVIOUS
  <2> QED BY <2>1, <2>2, Zenon DEF Pieces
<1>5. BytesOf({s}) = Bytes(s.data)
  BY DEF BytesOf
<1> QED BY <1>1, <1>2, <1>3, <1>4, <1>5

(* Every piece lies somewhere.                                              *)
LEMMA PieceLies ==
  ASSUME NEW start, NEW s \in Pieces(start)
  PROVE  \E a, b \in 0..Half : a < b /\ s = Piece(start, a, b)
  BY DEF Pieces

(* Bytes in the order they were sent, all before place n.                   *)
Ups(out, n) ==
  /\ out \in Seq(Nat) /\ \A i \in 1..Len(out) : out[i] < n
  /\ \A i \in 1..(Len(out) - 1) : out[i] < out[i + 1]

(* Bytes joined to bytes.                                                   *)
LEMMA JoinedBytes ==
  \A p, q \in Seq(Nat) :
    /\ p \o q \in Seq(Nat) /\ Len(p \o q) = Len(p) + Len(q) /\ DOMAIN (p \o q) = 1..(Len(p) + Len(q))
    /\ \A i \in 1..Len(p) : (p \o q)[i] = p[i]
    /\ \A i \in 1..Len(q) : (p \o q)[Len(p) + i] = q[i]
<1> SUFFICES ASSUME NEW p \in Seq(Nat), NEW q \in Seq(Nat)
             PROVE  /\ p \o q \in Seq(Nat) /\ Len(p \o q) = Len(p) + Len(q) /\ DOMAIN (p \o q) = 1..(Len(p) + Len(q))
                    /\ \A i \in 1..Len(p) : (p \o q)[i] = p[i]
                    /\ \A i \in 1..Len(q) : (p \o q)[Len(p) + i] = q[i]
  OBVIOUS
<1> QED BY ConcatProperties

(* Bytes in order stay so when a later span follows them.                   *)
LEMMA UpsOn ==
  ASSUME NEW out, NEW n \in Nat, NEW a \in Nat, NEW b \in Nat, n <= a, a <= b, Ups(out, n)
  PROVE  /\ out \o Span(a, b) \in Seq(Nat) /\ Ups(out \o Span(a, b), b)
         /\ Bytes(out \o Span(a, b)) = Bytes(out) \cup a..(b - 1)
<1> DEFINE s == Span(a, b)
           t == out \o s
<1>1. /\ s \in Seq(Nat) /\ Len(s) = b - a /\ DOMAIN s = 1..(b - a)
      /\ \A i \in 1..(b - a) : s[i] = a + i - 1
      /\ Bytes(s) = a..(b - 1)
  BY SpanMeans
<1> HIDE DEF s
<1>2. /\ out \in Seq(Nat) /\ Len(out) \in Nat /\ DOMAIN out = 1..Len(out)
      /\ \A i \in 1..Len(out) : out[i] \in Nat /\ out[i] < n
      /\ \A i \in 1..(Len(out) - 1) : out[i] < out[i + 1]
  BY DEF Ups
<1>3. /\ t \in Seq(Nat) /\ Len(t) = Len(out) + (b - a) /\ DOMAIN t = 1..Len(t)
      /\ \A i \in 1..Len(out) : t[i] = out[i]
      /\ \A i \in 1..(b - a) : t[Len(out) + i] = a + i - 1
  <2>1. /\ t \in Seq(Nat) /\ Len(t) = Len(out) + Len(s) /\ DOMAIN t = 1..(Len(out) + Len(s))
        /\ \A i \in 1..Len(out) : t[i] = out[i]
        /\ \A i \in 1..Len(s) : t[Len(out) + i] = s[i]
    BY <1>1, <1>2, JoinedBytes
  <2> HIDE DEF t
  <2> QED BY <1>1, <1>2, <2>1
<1> HIDE DEF t
<1>4. \A i \in 1..Len(t) : (i <= Len(out) /\ t[i] = out[i]) \/ (i > Len(out) /\ t[i] = a + (i - Len(out)) - 1)
  <2> SUFFICES ASSUME NEW i \in 1..Len(t), i > Len(out) PROVE t[i] = a + (i - Len(out)) - 1
    BY <1>2, <1>3
  <2>1. i - Len(out) \in 1..(b - a) /\ Len(out) + (i - Len(out)) = i
    BY <1>2, <1>3
  <2> QED BY <1>3, <2>1
<1>5. \A i \in 1..Len(t) : t[i] < b
  <2> SUFFICES ASSUME NEW i \in 1..Len(t) PROVE t[i] < b
    OBVIOUS
  <2>1. CASE i <= Len(out) /\ t[i] = out[i]
    <3>1. i \in 1..Len(out)
      BY <1>2, <1>3, <2>1
    <3> QED BY <1>2, <2>1, <3>1
  <2>2. CASE i > Len(out) /\ t[i] = a + (i - Len(out)) - 1
    BY <1>2, <1>3, <2>2
  <2> QED BY <1>4, <2>1, <2>2
<1>6. \A i \in 1..(Len(t) - 1) : t[i] < t[i + 1]
  <2> SUFFICES ASSUME NEW i \in 1..(Len(t) - 1) PROVE t[i] < t[i + 1]
    OBVIOUS
  <2>1. i \in 1..Len(t) /\ i + 1 \in 1..Len(t) /\ i \in Nat
    BY <1>2, <1>3
  <2>2. CASE i + 1 <= Len(out)
    <3>1. i \in 1..(Len(out) - 1) /\ i + 1 \in 1..Len(out)
      BY <1>2, <2>2
    <3> QED BY <1>2, <1>3, <3>1
  <2>3. CASE i = Len(out)
    BY <1>2, <1>4, <2>1, <2>3
  <2>4. CASE i > Len(out)
    BY <1>2, <1>4, <2>1, <2>4
  <2>5. i + 1 <= Len(out) \/ i = Len(out) \/ i > Len(out)
    <3>1. \A x, y \in Nat : x + 1 <= y \/ x = y \/ x > y
      OBVIOUS
    <3> QED BY <1>2, <2>1, <3>1, Zenon
  <2> QED BY <2>2, <2>3, <2>4, <2>5
<1>7. Bytes(t) = Bytes(out) \cup Bytes(s)
  <2>1. Bytes(t) \subseteq Bytes(out) \cup (a..(b - 1))
    <3> SUFFICES ASSUME NEW i \in 1..Len(t) PROVE t[i] \in Bytes(out) \cup (a..(b - 1))
      BY <1>3 DEF Bytes
    <3>1. CASE i <= Len(out) /\ t[i] = out[i]
      <4>1. i \in DOMAIN out
        BY <1>2, <1>3, <3>1
      <4> QED BY <3>1, <4>1 DEF Bytes
    <3>2. CASE i > Len(out) /\ t[i] = a + (i - Len(out)) - 1
      BY <1>2, <1>3, <3>2
    <3> QED BY <1>4, <3>1, <3>2
  <2>2. Bytes(out) \subseteq Bytes(t)
    <3>1. 1..Len(out) \subseteq 1..Len(t)
      BY <1>2, <1>3
    <3> QED BY <1>2, <1>3, <3>1 DEF Bytes
  <2>3. Bytes(s) \subseteq Bytes(t)
    <3> SUFFICES ASSUME NEW i \in 1..(b - a) PROVE s[i] \in Bytes(t)
      BY <1>1 DEF Bytes
    <3>1. Len(out) + i \in 1..Len(t) /\ t[Len(out) + i] = s[i]
      <4>1. t[Len(out) + i] = s[i]
        BY <1>1, <1>3
      <4> QED BY <1>2, <1>3, <4>1
    <3> QED BY <1>3, <3>1 DEF Bytes
  <2> QED BY <1>1, <2>1, <2>2, <2>3
<1>8. Ups(t, b)
  BY <1>3, <1>5, <1>6 DEF Ups
<1> QED BY <1>1, <1>3, <1>7, <1>8 DEF s, t

(* Bytes that follow one another join.                                      *)
LEMMA SpanJoin ==
  ASSUME NEW a \in Nat, NEW b \in Nat, NEW c \in Nat, a <= b, b <= c
  PROVE  Span(a, b) \o Span(b, c) = Span(a, c)
<1> DEFINE s == Span(a, b)
           t == Span(b, c)
           u == Span(a, c)
           v == s \o t
<1>1. s \in Seq(Nat) /\ Len(s) = b - a /\ \A i \in 1..(b - a) : s[i] = a + i - 1
  BY SpanMeans
<1>2. t \in Seq(Nat) /\ Len(t) = c - b /\ \A i \in 1..(c - b) : t[i] = b + i - 1
  BY SpanMeans
<1>3. u \in Seq(Nat) /\ Len(u) = c - a /\ \A i \in 1..(c - a) : u[i] = a + i - 1
  BY SpanMeans
<1> HIDE DEF s, t, u
<1>4. /\ v \in Seq(Nat) /\ Len(v) = Len(s) + Len(t)
      /\ \A i \in 1..Len(s) : v[i] = s[i]
      /\ \A i \in 1..Len(t) : v[Len(s) + i] = t[i]
  BY <1>1, <1>2, JoinedBytes
<1> HIDE DEF v
<1>5. Len(v) = c - a
  BY <1>1, <1>2, <1>4
<1>6. \A i \in 1..(c - a) : v[i] = u[i]
  <2> SUFFICES ASSUME NEW i \in 1..(c - a) PROVE v[i] = a + i - 1
    BY <1>3
  <2>1. CASE i <= b - a
    BY <1>1, <1>4, <2>1
  <2>2. CASE i > b - a
    <3>1. i - (b - a) \in 1..(c - b) /\ (b - a) + (i - (b - a)) = i /\ b + (i - (b - a)) - 1 = a + i - 1
      BY <2>2
    <3>2. PICK j \in 1..(c - b) : (b - a) + j = i /\ b + j - 1 = a + i - 1
      BY <3>1
    <3>3. v[Len(s) + j] = t[j] /\ t[j] = b + j - 1
      BY <1>2, <1>4
    <3> QED BY <1>1, <3>2, <3>3
  <2>3. i <= b - a \/ i > b - a
    OBVIOUS
  <2> QED BY <2>1, <2>2, <2>3
<1>7. v = u
  BY <1>3, <1>4, <1>5, <1>6, SeqEqual
<1> QED BY <1>7 DEF v, s, t, u

Later(a, b) == IF a < b THEN b ELSE a

(* What draining and flushing do with one segment, by places.               *)
Drained(start, m, n, keep) == [next |-> Nr(start, n), out |-> Span(m, n), keep |-> keep]

(* A segment beyond the place waited for is kept, another is given out from *)
(* there on.                                                                *)
LEMMA DrainPiece ==
  ASSUME NEW start \in Nat, NEW m \in 0..Half, NEW n \in 0..Half, m <= n,
         NEW a \in 0..Half, NEW b \in 0..Half, a < b, NEW keep
  PROVE  LET s == Piece(start, a, b) IN
         /\ a > n => DrainOne(Drained(start, m, n, keep), s) = Drained(start, m, n, Append(keep, s))
         /\ a <= n => DrainOne(Drained(start, m, n, keep), s) = Drained(start, m, Later(n, b), keep)
<1> DEFINE s == Piece(start, a, b)
           acc == Drained(start, m, n, keep)
<1>h. Half \in Nat
  BY HalfOf
<1>1. s.seq = Nr(start, a) /\ s.data = Span(a, b) /\ EndSeq(s) = Nr(start, b)
  BY PieceMeans
<1>2. acc.next = Nr(start, n) /\ acc.out = Span(m, n) /\ acc.keep = keep
  BY DEF Drained
<1>3. /\ SeqLe(s.seq, acc.next) <=> a <= n
      /\ SeqGt(EndSeq(s), acc.next) <=> b > n
      /\ a <= n => Ahead(acc.next, s.seq) = n - a
  BY <1>1, <1>2, Compared
<1>4. CASE a > n
  <2>1. DrainOne(acc, s) = [acc EXCEPT !.keep = Append(@, s)]
    BY <1>3, <1>4, <1>h DEF DrainOne
  <2>2. [acc EXCEPT !.keep = Append(@, s)] = Drained(start, m, n, Append(keep, s))
    <3>1. \A w : [acc EXCEPT !.keep = w] = Drained(start, m, n, w)
      BY DEF Drained
    <3>2. [acc EXCEPT !.keep = Append(@, s)] = [acc EXCEPT !.keep = Append(acc.keep, s)]
      OBVIOUS
    <3> QED BY <1>2, <3>1, <3>2
  <2> QED BY <1>4, <1>h, <2>1, <2>2
<1>5. CASE a <= n /\ b > n
  <2>1. DrainOne(acc, s) = [acc EXCEPT !.out = @ \o From(s.data, Ahead(acc.next, s.seq)), !.next = EndSeq(s)]
    BY <1>3, <1>5 DEF DrainOne
  <2>2. From(s.data, Ahead(acc.next, s.seq)) = Span(n, b)
    BY <1>1, <1>3, <1>5, <1>h, SpanFrom
  <2>3. Span(m, n) \o Span(n, b) = Span(m, b)
    <3>1. m \in Nat /\ n \in Nat /\ b \in Nat /\ m <= n /\ n <= b
      BY <1>5, <1>h
    <3> QED BY <3>1, SpanJoin
  <2>4. DrainOne(acc, s) = Drained(start, m, b, keep)
    BY <1>1, <2>1, <2>2, <2>3 DEF Drained
  <2>5. Later(n, b) = b /\ ~(a > n)
    BY <1>5, <1>h DEF Later
  <2> QED BY <1>5, <2>4, <2>5
<1>6. CASE a <= n /\ b <= n
  <2>1. DrainOne(acc, s) = acc
    BY <1>3, <1>6, <1>h DEF DrainOne
  <2>2. Later(n, b) = n /\ ~(a > n)
    BY <1>6, <1>h DEF Later
  <2> QED BY <1>6, <2>1, <2>2
<1>7. a > n \/ (a <= n /\ b > n) \/ (a <= n /\ b <= n)
  BY <1>h
<1> QED BY <1>4, <1>5, <1>6, <1>7

(* The nearest of at most two segments comes first.                         *)
LEMMA SortedFew ==
  ASSUME NEW next \in Int
  PROVE  /\ ByDistance(<<>>, next) = <<>>
         /\ \A x : x.seq \in Int => ByDistance(<<x>>, next) = <<x>>
         /\ \A x, y : x.seq \in Int /\ y.seq \in Int =>
              ByDistance(<<x, y>>, next) = IF Ahead(y.seq, next) < Ahead(x.seq, next) THEN <<y, x>> ELSE <<x, y>>
<1> DEFINE Far(q, i) == Ahead(q[i].seq, next)
           Sooner(q, i) == {j \in DOMAIN q : Far(q, j) < Far(q, i) \/ (Far(q, j) = Far(q, i) /\ j < i)}
           Nth(q, n) == CHOOSE i \in DOMAIN q : Cardinality(Sooner(q, i)) = n - 1
<1>0. \A q : ByDistance(q, next) = [n \in DOMAIN q |-> q[Nth(q, n)]]
  BY DEF ByDistance
<1>a. \A x \in Int : Ahead(x, next) \in Int
  BY StreamAssumption DEF Ahead
<1>c. Cardinality({}) = 0 /\ Cardinality({1}) = 1 /\ Cardinality({2}) = 1
  BY FS_EmptySet, FS_Singleton
<1>1. ByDistance(<<>>, next) = <<>>
  <2>1. DOMAIN <<>> = {}
    OBVIOUS
  <2> HIDE DEF Nth
  <2>2. ByDistance(<<>>, next) = [n \in {} |-> <<>>[Nth(<<>>, n)]]
    BY <1>0, <2>1
  <2> QED BY <2>2
<1>2. ASSUME NEW x, x.seq \in Int PROVE ByDistance(<<x>>, next) = <<x>>
  <2> DEFINE q == <<x>>
  <2>1. DOMAIN q = {1} /\ q[1] = x
    OBVIOUS
  <2>s. ByDistance(q, next) = [n \in DOMAIN q |-> q[Nth(q, n)]]
    BY <1>0
  <2>e. q = [n \in {1} |-> x]
    OBVIOUS
  <2> HIDE DEF q
  <2>2. Sooner(q, 1) = {}
    BY <1>a, <1>2, <2>1
  <2> HIDE DEF Sooner
  <2>3. Nth(q, 1) = 1
    BY <1>c, <2>1, <2>2
  <2> HIDE DEF Nth
  <2>4. [n \in {1} |-> q[Nth(q, n)]] = [n \in {1} |-> x]
    BY <2>1, <2>3
  <2>5. ByDistance(q, next) = q
    BY <2>1, <2>s, <2>e, <2>4
  <2> QED BY <2>5 DEF q
<1>3. ASSUME NEW x, NEW y, x.seq \in Int, y.seq \in Int
      PROVE  ByDistance(<<x, y>>, next) = IF Ahead(y.seq, next) < Ahead(x.seq, next) THEN <<y, x>> ELSE <<x, y>>
  <2> DEFINE q == <<x, y>>
             z == IF Ahead(y.seq, next) < Ahead(x.seq, next) THEN <<y, x>> ELSE <<x, y>>
  <2>1. DOMAIN q = {1, 2} /\ q[1] = x /\ q[2] = y
    OBVIOUS
  <2>s. ByDistance(q, next) = [n \in DOMAIN q |-> q[Nth(q, n)]]
    BY <1>0
  <2>z. /\ Ahead(y.seq, next) < Ahead(x.seq, next) => z = [n \in {1, 2} |-> IF n = 1 THEN y ELSE x]
        /\ ~(Ahead(y.seq, next) < Ahead(x.seq, next)) => z = [n \in {1, 2} |-> IF n = 1 THEN x ELSE y]
    OBVIOUS
  <2> HIDE DEF q, z
  <2>t. Ahead(x.seq, next) \in Int /\ Ahead(y.seq, next) \in Int
    BY <1>a, <1>3
  <2>2. CASE Ahead(y.seq, next) < Ahead(x.seq, next)
    <3>1. Sooner(q, 1) = {2} /\ Sooner(q, 2) = {}
      BY <2>1, <2>2, <2>t
    <3> HIDE DEF Sooner
    <3>2. Nth(q, 1) = 2 /\ Nth(q, 2) = 1
      BY <1>c, <2>1, <3>1
    <3> HIDE DEF Nth
    <3>3. [n \in {1, 2} |-> q[Nth(q, n)]] = [n \in {1, 2} |-> IF n = 1 THEN y ELSE x]
      BY <2>1, <3>2
    <3> QED BY <2>1, <2>2, <2>s, <2>z, <3>3 DEF q, z
  <2>3. CASE ~(Ahead(y.seq, next) < Ahead(x.seq, next))
    <3>1. Sooner(q, 1) = {} /\ Sooner(q, 2) = {1}
      BY <2>1, <2>3, <2>t
    <3> HIDE DEF Sooner
    <3>2. Nth(q, 1) = 1 /\ Nth(q, 2) = 2
      BY <1>c, <2>1, <3>1
    <3> HIDE DEF Nth
    <3>3. [n \in {1, 2} |-> q[Nth(q, n)]] = [n \in {1, 2} |-> IF n = 1 THEN x ELSE y]
      BY <2>1, <3>2
    <3> QED BY <2>1, <2>3, <2>s, <2>z, <3>3 DEF q, z
  <2> QED BY <2>2, <2>3
<1> QED BY <1>1, <1>2, <1>3, Zenon

(* A span without places is empty.                                          *)
LEMMA SpanNone == \A m \in Nat : Span(m, m) = <<>>
<1> SUFFICES ASSUME NEW m \in Nat PROVE Span(m, m) = <<>>
  OBVIOUS
<1>1. Span(m, m) \in Seq(Nat) /\ Len(Span(m, m)) = 0
  BY SpanMeans
<1> QED BY <1>1, EmptySeq

(* What a direction yielded up to place n: of the bytes R that came, in the *)
(* order they were sent, all from place low on but those in the holes H.    *)
Yield(out, low, R, H, n) ==
  /\ Ups(out, n) /\ Bytes(out) \subseteq R
  /\ low..(n - 1) \subseteq Bytes(out) \cup H

(* more is out with bytes added at its end.                                 *)
Longer(out, more) == \E s \in Seq(Nat) : more = out \o s

(* It yields on, from m where the next segment begins.                      *)
LEMMA YieldOn ==
  ASSUME NEW out, NEW low \in Nat, NEW R, NEW H, NEW n \in Nat, Yield(out, low, R, H, n),
         NEW Q, NEW G, R \subseteq Q, H \subseteq G,
         NEW m \in Nat, NEW l \in Nat, n <= m, m <= l, m..(l - 1) \subseteq Q, n..(m - 1) \subseteq G
  PROVE  Yield(out \o Span(m, l), low, Q, G, l) /\ Longer(out, out \o Span(m, l))
<1> DEFINE more == out \o Span(m, l)
<1>1. Ups(out, n) /\ Bytes(out) \subseteq R /\ low..(n - 1) \subseteq Bytes(out) \cup H
  BY DEF Yield
<1>2. Ups(more, l) /\ Bytes(more) = Bytes(out) \cup m..(l - 1)
  BY <1>1, UpsOn
<1>3. Span(m, l) \in Seq(Nat)
  BY SpanMeans
<1> HIDE DEF more
<1>4. low..(l - 1) \subseteq low..(n - 1) \cup n..(m - 1) \cup m..(l - 1)
  OBVIOUS
<1>5. low..(l - 1) \subseteq Bytes(more) \cup G
  BY <1>1, <1>2, <1>4, Zenon
<1>6. Bytes(more) \subseteq Q
  BY <1>1, <1>2, Zenon
<1>7. Yield(more, low, Q, G, l)
  BY <1>2, <1>5, <1>6 DEF Yield
<1>8. Longer(out, more)
  BY <1>3 DEF Longer, more
<1> QED BY <1>7, <1>8 DEF more

(* What is held back, of the bytes R that came: at most one segment.        *)
Holding(start, buffer, R, n) ==
  \/ buffer = <<>> /\ \A c \in R : c < n
  \/ \E a, b \in 0..Half :
       /\ a < b /\ buffer = <<Piece(start, a, b)>> /\ a..(b - 1) \subseteq R
       /\ \A c \in R : c < n \/ c \in a..(b - 1)

(* The bytes a gap names.                                                   *)
Holes(start, issue) ==
  IF issue.kind = "gap" THEN {c \in 0..Half : Ahead(Nr(start, c), issue.at) < issue.size} ELSE {}

(* A gap from n to m names the places between.                              *)
LEMMA HolesMean ==
  ASSUME NEW start \in Nat, NEW n \in 0..Half, NEW m \in 0..Half, n <= m
  PROVE  n..(m - 1) \subseteq Holes(start, Issue("gap", Nr(start, n), Ahead(Nr(start, m), Nr(start, n))))
<1> DEFINE issue == Issue("gap", Nr(start, n), Ahead(Nr(start, m), Nr(start, n)))
<1>h. Half \in Nat
  BY HalfOf
<1>1. Ahead(Nr(start, m), Nr(start, n)) = m - n
  BY <1>h, Compared
<1>2. issue.kind = "gap" /\ issue.at = Nr(start, n) /\ issue.size = m - n
  BY <1>1 DEF Issue
<1> HIDE DEF issue
<1>3. ASSUME NEW c \in n..(m - 1) PROVE c \in 0..Half /\ Ahead(Nr(start, c), Nr(start, n)) = c - n /\ c - n < m - n
  <2>1. c \in 0..Half /\ n <= c /\ c - n < m - n
    BY <1>h
  <2> QED BY <2>1, Compared
<1>4. n..(m - 1) \subseteq Holes(start, issue)
  BY <1>2, <1>3 DEF Holes
<1> QED BY <1>4 DEF issue

----------------------------------------------------------------------------
(* Two segments in a row: what is drained is what follows place m.          *)
DrainsTo(start, m, s, l, keep, room) ==
  Drains(Drained(start, m, m, <<>>), s) = Drained(start, m, l, keep) /\ m..(l - 1) \subseteq room

(* Draining one segment that begins in time: the stream goes on to its end. *)
LEMMA DrainOnePiece ==
  ASSUME NEW start \in Nat, NEW m \in 0..Half, NEW a \in 0..Half, NEW b \in 0..Half, a < b, a <= m
  PROVE  \E l \in m..Half : b <= l /\ DrainsTo(start, m, <<Piece(start, a, b)>>, l, <<>>, a..(b - 1))
<1>h. Half \in Nat
  BY HalfOf
<1> DEFINE l == Later(m, b)
           base == Drained(start, m, m, <<>>)
           x == Piece(start, a, b)
<1>1. DrainOne(base, x) = Drained(start, m, l, <<>>)
  BY <1>h, DrainPiece
<1>2. Drains(base, <<x>>) = DrainOne(base, x)
  <2> HIDE DEF base, x
  <2> QED BY DrainFold
<1>3. l \in m..Half /\ b <= l /\ m..(l - 1) \subseteq a..(b - 1)
  BY <1>h DEF Later
<1>4. DrainsTo(start, m, <<x>>, l, <<>>, a..(b - 1))
  BY <1>1, <1>2, <1>3 DEF DrainsTo
<1> HIDE DEF l
<1> QED BY <1>3, <1>4

(* Two segments, the first in time: where the stream gets to, and what it   *)
(* keeps.                                                                   *)
DrainsBoth(start, m, a, b, c, d, l, keep) ==
  /\ DrainsTo(start, m, <<Piece(start, a, b), Piece(start, c, d)>>, l, keep, a..(b - 1) \cup c..(d - 1))
  /\ b <= l /\ keep \in {<<>>, <<Piece(start, c, d)>>} /\ (keep = <<>> => d <= l)

(* Draining two, the first in time: the other follows it or is held back.   *)
LEMMA DrainTwoPieces ==
  ASSUME NEW start \in Nat, NEW m \in 0..Half, NEW a \in 0..Half, NEW b \in 0..Half, a < b, a <= m,
         NEW c \in 0..Half, NEW d \in 0..Half, c < d
  PROVE  \E l \in m..Half : \E keep : DrainsBoth(start, m, a, b, c, d, l, keep)
<1>h. Half \in Nat
  BY HalfOf
<1> DEFINE l == Later(m, b)
           base == Drained(start, m, m, <<>>)
           x == Piece(start, a, b)
           y == Piece(start, c, d)
<1>1. DrainOne(base, x) = Drained(start, m, l, <<>>)
  BY <1>h, DrainPiece
<1>2. Drains(base, <<x, y>>) = DrainOne(DrainOne(base, x), y)
  <2> HIDE DEF base, x, y
  <2>1. \A p, q : <<x, y>> = <<p, q>> => Drains(base, <<x, y>>) = DrainOne(DrainOne(base, p), q)
    BY DrainFold
  <2> QED BY <2>1
<1>3. l \in 0..Half /\ m <= l /\ b <= l /\ (l = m \/ l = b)
  BY <1>h DEF Later
<1> HIDE DEF l
<1>4. /\ c > l => DrainOne(Drained(start, m, l, <<>>), y) = Drained(start, m, l, Append(<<>>, y))
      /\ c <= l => DrainOne(Drained(start, m, l, <<>>), y) = Drained(start, m, Later(l, d), <<>>)
  <2>1. CASE c > l
    <3>1. PICK none : none = <<>>
      OBVIOUS
    <3>2. DrainOne(Drained(start, m, l, none), y) = Drained(start, m, l, Append(none, y))
      BY <1>3, <2>1, DrainPiece, <1>h
    <3> QED BY <1>3, <1>h, <2>1, <3>1, <3>2
  <2>2. CASE c <= l
    BY <1>3, <2>2, DrainPiece, <1>h
  <2>3. c > l \/ c <= l
    BY <1>3, <1>h
  <2> QED BY <1>3, <2>1, <2>2, <2>3, <1>h
<1>5. CASE c > l
  <2>1. Append(<<>>, y) = <<y>>
    OBVIOUS
  <2>2. l \in m..Half /\ m..(l - 1) \subseteq a..(b - 1) \cup c..(d - 1) /\ <<y>> # <<>>
    BY <1>3, <1>h
  <2>3. Drains(base, <<x, y>>) = Drained(start, m, l, <<y>>)
    BY <1>1, <1>2, <1>4, <1>5, <2>1
  <2>4. DrainsTo(start, m, <<x, y>>, l, <<y>>, a..(b - 1) \cup c..(d - 1))
    BY <2>2, <2>3 DEF DrainsTo
  <2>5. <<y>> \in {<<>>, <<Piece(start, c, d)>>}
    OBVIOUS
  <2>6. l \in m..Half /\ DrainsBoth(start, m, a, b, c, d, l, <<y>>)
    BY <1>3, <2>2, <2>4, <2>5 DEF DrainsBoth
  <2> QED BY <2>6
<1>6. CASE ~(c > l)
  <2>1. Later(l, d) \in m..Half /\ b <= Later(l, d) /\ d <= Later(l, d)
    BY <1>3, <1>h DEF Later
  <2>2. m..(Later(l, d) - 1) \subseteq a..(b - 1) \cup c..(d - 1)
    BY <1>3, <1>6, <1>h DEF Later
  <2>3. Drains(base, <<x, y>>) = Drained(start, m, Later(l, d), <<>>)
    BY <1>1, <1>2, <1>3, <1>4, <1>6, <1>h
  <2>4. DrainsTo(start, m, <<x, y>>, Later(l, d), <<>>, a..(b - 1) \cup c..(d - 1))
    BY <2>2, <2>3 DEF DrainsTo
  <2>5. DrainsBoth(start, m, a, b, c, d, Later(l, d), <<>>)
    BY <2>1, <2>4 DEF DrainsBoth
  <2> QED BY <2>1, <2>5
<1> QED BY <1>5, <1>6

(***************************************************************************)
(* One stream.  A stream is sound when what it yielded is what came, in    *)
(* the order it was sent, but for the bytes the gaps it told of name, and  *)
(* when whatever came and was not yielded yet is held back.  Drain,        *)
(* FeedStream and FlushStream keep it sound.                               *)
(***************************************************************************)

(* How many findings a stream counts.                                       *)
Findings(st) == st.gaps + st.retransmissions + st.overlaps
(* The fields of a stream, and what they count.                             *)
StreamShape(st) ==
  /\ st = [base |-> st.base, next |-> st.next, buffer |-> st.buffer, out |-> st.out, segments |-> st.segments,
           gaps |-> st.gaps, retransmissions |-> st.retransmissions, overlaps |-> st.overlaps]
  /\ st.segments \in Nat /\ st.gaps \in Nat /\ st.retransmissions \in Nat /\ st.overlaps \in Nat

(* A stream that waits for place n, has yielded what came before it, but    *)
(* the holes H, and holds the rest back.                                    *)
Sound(start, st, low, R, H) ==
  \E n \in low..Half : st.next = Nr(start, n) /\ Yield(st.out, low, R, H, n) /\ Holding(start, st.buffer, R, n)

(* What a drain leads to, and what a step does to a stream.                 *)
Result(start, st, hole, n, m, l, keep) ==
  [st |-> [st EXCEPT !.buffer = keep, !.next = Nr(start, l), !.out = @ \o Span(m, l), !.gaps = IF hole THEN @ + 1 ELSE @],
   issue |-> IF hole THEN Issue("gap", Nr(start, n), Ahead(Nr(start, m), Nr(start, n))) ELSE NoIssue]

(* A step of a stream that leaves it sound, yields on and counts what it    *)
(* finds.                                                                   *)
Steps(start, st, fed, low, R, H) ==
  /\ StreamShape(fed.st) /\ Sound(start, fed.st, low, R, H \cup Holes(start, fed.issue))
  /\ Longer(st.out, fed.st.out) /\ fed.st.segments = st.segments
  /\ Findings(fed.st) = Findings(st) + (IF fed.issue.kind = "none" THEN 0 ELSE 1)

(* A drain that does not wait, put in terms of the places it goes over.     *)
LEMMA DrainRuns ==
  ASSUME NEW start \in Nat, NEW st, NEW n \in 0..Half, st.next = Nr(start, n),
         NEW s, s = ByDistance(st.buffer, st.next), s # <<>>, NEW a \in 0..Half, s[1].seq = Nr(start, a),
         NEW m, m = Later(n, a), ~(a > n /\ Len(s) < 2 /\ Len(s) < ReorderLimit),
         NEW l, NEW keep, Drains(Drained(start, m, m, <<>>), s) = Drained(start, m, l, keep)
  PROVE  Drain(st) = Result(start, st, a > n, n, m, l, keep)
<1>h. Half \in Nat
  BY HalfOf
<1> DEFINE hole == s # <<>> /\ SeqGt(s[1].seq, st.next)
           base == [next |-> IF hole THEN s[1].seq ELSE st.next, out |-> <<>>, keep |-> <<>>]
           done == FoldLeft(DrainOne, base, s)
<1>1. hole <=> a > n
  BY Compared
<1>2. m \in Nat /\ (IF a > n THEN m = a ELSE m = n)
  BY <1>h DEF Later
<1>3. base = Drained(start, m, m, <<>>)
  <2>1. Span(m, m) = <<>>
    BY <1>2, SpanNone
  <2>2. (IF hole THEN s[1].seq ELSE st.next) = Nr(start, m)
    BY <1>1, <1>2
  <2> QED BY <2>1, <2>2 DEF Drained
<1>4. done = Drained(start, m, l, keep)
  BY <1>3 DEF Drains
<1>5. done.next = Nr(start, l) /\ done.out = Span(m, l) /\ done.keep = keep
  BY <1>4 DEF Drained
<1>6. Drain(st) = [st |-> [st EXCEPT !.buffer = done.keep, !.next = done.next, !.out = @ \o done.out,
                                    !.gaps = IF hole THEN @ + 1 ELSE @],
                   issue |-> IF hole THEN Issue("gap", st.next, Ahead(s[1].seq, st.next)) ELSE NoIssue]
  <2>1. ~(hole /\ Len(s) < 2 /\ Len(s) < ReorderLimit)
    BY <1>1
  <2> QED BY <2>1 DEF Drain
<1> HIDE DEF hole, done
<1>7. Drain(st) = [st |-> [st EXCEPT !.buffer = keep, !.next = Nr(start, l), !.out = @ \o Span(m, l),
                                    !.gaps = IF a > n THEN @ + 1 ELSE @],
                   issue |-> IF a > n THEN Issue("gap", Nr(start, n), Ahead(Nr(start, m), Nr(start, n))) ELSE NoIssue]
  <2>1. CASE a > n
    <3>1. hole /\ m = a
      BY <1>1, <1>2, <2>1
    <3> QED BY <1>5, <1>6, <2>1, <3>1
  <2>2. CASE ~(a > n)
    <3>1. ~hole
      BY <1>1, <2>2
    <3> QED BY <1>5, <1>6, <2>2, <3>1
  <2> QED BY <2>1, <2>2
<1> QED BY <1>7 DEF Result

(* A drain without segments.                                                *)
LEMMA DrainNone ==
  ASSUME NEW start \in Nat, NEW st, NEW n \in 0..Half, st.next = Nr(start, n), st.buffer = <<>>
  PROVE  Drain(st) = Result(start, st, FALSE, n, n, n, <<>>)
<1>h. Half \in Nat
  BY HalfOf
<1> DEFINE s == ByDistance(st.buffer, st.next)
           base == [next |-> Nr(start, n), out |-> <<>>, keep |-> <<>>]
           done == FoldLeft(DrainOne, base, s)
<1>1. s = <<>>
  <2>1. Nr(start, n) \in Int
    BY <1>h, Numbers
  <2> QED BY <2>1, SortedFew
<1>2. done = base
  <2> HIDE DEF base, s
  <2>1. Drains(base, s) = base
    BY <1>1, DrainFold
  <2> QED BY <2>1 DEF Drains
<1>3. Span(n, n) = <<>>
  BY <1>h, SpanNone
<1> HIDE DEF s
<1>4. Drain(st) = [st |-> [st EXCEPT !.buffer = done.keep, !.next = done.next, !.out = @ \o done.out, !.gaps = @],
                   issue |-> NoIssue]
  <2>1. ~(s # <<>> /\ SeqGt(s[1].seq, st.next))
    BY <1>1
  <2> QED BY <2>1 DEF Drain, s
<1>5. done.next = Nr(start, n) /\ done.out = <<>> /\ done.keep = <<>>
  BY <1>2
<1> HIDE DEF done
<1> QED BY <1>3, <1>4, <1>5 DEF Result

(* A drain of one segment: it is waited for, or nothing is held any more.   *)
LEMMA DrainSingle ==
  ASSUME NEW start \in Nat, NEW st, NEW n \in 0..Half, st.next = Nr(start, n),
         NEW a \in 0..Half, NEW b \in 0..Half, a < b, st.buffer = <<Piece(start, a, b)>>
  PROVE  \/ a > n /\ Drain(st) = [st |-> [st EXCEPT !.buffer = <<Piece(start, a, b)>>], issue |-> NoIssue]
         \/ \E l \in Later(n, a)..Half :
              /\ Drain(st) = Result(start, st, a > n, n, Later(n, a), l, <<>>)
              /\ b <= l /\ Later(n, a)..(l - 1) \subseteq a..(b - 1)
<1>h. Half \in Nat
  BY HalfOf
<1> DEFINE x == Piece(start, a, b)
           s == ByDistance(st.buffer, st.next)
           m == Later(n, a)
<1>0. x.seq = Nr(start, a)
  BY PieceMeans
<1>1. s = <<x>>
  <2>1. Nr(start, n) \in Int /\ Nr(start, a) \in Int
    BY <1>h, Numbers
  <2> HIDE DEF x
  <2> QED BY <1>0, <2>1, SortedFew DEF x
<1>2. s # <<>> /\ s[1].seq = Nr(start, a) /\ Len(s) = 1
  <2> HIDE DEF x, s
  <2> QED BY <1>0, <1>1
<1>3. CASE a > n /\ Len(s) < 2 /\ Len(s) < ReorderLimit
  <2>1. s # <<>> /\ SeqGt(s[1].seq, st.next)
    BY <1>2, <1>3, Compared
  <2>2. Drain(st) = [st |-> [st EXCEPT !.buffer = s], issue |-> NoIssue]
    BY <1>3, <2>1 DEF Drain
  <2> QED BY <1>1, <1>3, <2>2
<1>4. CASE ~(a > n /\ Len(s) < 2 /\ Len(s) < ReorderLimit)
  <2>1. m \in 0..Half /\ a <= m
    BY <1>h DEF Later
  <2>2. PICK l \in m..Half :
          b <= l /\ DrainsTo(start, m, <<x>>, l, <<>>, a..(b - 1))
    <3> HIDE DEF m
    <3> QED BY <2>1, DrainOnePiece
  <2>3. Drain(st) = Result(start, st, a > n, n, m, l, <<>>)
    <3>1. Drains(Drained(start, m, m, <<>>), s) = Drained(start, m, l, <<>>)
      BY <1>1, <2>2 DEF DrainsTo
    <3> HIDE DEF s
    <3> QED BY <1>2, <1>4, <3>1, DrainRuns DEF s
  <2> QED BY <2>2, <2>3 DEF DrainsTo
<1> QED BY <1>3, <1>4

(* A drain of two, the nearer one first: the other may be held back.        *)
LEMMA DrainSorted ==
  ASSUME NEW start \in Nat, NEW st, NEW n \in 0..Half, st.next = Nr(start, n),
         NEW a \in 0..Half, NEW b \in 0..Half, a < b, NEW c \in 0..Half, NEW d \in 0..Half, c < d,
         ByDistance(st.buffer, st.next) = <<Piece(start, a, b), Piece(start, c, d)>>
  PROVE  \E l \in Later(n, a)..Half : \E keep :
           DrainsBoth(start, Later(n, a), a, b, c, d, l, keep) /\ Drain(st) = Result(start, st, a > n, n, Later(n, a), l, keep)
<1>h. Half \in Nat
  BY HalfOf
<1> DEFINE x == Piece(start, a, b)
           y == Piece(start, c, d)
           s == ByDistance(st.buffer, st.next)
           m == Later(n, a)
<1>0. x.seq = Nr(start, a)
  BY PieceMeans
<1>1. s = <<x, y>>
  OBVIOUS
<1>2. s # <<>> /\ s[1].seq = Nr(start, a) /\ Len(s) = 2
  <2> HIDE DEF x, y, s
  <2> QED BY <1>0, <1>1
<1>3. m \in 0..Half /\ a <= m
  BY <1>h DEF Later
<1>4. PICK l \in m..Half : \E keep : DrainsBoth(start, m, a, b, c, d, l, keep)
  <2> HIDE DEF m
  <2> QED BY <1>3, DrainTwoPieces
<1>p. PICK keep : DrainsBoth(start, m, a, b, c, d, l, keep)
  BY <1>4
<1>5. Drain(st) = Result(start, st, a > n, n, m, l, keep)
  <2>1. Drains(Drained(start, m, m, <<>>), s) = Drained(start, m, l, keep)
    BY <1>1, <1>p DEF DrainsTo, DrainsBoth
  <2>2. ~(a > n /\ Len(s) < 2 /\ Len(s) < ReorderLimit)
    BY <1>2
  <2>3. s = ByDistance(st.buffer, st.next) /\ m = Later(n, a)
    OBVIOUS
  <2> HIDE DEF s, m
  <2> QED BY <1>2, <2>1, <2>2, <2>3, DrainRuns
<1> QED BY <1>p, <1>5

(* A stream that runs on after a hole that was told, or without one, is     *)
(* sound.                                                                   *)
LEMMA ResultSteps ==
  ASSUME NEW start \in Nat, NEW st, StreamShape(st), NEW low \in Nat, NEW R, NEW H, NEW n \in low..Half,
         Yield(st.out, low, R, H, n), NEW hole \in BOOLEAN, NEW m \in n..Half, ~hole => m = n,
         NEW l \in m..Half, m..(l - 1) \subseteq R, NEW keep, Holding(start, keep, R, l)
  PROVE  Steps(start, st, Result(start, st, hole, n, m, l, keep), low, R, H)
<1>h. Half \in Nat
  BY HalfOf
<1> DEFINE fed == Result(start, st, hole, n, m, l, keep)
           issue == IF hole THEN Issue("gap", Nr(start, n), Ahead(Nr(start, m), Nr(start, n))) ELSE NoIssue
           G == H \cup Holes(start, issue)
           more == st.out \o Span(m, l)
<1>1. fed.issue = issue
  BY DEF Result
<1>2. fed.st = [base |-> st.base, next |-> Nr(start, l), buffer |-> keep, out |-> more, segments |-> st.segments,
                gaps |-> IF hole THEN st.gaps + 1 ELSE st.gaps,
                retransmissions |-> st.retransmissions, overlaps |-> st.overlaps]
  BY DEF Result, StreamShape
<1>3. n..(m - 1) \subseteq G
  <2>1. CASE hole
    <3>1. n \in 0..Half /\ m \in 0..Half /\ n <= m
      BY <1>h
    <3> QED BY <2>1, <3>1, HolesMean
  <2>2. CASE ~hole
    <3>1. n..(m - 1) = {}
      BY <2>2
    <3> QED BY <3>1
  <2> QED BY <2>1, <2>2
<1>4. Yield(more, low, R, G, l) /\ Longer(st.out, more)
  <2>1. n \in Nat /\ m \in Nat /\ l \in Nat /\ n <= m /\ m <= l
    BY <1>h
  <2>2. R \subseteq R /\ H \subseteq G
    OBVIOUS
  <2> HIDE DEF G, more
  <2> QED BY <1>3, <2>1, <2>2, YieldOn DEF more
<1> HIDE DEF fed, more, G
<1>5. Sound(start, fed.st, low, R, G)
  <2>1. l \in low..Half /\ fed.st.next = Nr(start, l) /\ fed.st.out = more /\ fed.st.buffer = keep
    BY <1>2, <1>h
  <2> QED BY <1>4, <2>1 DEF Sound
<1>6. issue.kind = IF hole THEN "gap" ELSE "none"
  BY DEF Issue, NoIssue
<1> HIDE DEF issue
<1>7. StreamShape(fed.st) /\ fed.st.segments = st.segments
  BY <1>2 DEF StreamShape
<1>8. Findings(fed.st) = Findings(st) + (IF fed.issue.kind = "none" THEN 0 ELSE 1)
  <2>1. fed.st.gaps = (IF hole THEN st.gaps + 1 ELSE st.gaps) /\ fed.st.retransmissions = st.retransmissions
        /\ fed.st.overlaps = st.overlaps
    BY <1>2
  <2>2. fed.issue.kind = IF hole THEN "gap" ELSE "none"
    BY <1>1, <1>6
  <2>3. st.gaps \in Nat /\ st.retransmissions \in Nat /\ st.overlaps \in Nat
    BY DEF StreamShape
  <2> QED BY <2>1, <2>2, <2>3 DEF Findings
<1>9. Longer(st.out, fed.st.out)
  BY <1>2, <1>4
<1>10. Sound(start, fed.st, low, R, H \cup Holes(start, fed.issue))
  BY <1>1, <1>5 DEF G
<1> QED BY <1>7, <1>8, <1>9, <1>10 DEF Steps, fed

(* A stream that waits is what it was.                                      *)
LEMMA WaitSteps ==
  ASSUME NEW start, NEW st, StreamShape(st), NEW low, NEW R, NEW H, Sound(start, st, low, R, H)
  PROVE  Steps(start, st, [st |-> st, issue |-> NoIssue], low, R, H)
<1>1. Holes(start, NoIssue) = {}
  BY DEF Holes, NoIssue
<1>2. H \cup Holes(start, NoIssue) = H
  BY <1>1
<1>3. st.out \in Seq(Nat)
  BY DEF Sound, Yield, Ups
<1>4. Longer(st.out, st.out)
  <2>1. <<>> \in Seq(Nat) /\ st.out = st.out \o <<>>
    BY <1>3
  <2> QED BY <2>1, Zenon DEF Longer
<1>5. NoIssue.kind = "none"
  BY DEF NoIssue
<1>6. Findings(st) = Findings(st) + 0
  BY DEF Findings, StreamShape
<1> QED BY <1>2, <1>4, <1>5, <1>6 DEF Steps

(* Two segments are held: all bytes that came lie before n or in them.      *)
Both(start, R, n, a, b, c, d) ==
  /\ a < b /\ c < d /\ a..(b - 1) \subseteq R /\ c..(d - 1) \subseteq R
  /\ \A e \in R : e < n \/ e \in a..(b - 1) \/ e \in c..(d - 1)

(* A drain of two segments, the nearer one first, leaves the stream sound.  *)
LEMMA SortedSteps ==
  ASSUME NEW start \in Nat, NEW st, StreamShape(st), NEW low \in Nat, NEW R, NEW H, NEW n \in low..Half,
         Yield(st.out, low, R, H, n), st.next = Nr(start, n), R \subseteq Nat,
         NEW a \in 0..Half, NEW b \in 0..Half, NEW c \in 0..Half, NEW d \in 0..Half, Both(start, R, n, a, b, c, d),
         ByDistance(st.buffer, st.next) = <<Piece(start, a, b), Piece(start, c, d)>>
  PROVE  Steps(start, st, Drain(st), low, R, H)
<1>h. Half \in Nat /\ n \in 0..Half
  BY HalfOf
<1> DEFINE m == Later(n, a)
<1>1. a < b /\ c < d /\ a..(b - 1) \subseteq R /\ c..(d - 1) \subseteq R
  BY DEF Both
<1>2. \A e \in R : e < n \/ e \in a..(b - 1) \/ e \in c..(d - 1)
  BY DEF Both
<1>3. PICK l \in m..Half : \E keep :
        DrainsBoth(start, m, a, b, c, d, l, keep) /\ Drain(st) = Result(start, st, a > n, n, m, l, keep)
  BY <1>1, <1>h, DrainSorted
<1>4. PICK keep : DrainsBoth(start, m, a, b, c, d, l, keep) /\ Drain(st) = Result(start, st, a > n, n, m, l, keep)
  BY <1>3
<1>5. m \in n..Half /\ (~(a > n) => m = n)
  BY <1>h DEF Later
<1>6. b <= l /\ keep \in {<<>>, <<Piece(start, c, d)>>} /\ (keep = <<>> => d <= l) /\ m..(l - 1) \subseteq R
  BY <1>1, <1>4 DEF DrainsBoth, DrainsTo
<1>l. l \in Nat /\ l \in m..Half /\ n <= l
  BY <1>5, <1>h
<1> HIDE DEF m
<1>7. Holding(start, keep, R, l)
  <2>1. CASE keep = <<>>
    <3>1. \A e \in R : e < l
      <4> SUFFICES ASSUME NEW e \in R PROVE e < l
        OBVIOUS
      <4>1. e \in Nat /\ d <= l
        BY <1>6, <2>1
      <4> QED BY <1>2, <1>6, <1>l, <1>h, <4>1
    <3> QED BY <2>1, <3>1 DEF Holding
  <2>2. CASE keep = <<Piece(start, c, d)>>
    <3>1. \A e \in R : e < l \/ e \in c..(d - 1)
      <4> SUFFICES ASSUME NEW e \in R PROVE e < l \/ e \in c..(d - 1)
        OBVIOUS
      <4>1. e \in Nat
        OBVIOUS
      <4> QED BY <1>2, <1>6, <1>l, <1>h, <4>1
    <3> QED BY <1>1, <2>2, <3>1 DEF Holding
  <2> QED BY <1>6, <2>1, <2>2
<1>8. Steps(start, st, Result(start, st, a > n, n, m, l, keep), low, R, H)
  <2>1. (a > n) \in BOOLEAN /\ m \in n..Half /\ l \in m..Half /\ m..(l - 1) \subseteq R
    BY <1>5, <1>6, <1>l
  <2>2. ~(a > n) => m = n
    BY <1>5
  <2> QED BY <1>7, <2>1, <2>2, ResultSteps
<1> QED BY <1>4, <1>8

(* A drain of two segments, in the order they came, leaves the stream       *)
(* sound.                                                                   *)
LEMMA TwoSteps ==
  ASSUME NEW start \in Nat, NEW st, StreamShape(st), NEW low \in Nat, NEW R, NEW H, NEW n \in low..Half,
         Yield(st.out, low, R, H, n), st.next = Nr(start, n), R \subseteq Nat,
         NEW a \in 0..Half, NEW b \in 0..Half, NEW c \in 0..Half, NEW d \in 0..Half, Both(start, R, n, a, b, c, d),
         st.buffer = <<Piece(start, a, b), Piece(start, c, d)>>
  PROVE  Steps(start, st, Drain(st), low, R, H)
<1>h. Half \in Nat
  BY HalfOf
<1> DEFINE x == Piece(start, a, b)
           y == Piece(start, c, d)
<1>0. x.seq \in Int /\ y.seq \in Int /\ st.next \in Int
  <2>1. Nr(start, a) \in Int /\ Nr(start, c) \in Int /\ Nr(start, n) \in Int
    BY <1>h, Numbers
  <2>2. x.seq = Nr(start, a) /\ y.seq = Nr(start, c)
    BY DEF Piece
  <2> QED BY <2>1, <2>2
<1>1. ByDistance(st.buffer, st.next) = <<x, y>> \/ ByDistance(st.buffer, st.next) = <<y, x>>
  <2> HIDE DEF x, y
  <2>1. ByDistance(<<x, y>>, st.next) = IF Ahead(y.seq, st.next) < Ahead(x.seq, st.next) THEN <<y, x>> ELSE <<x, y>>
    BY <1>0, SortedFew
  <2> QED BY <2>1 DEF x, y
<1>2. CASE ByDistance(st.buffer, st.next) = <<x, y>>
  BY <1>2, SortedSteps
<1>3. CASE ByDistance(st.buffer, st.next) = <<y, x>>
  <2>1. Both(start, R, n, c, d, a, b)
    BY DEF Both
  <2> QED BY <1>3, <2>1, SortedSteps
<1> QED BY <1>1, <1>2, <1>3

(* A drain of what a sound stream may hold leaves it sound.                 *)
LEMMA HeldSteps ==
  ASSUME NEW start \in Nat, NEW st, StreamShape(st), NEW low \in Nat, NEW R, NEW H, NEW n \in low..Half,
         Yield(st.out, low, R, H, n), st.next = Nr(start, n), R \subseteq Nat, Holding(start, st.buffer, R, n)
  PROVE  Steps(start, st, Drain(st), low, R, H)
<1>h. Half \in Nat /\ n \in 0..Half /\ n \in Nat
  BY HalfOf
<1>1. CASE st.buffer = <<>> /\ \A c \in R : c < n
  <2>1. Drain(st) = Result(start, st, FALSE, n, n, n, <<>>)
    BY <1>1, <1>h, DrainNone
  <2>2. Holding(start, <<>>, R, n)
    BY <1>1 DEF Holding
  <2>3. n \in n..Half /\ n..(n - 1) \subseteq R
    BY <1>h
  <2> QED BY <2>1, <2>2, <2>3, ResultSteps
<1>2. ASSUME NEW a \in 0..Half, NEW b \in 0..Half, a < b, st.buffer = <<Piece(start, a, b)>>, a..(b - 1) \subseteq R,
             \A c \in R : c < n \/ c \in a..(b - 1)
      PROVE  Steps(start, st, Drain(st), low, R, H)
  <2> DEFINE m == Later(n, a)
  <2>1. CASE a > n /\ Drain(st) = [st |-> [st EXCEPT !.buffer = <<Piece(start, a, b)>>], issue |-> NoIssue]
    <3>1. [st EXCEPT !.buffer = <<Piece(start, a, b)>>] = st
      BY <1>2 DEF StreamShape
    <3>2. Sound(start, st, low, R, H)
      BY DEF Sound
    <3> QED BY <2>1, <3>1, <3>2, WaitSteps
  <2>2. ASSUME NEW l \in m..Half, Drain(st) = Result(start, st, a > n, n, m, l, <<>>),
               b <= l, m..(l - 1) \subseteq a..(b - 1)
        PROVE  Steps(start, st, Drain(st), low, R, H)
    <3>1. m \in n..Half /\ (~(a > n) => m = n)
      BY <1>h DEF Later
    <3>l. l \in Nat /\ n <= l
      BY <1>h, <3>1
    <3> HIDE DEF m
    <3>2. Holding(start, <<>>, R, l)
      <4>1. \A e \in R : e < l
        <5> SUFFICES ASSUME NEW e \in R PROVE e < l
          OBVIOUS
        <5>1. e \in Nat
          OBVIOUS
        <5> QED BY <1>2, <2>2, <1>h, <3>l, <5>1
      <4> QED BY <4>1 DEF Holding
    <3>3. (a > n) \in BOOLEAN /\ m \in n..Half /\ l \in m..Half /\ m..(l - 1) \subseteq R
      BY <1>2, <2>2, <3>1
    <3>4. ~(a > n) => m = n
      BY <3>1
    <3> QED BY <2>2, <3>2, <3>3, <3>4, ResultSteps
  <2>3. \/ a > n /\ Drain(st) = [st |-> [st EXCEPT !.buffer = <<Piece(start, a, b)>>], issue |-> NoIssue]
        \/ \E l \in m..Half :
              /\ Drain(st) = Result(start, st, a > n, n, m, l, <<>>)
              /\ b <= l /\ m..(l - 1) \subseteq a..(b - 1)
    BY <1>2, <1>h, DrainSingle
  <2> HIDE DEF m
  <2> QED BY <2>1, <2>2, <2>3
<1> QED BY <1>1, <1>2 DEF Holding

(* What is held back stays so while the stream moves on.                    *)
LEMMA HoldsOn ==
  ASSUME NEW start, NEW buffer, NEW R, NEW n \in Nat, NEW l \in Nat, n <= l, Holding(start, buffer, R, n),
         NEW Q, R \subseteq Q, Q \subseteq Nat, \A e \in Q : e \in R \/ e < l
  PROVE  Holding(start, buffer, Q, l)
<1>1. CASE buffer = <<>> /\ \A c \in R : c < n
  <2>1. \A e \in Q : e < l
    <3> SUFFICES ASSUME NEW e \in Q PROVE e < l
      OBVIOUS
    <3>1. e \in Nat
      OBVIOUS
    <3> QED BY <1>1, <3>1
  <2> QED BY <1>1, <2>1 DEF Holding
<1>2. ASSUME NEW a \in 0..Half, NEW b \in 0..Half, a < b, buffer = <<Piece(start, a, b)>>, a..(b - 1) \subseteq R,
             \A c \in R : c < n \/ c \in a..(b - 1)
      PROVE  Holding(start, buffer, Q, l)
  <2>1. \A e \in Q : e < l \/ e \in a..(b - 1)
    <3> SUFFICES ASSUME NEW e \in Q PROVE e < l \/ e \in a..(b - 1)
      OBVIOUS
    <3>1. e \in Nat
      OBVIOUS
    <3> QED BY <1>2, <3>1
  <2>2. a..(b - 1) \subseteq Q
    BY <1>2
  <2> QED BY <1>2, <2>1, <2>2 DEF Holding
<1> QED BY <1>1, <1>2 DEF Holding

(* One element after another makes two.                                     *)
LEMMA Appended == \A x, y : Append(<<x>>, y) = <<x, y>>
<1> SUFFICES ASSUME NEW x, NEW y PROVE Append(<<x>>, y) = <<x, y>>
  OBVIOUS
<1>1. <<x>> \in Seq({x, y}) /\ Len(<<x>>) = 1 /\ <<x>>[1] = x
  OBVIOUS
<1>2. <<x, y>> \in Seq({x, y}) /\ Len(<<x, y>>) = 2 /\ <<x, y>>[1] = x /\ <<x, y>>[2] = y
  OBVIOUS
<1>3. Append(<<x>>, y) \in Seq({x, y}) /\ Len(Append(<<x>>, y)) = 2 /\ Append(<<x>>, y)[1] = x /\ Append(<<x>>, y)[2] = y
  BY <1>1, AppendProperties
<1>4. \A i \in 1..2 : Append(<<x>>, y)[i] = <<x, y>>[i]
  BY <1>2, <1>3
<1> QED BY <1>2, <1>3, <1>4, SeqEqual

(* Bytes are only ever added at the end, over two steps as over one.        *)
LEMMA LongerStill ==
  ASSUME NEW out \in Seq(Nat), NEW more, NEW most, Longer(out, more), Longer(more, most)
  PROVE  Longer(out, most)
<1>1. PICK s \in Seq(Nat) : more = out \o s
  BY DEF Longer
<1>2. PICK t \in Seq(Nat) : most = more \o t
  BY DEF Longer
<1>3. s \o t \in Seq(Nat)
  BY JoinedBytes
<1>4. most = out \o (s \o t)
  <2>1. (out \o s) \o t = out \o (s \o t)
    BY ConcatAssociative
  <2> QED BY <1>1, <1>2, <2>1
<1> QED BY <1>3, <1>4, Zenon DEF Longer

(* A step after a change that neither yielded bytes nor found anything.     *)
LEMMA StepsAfter ==
  ASSUME NEW start, NEW st, NEW mid, NEW fed, NEW low, NEW R, NEW H, Steps(start, mid, fed, low, R, H),
         st.out \in Seq(Nat), Longer(st.out, mid.out), st.segments = mid.segments, Findings(st) = Findings(mid)
  PROVE  Steps(start, st, fed, low, R, H)
<1>1. Longer(st.out, fed.st.out)
  BY LongerStill DEF Steps
<1> QED BY <1>1 DEF Steps

(* One segment with data.                                                   *)
LEMMA FeedSteps ==
  ASSUME NEW start \in Nat, NEW st0, StreamShape(st0), NEW low \in Nat, NEW R, R \subseteq Nat, NEW H,
         Sound(start, st0, low, R, H), NEW a \in 0..Half, NEW b \in 0..Half, a < b
  PROVE  Steps(start, [st0 EXCEPT !.segments = @ + 1], FeedStream(st0, Nr(start, a), Span(a, b)), low, R \cup a..(b - 1), H)
<1>h. Half \in Nat /\ a \in Nat /\ b \in Nat
  BY HalfOf
<1> DEFINE seq == Nr(start, a)
           data == Span(a, b)
           Q == R \cup a..(b - 1)
           was == [st0 EXCEPT !.segments = @ + 1]
           st == [st0 EXCEPT !.base = IF @ = Nothing THEN seq ELSE @, !.next = st0.next, !.segments = @ + 1]
           fed == FeedStream(st0, seq, data)
<1>1. PICK n \in low..Half : st0.next = Nr(start, n) /\ Yield(st0.out, low, R, H, n) /\ Holding(start, st0.buffer, R, n)
  BY DEF Sound
<1>2. n \in Nat /\ n \in 0..Half
  BY <1>h
<1>3. st0.next # Nothing
  BY <1>1, <1>2, Numbers, StreamAssumption
<1>4. data # <<>> /\ Len(data) = b - a /\ EndSeq(Segment(seq, data)) = Nr(start, b) /\ Segment(seq, data) = Piece(start, a, b)
  <2>1. LET s == Piece(start, a, b) IN s = Segment(seq, data) /\ EndSeq(s) = Nr(start, b) /\ Len(s.data) = b - a
          /\ s.data # <<>> /\ s.data = data
    BY PieceMeans
  <2> QED BY <2>1
<1>5. fed = FeedData(st0, seq, data)
  BY <1>4 DEF FeedStream
<1>6. /\ SeqLt(seq, st0.next) <=> a < n
      /\ SeqGt(seq, st0.next) <=> a > n
      /\ a <= n => Ahead(st0.next, seq) = n - a
  BY <1>1, <1>2, Compared
<1>7. /\ a < n /\ b <= n => fed = [st |-> [st EXCEPT !.retransmissions = @ + 1], issue |-> Issue("retransmission", seq, b - a)]
      /\ a < n /\ b > n => fed = [st |-> [st EXCEPT !.overlaps = @ + 1, !.out = @ \o From(data, n - a), !.next = Nr(start, b)],
                                  issue |-> Issue("overlap", seq, n - a)]
      /\ a > n => fed = Drain([st EXCEPT !.buffer = Append(@, Piece(start, a, b))])
      /\ a = n => fed = Drain([st EXCEPT !.out = @ \o data, !.next = Nr(start, b)])
  <2> HIDE DEF seq, data
  <2>1. CASE a < n /\ b <= n
    BY <1>2, <1>3, <1>4, <1>5, <1>6, <1>h, <2>1 DEF FeedData
  <2>2. CASE a < n /\ b > n
    <3>1. SeqLt(seq, st0.next) /\ ~(Ahead(st0.next, seq) >= Len(data)) /\ Ahead(st0.next, seq) < Len(data)
      BY <1>2, <1>4, <1>6, <1>h, <2>2
    <3>2. fed = [st |-> [st EXCEPT !.overlaps = @ + 1, !.out = @ \o From(data, Ahead(st0.next, seq)),
                                  !.next = EndSeq(Segment(seq, data))],
                 issue |-> Issue("overlap", seq, Ahead(st0.next, seq))]
      BY <1>3, <1>5, <3>1 DEF FeedData
    <3>3. Ahead(st0.next, seq) = n - a /\ EndSeq(Segment(seq, data)) = Nr(start, b)
      BY <1>2, <1>4, <1>6, <1>h, <2>2
    <3>4. fed = [st |-> [st EXCEPT !.overlaps = @ + 1, !.out = @ \o From(data, n - a), !.next = Nr(start, b)],
                 issue |-> Issue("overlap", seq, n - a)]
      <4> HIDE DEF fed, st
      <4> QED BY <3>2, <3>3
    <3> QED BY <1>2, <1>h, <2>2, <3>4
  <2>3. CASE a > n
    BY <1>2, <1>3, <1>4, <1>5, <1>6, <1>h, <2>3 DEF FeedData
  <2>4. CASE a = n
    BY <1>2, <1>3, <1>4, <1>5, <1>6, <1>h, <2>4 DEF FeedData
  <2>5. (a < n /\ b <= n) \/ (a < n /\ b > n) \/ a > n \/ a = n
    BY <1>2, <1>h
  <2> QED BY <1>2, <1>h, <2>1, <2>2, <2>3, <2>4, <2>5
<1> HIDE DEF fed
<1>8. /\ StreamShape(st) /\ StreamShape(was) /\ st.out = st0.out /\ st.buffer = st0.buffer /\ st.next = st0.next
      /\ was.out = st0.out /\ was.segments = st.segments /\ Findings(was) = Findings(st)
  <2>0. st0 = [base |-> st0.base, next |-> st0.next, buffer |-> st0.buffer, out |-> st0.out, segments |-> st0.segments,
               gaps |-> st0.gaps, retransmissions |-> st0.retransmissions, overlaps |-> st0.overlaps]
    BY DEF StreamShape
  <2>1. st = [base |-> IF st0.base = Nothing THEN seq ELSE st0.base, next |-> st0.next, buffer |-> st0.buffer,
              out |-> st0.out, segments |-> st0.segments + 1, gaps |-> st0.gaps,
              retransmissions |-> st0.retransmissions, overlaps |-> st0.overlaps]
    <3>1. ASSUME NEW v, NEW u PROVE [st0 EXCEPT !.base = v, !.next = st0.next, !.segments = u]
                = [base |-> v, next |-> st0.next, buffer |-> st0.buffer, out |-> st0.out, segments |-> u,
                   gaps |-> st0.gaps, retransmissions |-> st0.retransmissions, overlaps |-> st0.overlaps]
      <4>1. PICK r : r = [st0 EXCEPT !.base = v, !.next = st0.next, !.segments = u]
        OBVIOUS
      <4>2. r = [base |-> v, next |-> st0.next, buffer |-> st0.buffer, out |-> st0.out, segments |-> u,
                   gaps |-> st0.gaps, retransmissions |-> st0.retransmissions, overlaps |-> st0.overlaps]
        BY <2>0, <4>1
      <4> QED BY <4>1, <4>2
    <3> HIDE DEF seq
    <3>2. st = [st0 EXCEPT !.base = IF st0.base = Nothing THEN seq ELSE st0.base, !.next = st0.next,
                           !.segments = st0.segments + 1]
      BY DEF st
    <3> HIDE DEF st
    <3> QED BY <3>1, <3>2
  <2>2. was = [base |-> st0.base, next |-> st0.next, buffer |-> st0.buffer,
               out |-> st0.out, segments |-> st0.segments + 1, gaps |-> st0.gaps,
               retransmissions |-> st0.retransmissions, overlaps |-> st0.overlaps]
    BY <2>0
  <2>3. /\ st0.segments + 1 \in Nat /\ st0.gaps \in Nat /\ st0.retransmissions \in Nat /\ st0.overlaps \in Nat
    BY DEF StreamShape
  <2> HIDE DEF st, was, seq
  <2>4. StreamShape(st)
    BY <2>1, <2>3 DEF StreamShape
  <2>5. StreamShape(was)
    BY <2>2, <2>3 DEF StreamShape
  <2> QED BY <2>1, <2>2, <2>4, <2>5 DEF Findings
<1>9. st0.out \in Seq(Nat) /\ Longer(st0.out, st0.out)
  <2>1. st0.out \in Seq(Nat)
    BY <1>1 DEF Yield, Ups
  <2>2. <<>> \in Seq(Nat) /\ st0.out = st0.out \o <<>>
    BY <2>1
  <2> QED BY <2>1, <2>2, Zenon DEF Longer
<1>10. R \subseteq Q /\ Q \subseteq Nat /\ H \subseteq H /\ (\A e \in Q : e \in R \/ e < b) /\ a..(b - 1) \subseteq Q
  BY <1>h
<1>11. ASSUME n >= a, n <= b
       PROVE  Yield(st0.out \o Span(n, b), low, Q, H, b) /\ Longer(st0.out, st0.out \o Span(n, b))
              /\ Holding(start, st0.buffer, Q, b)
  <2>1. n..(b - 1) \subseteq Q /\ n..(n - 1) \subseteq H /\ n <= n
    BY <1>2, <1>h, <1>11, <1>10
  <2>2. Yield(st0.out \o Span(n, b), low, Q, H, b) /\ Longer(st0.out, st0.out \o Span(n, b))
    <3> HIDE DEF Q
    <3> QED BY <1>1, <1>2, <1>h, <1>10, <1>11, <2>1, YieldOn
  <2>3. Holding(start, st0.buffer, Q, b)
    <3> HIDE DEF Q
    <3> QED BY <1>1, <1>2, <1>h, <1>10, <1>11, HoldsOn
  <2> QED BY <2>2, <2>3
<1> HIDE DEF st, was
<1>f. /\ st = [base |-> st.base, next |-> st.next, buffer |-> st.buffer, out |-> st.out, segments |-> st.segments,
                gaps |-> st.gaps, retransmissions |-> st.retransmissions, overlaps |-> st.overlaps]
      /\ st.segments \in Nat /\ st.gaps \in Nat /\ st.retransmissions \in Nat /\ st.overlaps \in Nat
  BY <1>8 DEF StreamShape
<1>12. CASE a < n /\ b <= n
  <2> DEFINE more == [st EXCEPT !.retransmissions = @ + 1]
             issue == Issue("retransmission", seq, b - a)
  <2>1. more = [base |-> st.base, next |-> st.next, buffer |-> st.buffer, out |-> st.out, segments |-> st.segments,
                gaps |-> st.gaps, retransmissions |-> st.retransmissions + 1, overlaps |-> st.overlaps]
    BY <1>f
  <2>2. fed.st = more /\ fed.issue = issue /\ issue.kind = "retransmission"
    BY <1>7, <1>12 DEF Issue
  <2> HIDE DEF more, issue
  <2>3. Holes(start, issue) = {}
    BY <2>2 DEF Holes
  <2>4. StreamShape(more) /\ Findings(more) = Findings(st) + 1
    <3>1. StreamShape(more)
      BY <1>f, <2>1 DEF StreamShape
    <3>2. more.gaps = st.gaps /\ more.retransmissions = st.retransmissions + 1 /\ more.overlaps = st.overlaps
      BY <2>1
    <3> QED BY <1>f, <3>1, <3>2 DEF Findings
  <2>5. Yield(st0.out, low, Q, H, n)
    <3>1. Bytes(st0.out) \subseteq Q
      BY <1>1, <1>10 DEF Yield
    <3> QED BY <1>1, <3>1 DEF Yield
  <2>6. Holding(start, st0.buffer, Q, n)
    <3>1. \A e \in Q : e \in R \/ e < n
      BY <1>2, <1>h, <1>12
    <3>2. n <= n /\ R \subseteq Q /\ Q \subseteq Nat
      BY <1>2, <1>10
    <3> HIDE DEF Q
    <3> QED BY <1>1, <1>2, <3>1, <3>2, HoldsOn
  <2>7. Sound(start, more, low, Q, H)
    <3>1. more.next = Nr(start, n) /\ more.out = st0.out /\ more.buffer = st0.buffer
      BY <1>1, <1>8, <2>1
    <3> HIDE DEF Q
    <3> QED BY <2>5, <2>6, <3>1 DEF Sound
  <2>8. H \cup Holes(start, fed.issue) = H
    BY <2>2, <2>3
  <2>9. Longer(was.out, more.out) /\ more.segments = was.segments
    BY <1>8, <1>9, <2>1
  <2>10. Findings(more) = Findings(was) + (IF fed.issue.kind = "none" THEN 0 ELSE 1)
    BY <1>8, <2>2, <2>4
  <2> QED BY <2>2, <2>4, <2>7, <2>8, <2>9, <2>10 DEF Steps, fed, was
<1>13. CASE a < n /\ b > n
  <2> DEFINE grown == st0.out \o Span(n, b)
             more == [st EXCEPT !.overlaps = @ + 1, !.out = grown, !.next = Nr(start, b)]
             issue == Issue("overlap", seq, n - a)
  <2>0. From(data, n - a) = Span(n, b)
    BY <1>2, <1>h, <1>13, SpanFrom
  <2>1. more = [base |-> st.base, next |-> Nr(start, b), buffer |-> st.buffer, out |-> grown, segments |-> st.segments,
                gaps |-> st.gaps, retransmissions |-> st.retransmissions, overlaps |-> st.overlaps + 1]
    <3>1. ASSUME NEW v, NEW w, NEW u PROVE [st EXCEPT !.overlaps = v, !.out = w, !.next = u]
                = [base |-> st.base, next |-> u, buffer |-> st.buffer, out |-> w, segments |-> st.segments,
                   gaps |-> st.gaps, retransmissions |-> st.retransmissions, overlaps |-> v]
      <4>1. PICK r : r = [st EXCEPT !.overlaps = v, !.out = w, !.next = u]
        OBVIOUS
      <4>2. r = [base |-> st.base, next |-> u, buffer |-> st.buffer, out |-> w, segments |-> st.segments,
                   gaps |-> st.gaps, retransmissions |-> st.retransmissions, overlaps |-> v]
        BY <1>f, <4>1
      <4> QED BY <4>1, <4>2
    <3>2. more = [st EXCEPT !.overlaps = st.overlaps + 1, !.out = grown, !.next = Nr(start, b)]
      BY DEF more
    <3> HIDE DEF grown, more
    <3> QED BY <3>1, <3>2
  <2>2. fed.st = more /\ fed.issue = issue /\ issue.kind = "overlap"
    <3>1. fed = [st |-> [st EXCEPT !.overlaps = @ + 1, !.out = @ \o From(data, n - a), !.next = Nr(start, b)],
                 issue |-> issue]
      BY <1>7, <1>13
    <3>2. [st EXCEPT !.overlaps = @ + 1, !.out = @ \o From(data, n - a), !.next = Nr(start, b)] = more
      BY <1>8, <2>0
    <3>3. issue.kind = "overlap"
      BY DEF Issue
    <3> QED BY <3>1, <3>2, <3>3
  <2> HIDE DEF more, issue, grown
  <2>3. Holes(start, issue) = {}
    BY <2>2 DEF Holes
  <2>4. StreamShape(more) /\ Findings(more) = Findings(st) + 1
    <3>1. StreamShape(more)
      BY <1>f, <2>1 DEF StreamShape
    <3>2. more.gaps = st.gaps /\ more.retransmissions = st.retransmissions /\ more.overlaps = st.overlaps + 1
      BY <2>1
    <3> QED BY <1>f, <3>1, <3>2 DEF Findings
  <2>5. Yield(grown, low, Q, H, b) /\ Longer(st0.out, grown) /\ Holding(start, st0.buffer, Q, b)
    BY <1>2, <1>h, <1>11, <1>13 DEF grown
  <2>7. Sound(start, more, low, Q, H)
    <3>1. more.next = Nr(start, b) /\ more.out = grown /\ more.buffer = st0.buffer
      BY <1>8, <2>1
    <3>2. b \in low..Half
      BY <1>2, <1>h, <1>13
    <3> HIDE DEF Q
    <3> QED BY <2>5, <3>1, <3>2 DEF Sound
  <2>8. H \cup Holes(start, fed.issue) = H
    BY <2>2, <2>3
  <2>9. Longer(was.out, more.out) /\ more.segments = was.segments
    BY <1>8, <2>1, <2>5
  <2>10. Findings(more) = Findings(was) + (IF fed.issue.kind = "none" THEN 0 ELSE 1)
    BY <1>8, <2>2, <2>4
  <2> QED BY <2>2, <2>4, <2>7, <2>8, <2>9, <2>10 DEF Steps, fed, was
<1>14. CASE a > n
  <2> DEFINE held == Append(st.buffer, Piece(start, a, b))
             mid == [st EXCEPT !.buffer = held]
  <2>1. mid = [base |-> st.base, next |-> st.next, buffer |-> held, out |-> st.out, segments |-> st.segments,
               gaps |-> st.gaps, retransmissions |-> st.retransmissions, overlaps |-> st.overlaps]
    <3> HIDE DEF held
    <3> QED BY <1>f
  <2>2. fed = Drain(mid)
    <3>1. fed = Drain([st EXCEPT !.buffer = Append(@, Piece(start, a, b))])
      BY <1>7, <1>14
    <3> QED BY <3>1
  <2> HIDE DEF mid
  <2>3. StreamShape(mid) /\ mid.next = Nr(start, n) /\ mid.buffer = held /\ mid.out = st0.out
        /\ mid.segments = was.segments /\ Findings(mid) = Findings(was)
    <3>1. mid.next = Nr(start, n) /\ mid.buffer = held /\ mid.out = st0.out /\ mid.segments = was.segments
      BY <1>1, <1>8, <2>1
    <3> HIDE DEF held
    <3>2. StreamShape(mid)
      BY <1>f, <2>1 DEF StreamShape
    <3>3. Findings(mid) = Findings(st)
      BY <2>1 DEF Findings
    <3> QED BY <1>8, <3>1, <3>2, <3>3
  <2>4. Yield(mid.out, low, Q, H, n)
    <3>1. Bytes(st0.out) \subseteq Q
      BY <1>1, <1>10 DEF Yield
    <3> QED BY <1>1, <2>3, <3>1 DEF Yield
  <2>5. Steps(start, mid, Drain(mid), low, Q, H)
    <3>1. CASE st0.buffer = <<>> /\ \A c \in R : c < n
      <4>1. held = <<Piece(start, a, b)>>
        BY <1>8, <3>1
      <4>2. \A e \in Q : e < n \/ e \in a..(b - 1)
        BY <3>1
      <4>3. Holding(start, mid.buffer, Q, n)
        <5> HIDE DEF held, Q
        <5> QED BY <1>10, <2>3, <4>1, <4>2 DEF Holding
      <4> HIDE DEF held, Q
      <4> QED BY <1>10, <2>3, <2>4, <4>3, <1>1, HeldSteps
    <3>2. ASSUME NEW c \in 0..Half, NEW d \in 0..Half, c < d, st0.buffer = <<Piece(start, c, d)>>, c..(d - 1) \subseteq R,
                 \A e \in R : e < n \/ e \in c..(d - 1)
          PROVE  Steps(start, mid, Drain(mid), low, Q, H)
      <4>1. held = <<Piece(start, c, d), Piece(start, a, b)>>
        <5>1. \A x, y : Append(<<x>>, y) = <<x, y>>
          BY Appended
        <5> QED BY <1>8, <3>2, <5>1
      <4>2. Both(start, Q, n, c, d, a, b)
        <5>1. \A e \in Q : e < n \/ e \in c..(d - 1) \/ e \in a..(b - 1)
          BY <3>2
        <5>2. c..(d - 1) \subseteq Q
          BY <3>2
        <5> HIDE DEF Q
        <5> QED BY <1>10, <3>2, <5>1, <5>2 DEF Both
      <4> HIDE DEF held, Q
      <4> QED BY <1>10, <2>3, <2>4, <4>1, <4>2, <1>1, TwoSteps
    <3> QED BY <1>1, <3>1, <3>2 DEF Holding
  <2>6. Longer(was.out, mid.out) /\ was.out \in Seq(Nat)
    BY <1>8, <1>9, <2>3
  <2> QED BY <2>2, <2>3, <2>5, <2>6, StepsAfter DEF fed, was
<1>15. CASE a = n
  <2> DEFINE grown == st.out \o data
             mid == [st EXCEPT !.out = grown, !.next = Nr(start, b)]
  <2>1. mid = [base |-> st.base, next |-> Nr(start, b), buffer |-> st.buffer, out |-> grown, segments |-> st.segments,
               gaps |-> st.gaps, retransmissions |-> st.retransmissions, overlaps |-> st.overlaps]
    <3>1. ASSUME NEW w, NEW u PROVE [st EXCEPT !.out = w, !.next = u]
                = [base |-> st.base, next |-> u, buffer |-> st.buffer, out |-> w, segments |-> st.segments,
                   gaps |-> st.gaps, retransmissions |-> st.retransmissions, overlaps |-> st.overlaps]
      <4>1. PICK r : r = [st EXCEPT !.out = w, !.next = u]
        OBVIOUS
      <4>2. r = [base |-> st.base, next |-> u, buffer |-> st.buffer, out |-> w, segments |-> st.segments,
                   gaps |-> st.gaps, retransmissions |-> st.retransmissions, overlaps |-> st.overlaps]
        BY <1>f, <4>1
      <4> QED BY <4>1, <4>2
    <3> HIDE DEF grown
    <3> QED BY <3>1
  <2>2. fed = Drain(mid)
    <3>1. fed = Drain([st EXCEPT !.out = @ \o data, !.next = Nr(start, b)])
      BY <1>7, <1>15
    <3> QED BY <3>1
  <2>g. grown = st0.out \o Span(n, b)
    BY <1>8, <1>15
  <2> HIDE DEF mid, grown
  <2>3. StreamShape(mid) /\ mid.next = Nr(start, b) /\ mid.buffer = st0.buffer /\ mid.out = grown
        /\ mid.segments = was.segments /\ Findings(mid) = Findings(was)
    <3>1. mid.next = Nr(start, b) /\ mid.buffer = st0.buffer /\ mid.out = grown /\ mid.segments = was.segments
      BY <1>8, <2>1
    <3>2. StreamShape(mid)
      BY <1>f, <2>1 DEF StreamShape
    <3>3. Findings(mid) = Findings(st)
      BY <2>1 DEF Findings
    <3> QED BY <1>8, <3>1, <3>2, <3>3
  <2>4. Yield(mid.out, low, Q, H, b) /\ Longer(was.out, mid.out) /\ Holding(start, mid.buffer, Q, b)
    BY <1>2, <1>8, <1>h, <1>11, <1>15, <2>3, <2>g
  <2>5. b \in low..Half
    BY <1>2, <1>h, <1>15
  <2>6. Steps(start, mid, Drain(mid), low, Q, H)
    <3> HIDE DEF Q
    <3> QED BY <1>10, <2>3, <2>4, <2>5, HeldSteps
  <2>7. was.out \in Seq(Nat)
    BY <1>8, <1>9
  <2> QED BY <2>2, <2>3, <2>4, <2>6, <2>7, StepsAfter DEF fed, was
<1>16. (a < n /\ b <= n) \/ (a < n /\ b > n) \/ a > n \/ a = n
  BY <1>2, <1>h
<1> QED BY <1>12, <1>13, <1>14, <1>15, <1>16

(* A direction of which nothing came.                                       *)
Fresh(st) == StreamShape(st) /\ st.next = Nothing /\ st.buffer = <<>> /\ st.out = <<>>

(* A stream that yielded nothing is in order.                               *)
LEMMA NoBytes == <<>> \in Seq(Nat) /\ Len(<<>>) = 0 /\ Bytes(<<>>) = {} /\ \A n \in Nat : Ups(<<>>, n)
<1>1. <<>> \in Seq(Nat) /\ Len(<<>>) = 0 /\ DOMAIN <<>> = {}
  OBVIOUS
<1>2. Bytes(<<>>) = {}
  BY <1>1, Zenon DEF Bytes
<1> QED BY <1>1, <1>2 DEF Ups

(* The first segment says where the stream begins.                          *)
LEMMA FirstSteps ==
  ASSUME NEW start \in Nat, NEW st0, Fresh(st0), NEW a \in 0..Half, NEW b \in 0..Half, a < b
  PROVE  Steps(start, [st0 EXCEPT !.segments = @ + 1], FeedStream(st0, Nr(start, a), Span(a, b)), a, a..(b - 1), {})
<1>h. Half \in Nat /\ a \in Nat /\ b \in Nat
  BY HalfOf
<1> DEFINE seq == Nr(start, a)
           data == Span(a, b)
<1>1. PICK st1 : st1 = [st0 EXCEPT !.next = seq]
  OBVIOUS
<1>2. /\ st0 = [base |-> st0.base, next |-> st0.next, buffer |-> st0.buffer, out |-> st0.out, segments |-> st0.segments,
                gaps |-> st0.gaps, retransmissions |-> st0.retransmissions, overlaps |-> st0.overlaps]
      /\ st0.segments \in Nat /\ st0.gaps \in Nat /\ st0.retransmissions \in Nat /\ st0.overlaps \in Nat
      /\ st0.next = Nothing /\ st0.buffer = <<>> /\ st0.out = <<>>
  BY DEF Fresh, StreamShape
<1>n. seq # Nothing
  BY <1>h, Numbers, StreamAssumption
<1> HIDE DEF seq, data
<1>3. st1 = [base |-> st0.base, next |-> seq, buffer |-> st0.buffer, out |-> st0.out, segments |-> st0.segments,
             gaps |-> st0.gaps, retransmissions |-> st0.retransmissions, overlaps |-> st0.overlaps]
  BY <1>1, <1>2
<1>4. StreamShape(st1) /\ st1.next = seq /\ st1.buffer = <<>> /\ st1.out = <<>>
  <2>1. st1.next = seq /\ st1.buffer = <<>> /\ st1.out = <<>>
    BY <1>2, <1>3
  <2>2. StreamShape(st1)
    BY <1>2, <1>3 DEF StreamShape
  <2> QED BY <2>1, <2>2
<1>5. FeedStream(st0, seq, data) = FeedStream(st1, seq, data)
  <2>1. [st0 EXCEPT !.base = IF @ = Nothing THEN seq ELSE @, !.next = seq, !.segments = @ + 1]
          = [st1 EXCEPT !.base = IF @ = Nothing THEN seq ELSE @, !.next = seq, !.segments = @ + 1]
    <3>1. PICK p : p = [st0 EXCEPT !.base = IF @ = Nothing THEN seq ELSE @, !.next = seq, !.segments = @ + 1]
      OBVIOUS
    <3>2. PICK q : q = [st1 EXCEPT !.base = IF @ = Nothing THEN seq ELSE @, !.next = seq, !.segments = @ + 1]
      OBVIOUS
    <3>3. PICK base : base = IF st0.base = Nothing THEN seq ELSE st0.base
      OBVIOUS
    <3>4. p = [base |-> base, next |-> seq, buffer |-> st0.buffer, out |-> st0.out, segments |-> st0.segments + 1,
               gaps |-> st0.gaps, retransmissions |-> st0.retransmissions, overlaps |-> st0.overlaps]
      BY <1>2, <3>1, <3>3
    <3>5. q = [base |-> base, next |-> seq, buffer |-> st0.buffer, out |-> st0.out, segments |-> st0.segments + 1,
               gaps |-> st0.gaps, retransmissions |-> st0.retransmissions, overlaps |-> st0.overlaps]
      BY <1>3, <3>2, <3>3
    <3> QED BY <3>1, <3>2, <3>4, <3>5
  <2>2. FeedData(st0, seq, data) = FeedData(st1, seq, data)
    <3>1. (IF st0.next = Nothing THEN seq ELSE st0.next) = seq /\ (IF st1.next = Nothing THEN seq ELSE st1.next) = seq
      BY <1>2, <1>4, <1>n
    <3> QED BY <2>1, <3>1 DEF FeedData
  <2>3. CASE data = <<>>
    <3>1. data # <<>>
      BY PieceMeans DEF data
    <3> QED BY <2>3, <3>1
  <2>4. CASE data # <<>>
    BY <2>2, <2>4 DEF FeedStream
  <2> QED BY <2>3, <2>4
<1>6. Sound(start, st1, a, {}, {})
  <2>1. Yield(st1.out, a, {}, {}, a)
    <3>1. a..(a - 1) = {}
      BY <1>h
    <3> QED BY <1>4, <1>h, <3>1, NoBytes DEF Yield
  <2>2. Holding(start, st1.buffer, {}, a)
    BY <1>4 DEF Holding
  <2>3. a \in a..Half /\ st1.next = Nr(start, a)
    BY <1>4, <1>h DEF seq
  <2> QED BY <2>1, <2>2, <2>3 DEF Sound
<1>7. Steps(start, [st1 EXCEPT !.segments = @ + 1], FeedStream(st1, seq, data), a, {} \cup a..(b - 1), {})
  <2>1. {} \subseteq Nat
    OBVIOUS
  <2> QED BY <1>4, <1>6, <1>h, <2>1, FeedSteps DEF seq, data
<1>8. {} \cup a..(b - 1) = a..(b - 1)
  OBVIOUS
<1>9. Steps(start, [st0 EXCEPT !.segments = @ + 1], FeedStream(st1, seq, data), a, a..(b - 1), {})
  <2>1. PICK p : p = [st0 EXCEPT !.segments = @ + 1]
    OBVIOUS
  <2>2. PICK q : q = [st1 EXCEPT !.segments = @ + 1]
    OBVIOUS
  <2>3. /\ p.out = <<>> /\ p.segments = st0.segments + 1
        /\ p.gaps = st0.gaps /\ p.retransmissions = st0.retransmissions /\ p.overlaps = st0.overlaps
    BY <1>2, <2>1
  <2>4. /\ q.out = <<>> /\ q.segments = st0.segments + 1
        /\ q.gaps = st0.gaps /\ q.retransmissions = st0.retransmissions /\ q.overlaps = st0.overlaps
    BY <1>2, <1>3, <2>2
  <2>5. Findings(p) = Findings(q) /\ p.segments = q.segments
    BY <2>3, <2>4 DEF Findings
  <2>6. Longer(p.out, q.out) /\ p.out \in Seq(Nat)
    <3>1. <<>> = <<>> \o <<>> /\ <<>> \in Seq(Nat)
      OBVIOUS
    <3>2. Longer(<<>>, <<>>)
      BY <3>1, Zenon DEF Longer
    <3> QED BY <2>3, <2>4, <3>1, <3>2
  <2>7. Steps(start, q, FeedStream(st1, seq, data), a, a..(b - 1), {})
    BY <1>7, <1>8, <2>2
  <2>8. Steps(start, p, FeedStream(st1, seq, data), a, a..(b - 1), {})
    BY <2>5, <2>6, <2>7, StepsAfter
  <2> QED BY <2>1, <2>8
<1> QED BY <1>5, <1>9 DEF seq, data

----------------------------------------------------------------------------
(* The end of the capture: what was held back is given out, after a gap if  *)
(* there is one.                                                            *)
LEMMA FlushPiece ==
  ASSUME NEW start \in Nat, NEW n \in 0..Half, NEW a \in 0..Half, NEW b \in 0..Half, a < b, NEW gaps
  PROVE  LET m == Later(n, a)  l == Later(m, b) IN
         FlushOne([next |-> Nr(start, n), out |-> <<>>, gaps |-> gaps, issue |-> NoIssue], Piece(start, a, b)) =
           [next |-> Nr(start, l), out |-> Span(m, l), gaps |-> IF a > n THEN gaps + 1 ELSE gaps,
            issue |-> IF a > n THEN Issue("gap", Nr(start, n), Ahead(Nr(start, m), Nr(start, n))) ELSE NoIssue]
<1>h. Half \in Nat /\ a \in Nat /\ b \in Nat /\ n \in Nat
  BY HalfOf
<1> DEFINE m == Later(n, a)
           l == Later(m, b)
           s == Piece(start, a, b)
           acc == [next |-> Nr(start, n), out |-> <<>>, gaps |-> gaps, issue |-> NoIssue]
           gap == SeqGt(s.seq, acc.next)
           next == IF gap THEN s.seq ELSE acc.next
           fresh == SeqGe(EndSeq(s), next)
<1>1. s.seq = Nr(start, a) /\ s.data = Span(a, b) /\ EndSeq(s) = Nr(start, b)
  BY PieceMeans
<1>2. acc.next = Nr(start, n) /\ acc.out = <<>> /\ acc.gaps = gaps /\ acc.issue = NoIssue
  OBVIOUS
<1> HIDE DEF s, acc
<1>3. gap <=> a > n
  BY <1>1, <1>2, Compared
<1>4. m \in 0..Half /\ a <= m /\ (IF a > n THEN m = a ELSE m = n)
  BY <1>h DEF Later
<1>5. next = Nr(start, m)
  <2> HIDE DEF gap, m
  <2> QED BY <1>1, <1>2, <1>3, <1>4
<1> HIDE DEF gap, next, m
<1>6. (fresh <=> b >= m) /\ Ahead(next, s.seq) = m - a
  BY <1>1, <1>4, <1>5, Compared
<1> HIDE DEF fresh
<1>7. FlushOne(acc, s) = [next |-> IF fresh THEN EndSeq(s) ELSE next,
                          out |-> IF fresh THEN acc.out \o From(s.data, Ahead(next, s.seq)) ELSE acc.out,
                          gaps |-> IF gap THEN acc.gaps + 1 ELSE acc.gaps,
                          issue |-> IF gap THEN Issue("gap", acc.next, Ahead(s.seq, acc.next)) ELSE acc.issue]
  BY DEF FlushOne, gap, next, fresh
<1>8. (IF fresh THEN EndSeq(s) ELSE next) = Nr(start, l)
  <2>1. CASE b >= m
    <3>1. l = b
      BY <1>h, <1>4, <2>1 DEF Later
    <3> QED BY <1>1, <1>6, <2>1, <3>1
  <2>2. CASE ~(b >= m)
    <3>1. l = m
      BY <1>h, <1>4, <2>2 DEF Later
    <3> QED BY <1>5, <1>6, <2>2, <3>1
  <2> QED BY <2>1, <2>2
<1>9. (IF fresh THEN acc.out \o From(s.data, Ahead(next, s.seq)) ELSE acc.out) = Span(m, l)
  <2>1. CASE b >= m
    <3>1. l = b
      BY <1>h, <1>4, <2>1 DEF Later
    <3>2. From(s.data, Ahead(next, s.seq)) = Span(m, b) /\ Span(m, b) \in Seq(Nat)
      <4>1. m \in Nat /\ a <= m /\ m <= b
        BY <1>4, <1>h, <2>1
      <4>2. From(Span(a, b), m - a) = Span(m, b)
        BY <1>h, <4>1, SpanFrom
      <4>3. From(s.data, Ahead(next, s.seq)) = From(Span(a, b), m - a)
        BY <1>1, <1>6
      <4>4. Span(m, b) \in Seq(Nat)
        BY <1>h, <4>1, SpanMeans
      <4> QED BY <4>2, <4>3, <4>4
    <3>3. <<>> \o Span(m, b) = Span(m, b)
      BY <3>2
    <3> QED BY <1>2, <1>6, <2>1, <3>1, <3>2, <3>3
  <2>2. CASE ~(b >= m)
    <3>1. l = m
      BY <1>h, <1>4, <2>2 DEF Later
    <3>2. Span(m, m) = <<>>
      BY <1>4, <1>h, SpanNone
    <3> QED BY <1>2, <1>6, <2>2, <3>1, <3>2
  <2> QED BY <2>1, <2>2
<1>10. (IF gap THEN Issue("gap", acc.next, Ahead(s.seq, acc.next)) ELSE acc.issue)
         = IF a > n THEN Issue("gap", Nr(start, n), Ahead(Nr(start, m), Nr(start, n))) ELSE NoIssue
  BY <1>1, <1>2, <1>3, <1>4
<1> HIDE DEF l
<1>11. FlushOne(acc, s) = [next |-> Nr(start, l), out |-> Span(m, l), gaps |-> IF a > n THEN gaps + 1 ELSE gaps,
            issue |-> IF a > n THEN Issue("gap", Nr(start, n), Ahead(Nr(start, m), Nr(start, n))) ELSE NoIssue]
  BY <1>2, <1>3, <1>7, <1>8, <1>9, <1>10
<1> QED BY <1>11 DEF acc, s, l, m

(* The end of the capture leaves a sound stream sound, with nothing held    *)
(* back.                                                                    *)
LEMMA FlushSteps ==
  ASSUME NEW start \in Nat, NEW st, StreamShape(st), NEW low \in Nat, NEW R, R \subseteq Nat, NEW H,
         Sound(start, st, low, R, H)
  PROVE  /\ Steps(start, st, FlushStream(st), low, R, H) /\ FlushStream(st).st.buffer = <<>>
         /\ FlushStream(st).issue.kind = "none" => FlushStream(st).issue = NoIssue
<1>h. Half \in Nat
  BY HalfOf
<1>1. PICK n \in low..Half : st.next = Nr(start, n) /\ Yield(st.out, low, R, H, n) /\ Holding(start, st.buffer, R, n)
  BY DEF Sound
<1>2. CASE st.buffer = <<>> /\ \A c \in R : c < n
  <2>1. FlushStream(st) = [st |-> st, issue |-> NoIssue]
    BY <1>2 DEF FlushStream
  <2> QED BY <1>2, <2>1, WaitSteps
<1>3. ASSUME NEW a \in 0..Half, NEW b \in 0..Half, a < b, st.buffer = <<Piece(start, a, b)>>, a..(b - 1) \subseteq R,
             \A c \in R : c < n \/ c \in a..(b - 1)
      PROVE  /\ Steps(start, st, FlushStream(st), low, R, H) /\ FlushStream(st).st.buffer = <<>>
             /\ FlushStream(st).issue.kind = "none" => FlushStream(st).issue = NoIssue
  <2>n. n \in 0..Half /\ n \in Nat
    BY <1>h
  <2> DEFINE m == Later(n, a)
             l == Later(m, b)
             x == Piece(start, a, b)
             s == ByDistance(st.buffer, st.next)
             base == [next |-> st.next, out |-> <<>>, gaps |-> st.gaps, issue |-> NoIssue]
             done == FoldLeft(FlushOne, base, s)
             issue == IF a > n THEN Issue("gap", Nr(start, n), Ahead(Nr(start, m), Nr(start, n))) ELSE NoIssue
  <2>1. s = <<x>>
    <3>1. Nr(start, n) \in Int /\ Nr(start, a) \in Int
      <4>1. a \in Nat /\ n \in Nat
        BY <1>h, <2>n
      <4> HIDE DEF x, s, base, done, issue, m, l
      <4> QED BY <4>1, Numbers
    <3>2. x.seq = Nr(start, a)
      BY DEF Piece
    <3> HIDE DEF x
    <3> QED BY <1>1, <1>3, <3>1, <3>2, SortedFew DEF x
  <2>2. done = FlushOne(base, x)
    <3> HIDE DEF base, s, x
    <3>1. Flushes(base, s) = FlushOne(base, x)
      BY <2>1, FlushFold
    <3> QED BY <3>1 DEF Flushes
  <2>3. done = [next |-> Nr(start, l), out |-> Span(m, l), gaps |-> IF a > n THEN st.gaps + 1 ELSE st.gaps, issue |-> issue]
    <3>1. base = [next |-> Nr(start, n), out |-> <<>>, gaps |-> st.gaps, issue |-> NoIssue]
      BY <1>1
    <3> HIDE DEF base, done
    <3> QED BY <1>3, <2>2, <2>n, <3>1, FlushPiece
  <2>4. st.buffer # <<>>
    BY <1>3
  <2>5. FlushStream(st) = [st |-> [st EXCEPT !.buffer = <<>>, !.next = done.next, !.out = @ \o done.out, !.gaps = done.gaps],
                           issue |-> done.issue]
    BY <2>4 DEF FlushStream
  <2>6. FlushStream(st) = Result(start, st, a > n, n, m, l, <<>>)
    <3> HIDE DEF done, m, l, issue
    <3>1. done.next = Nr(start, l) /\ done.out = Span(m, l) /\ done.issue = issue
          /\ done.gaps = IF a > n THEN st.gaps + 1 ELSE st.gaps
      BY <2>3
    <3>2. FlushStream(st) = [st |-> [st EXCEPT !.buffer = <<>>, !.next = Nr(start, l), !.out = @ \o Span(m, l),
                                              !.gaps = IF a > n THEN @ + 1 ELSE @],
                             issue |-> issue]
      BY <2>5, <3>1
    <3> QED BY <3>2 DEF Result, issue
  <2>7. m \in n..Half /\ l \in m..Half /\ b <= l /\ m..(l - 1) \subseteq R /\ (~(a > n) => m = n) /\ l \in Nat /\ n <= l
    <3>1. m \in n..Half /\ a <= m /\ (~(a > n) => m = n)
      BY <1>h, <2>n DEF Later
    <3> HIDE DEF m
    <3>2. l \in m..Half /\ b <= l /\ (l = m \/ l = b)
      BY <1>h, <2>n, <3>1 DEF Later
    <3> HIDE DEF l
    <3>3. m..(l - 1) \subseteq a..(b - 1)
      BY <1>h, <2>n, <3>1, <3>2
    <3> QED BY <1>h, <1>3, <2>n, <3>1, <3>2, <3>3
  <2> HIDE DEF m, l
  <2>8. Holding(start, <<>>, R, l)
    <3>1. \A e \in R : e < l
      <4> SUFFICES ASSUME NEW e \in R PROVE e < l
        OBVIOUS
      <4>1. e \in Nat
        OBVIOUS
      <4> QED BY <1>3, <1>h, <2>n, <2>7, <4>1
    <3> QED BY <3>1 DEF Holding
  <2>9. Steps(start, st, Result(start, st, a > n, n, m, l, <<>>), low, R, H)
    <3>1. (a > n) \in BOOLEAN
      OBVIOUS
    <3> QED BY <1>1, <2>7, <2>8, <3>1, ResultSteps
  <2>10. FlushStream(st).st.buffer = <<>> /\ FlushStream(st).issue = issue
    <3> DEFINE fed == Result(start, st, a > n, n, m, l, <<>>)
    <3>1. fed.st = [base |-> st.base, next |-> Nr(start, l), buffer |-> <<>>, out |-> st.out \o Span(m, l),
                    segments |-> st.segments, gaps |-> IF a > n THEN st.gaps + 1 ELSE st.gaps,
                    retransmissions |-> st.retransmissions, overlaps |-> st.overlaps]
      <4> HIDE DEF s, base, done, issue, x
      <4> QED BY DEF Result, StreamShape
    <3>2. fed.issue = issue
      BY DEF Result
    <3> HIDE DEF fed
    <3>3. fed.st.buffer = <<>>
      BY <3>1
    <3>4. FlushStream(st) = fed
      BY <2>6 DEF fed
    <3> QED BY <3>2, <3>3, <3>4
  <2>11. issue.kind = "none" => issue = NoIssue
    BY DEF Issue
  <2> QED BY <2>6, <2>9, <2>10, <2>11
<1> QED BY <1>1, <1>2, <1>3 DEF Holding

(***************************************************************************)
(* One direction of a flow in the log and on the timeline: its stream is   *)
(* sound for the packets of the log that belong to it and the gaps the     *)
(* timeline tells of its flow.                                             *)
(***************************************************************************)

(* What the packets C of a log L brought, and what the findings told of     *)
(* flow id on T say is missing.                                             *)
Brought(L, C) == UNION {Bytes(L[i].data) : i \in C}
Gap(T, i, id, L, n, b) ==
  /\ T[i].kind = "issue" /\ T[i].flow = id /\ T[i].what.kind = "gap"
  /\ Ahead((L[n].seq + b - L[n].data[1]) % SeqSpace, T[i].what.at) < T[i].what.size
Missed(T, id, L, C) == {b \in 0..SeqSpace : \E i \in DOMAIN T : \E n \in C : Gap(T, i, id, L, n, b)}

(* One direction, of which the packets C of a log L came and the bytes H    *)
(* are told as missing.                                                     *)
Dir(start, st, L, C, H) ==
  /\ StreamShape(st) /\ IsFiniteSet(C) /\ C \subseteq Nat /\ Brought(L, C) \subseteq Nat /\ st.segments = Cardinality(C)
  /\ C = {} => Fresh(st)
  /\ C # {} => \E i \in C : /\ \A j \in C : i <= j
                            /\ L[i].data[1] \in Nat /\ Sound(start, st, L[i].data[1], Brought(L, C), H)

(* The data of a packet is a span of what its peer sent.                    *)
Spans(p) == \E a, b \in 0..Half : a < b /\ p.data = Span(a, b) /\ p.data[1] = a

(* The assumption on traffic, for one packet.                               *)
LEMMA PacketSpans ==
  ASSUME NEW T \in Traffics, NEW p \in T, p.data # <<>>
  PROVE  Spans(p)
<1> DEFINE a == p.data[1]
           b == p.data[1] + Len(p.data)
<1>1. /\ p.data \in Seq(Nat) /\ \A i \in DOMAIN p.data : p.data[i] = p.data[1] + i - 1
      /\ p.data[1] + Len(p.data) <= Half
  BY TrafficAssumption DEF Half
<1>2. Len(p.data) \in Nat \ {0} /\ DOMAIN p.data = 1..Len(p.data)
  BY <1>1, EmptySeq
<1>3. p.data[1] \in Nat
  BY <1>1, <1>2
<1>4. a \in 0..Half /\ b \in 0..Half /\ a < b /\ a \in Nat /\ b \in Nat /\ b - a = Len(p.data)
  BY <1>1, <1>2, <1>3, HalfOf
<1>5. Span(a, b) \in Seq(Nat) /\ Len(Span(a, b)) = b - a /\ \A i \in 1..(b - a) : Span(a, b)[i] = a + i - 1
  <2> HIDE DEF a, b
  <2> QED BY <1>4, SpanMeans
<1>6. p.data = Span(a, b)
  <2>1. \A i \in 1..Len(p.data) : p.data[i] = Span(a, b)[i]
    BY <1>1, <1>2, <1>4, <1>5
  <2> HIDE DEF a, b
  <2> QED BY <1>1, <1>4, <1>5, <2>1, SeqEqual
<1> HIDE DEF b
<1> QED BY <1>4, <1>6 DEF Spans

(* A stream is sound also when more is told as missing.                     *)
LEMMA SoundMore ==
  ASSUME NEW start, NEW st, NEW low, NEW R, NEW H, NEW G, H \subseteq G, Sound(start, st, low, R, H)
  PROVE  Sound(start, st, low, R, G)
<1>1. PICK n \in low..Half : st.next = Nr(start, n) /\ Yield(st.out, low, R, H, n) /\ Holding(start, st.buffer, R, n)
  BY DEF Sound
<1>2. Yield(st.out, low, R, G, n)
  BY <1>1, Zenon DEF Yield
<1> QED BY <1>1, <1>2 DEF Sound

(* What one more packet brings.                                             *)
LEMMA BroughtMore ==
  ASSUME NEW L, NEW C, NEW M, NEW n, \A i \in C : M[i] = L[i]
  PROVE  Brought(M, C) = Brought(L, C) /\ Brought(M, C \cup {n}) = Brought(L, C) \cup Bytes(M[n].data)
<1>1. Brought(M, C) = Brought(L, C)
  BY DEF Brought
<1>2. Brought(M, C \cup {n}) = Brought(M, C) \cup Bytes(M[n].data)
  BY DEF Brought
<1> QED BY <1>1, <1>2

(* Nothing else changes a direction.                                        *)
LEMMA DirStays ==
  ASSUME NEW start, NEW st, NEW L, NEW C, NEW H, Dir(start, st, L, C, H),
         NEW M, \A i \in C : M[i] = L[i], NEW G, H \subseteq G
  PROVE  Dir(start, st, M, C, G)
<1>1. Brought(M, C) = Brought(L, C)
  BY BroughtMore
<1>2. ASSUME C # {}
      PROVE  \E i \in C : /\ \A j \in C : i <= j
                          /\ M[i].data[1] \in Nat /\ Sound(start, st, M[i].data[1], Brought(M, C), G)
  <2>1. PICK i \in C : /\ \A j \in C : i <= j
                       /\ L[i].data[1] \in Nat /\ Sound(start, st, L[i].data[1], Brought(L, C), H)
    BY <1>2 DEF Dir
  <2>2. Sound(start, st, L[i].data[1], Brought(L, C), G)
    BY <2>1, SoundMore
  <2> QED BY <1>1, <2>1, <2>2
<1> QED BY <1>1, <1>2 DEF Dir

(* One more packet with data.                                               *)
Follows(L, M, C, n, a, b) ==
  (\A i \in C : i < n /\ M[i] = L[i]) /\ M[n].data = Span(a, b) /\ M[n].data[1] = a

(* What a packet with data does to its direction.                           *)
Grew(start, st, fed, M, C, G) ==
  /\ Dir(start, fed.st, M, C, G) /\ Longer(st.out, fed.st.out)
  /\ Findings(fed.st) = Findings(st) + (IF fed.issue.kind = "none" THEN 0 ELSE 1)

(* One more packet with data keeps its direction as promised.               *)
LEMMA DirGrows ==
  ASSUME NEW start \in Nat, NEW st, NEW L, NEW C, NEW H, Dir(start, st, L, C, H),
         NEW n \in Nat, NEW a \in 0..Half, NEW b \in 0..Half, a < b,
         NEW M, Follows(L, M, C, n, a, b),
         NEW fed, fed = FeedStream(st, Nr(start, a), Span(a, b)),
         NEW G, H \subseteq G, Holes(start, fed.issue) \subseteq G
  PROVE  Grew(start, st, fed, M, C \cup {n}, G)
<1>f. (\A i \in C : i < n /\ M[i] = L[i]) /\ M[n].data = Span(a, b) /\ M[n].data[1] = a
  BY DEF Follows
<1>h. a \in Nat /\ b \in Nat /\ Half \in Nat
  BY HalfOf
<1> DEFINE R == Brought(L, C)
           Q == Brought(M, C \cup {n})
           was == [st EXCEPT !.segments = @ + 1]
<1>0. Bytes(M[n].data) = a..(b - 1)
  BY <1>f, <1>h, SpanMeans
<1>1. Q = R \cup a..(b - 1)
  <2>1. Brought(M, C \cup {n}) = Brought(L, C) \cup Bytes(M[n].data)
    <3>1. \A i \in C : M[i] = L[i]
      BY <1>f
    <3>2. Brought(M, C) = Brought(L, C)
      BY <3>1 DEF Brought
    <3>3. Brought(M, C \cup {n}) = Brought(M, C) \cup Bytes(M[n].data)
      BY Zenon DEF Brought
    <3> QED BY <3>2, <3>3
  <2> QED BY <1>0, <2>1
<1>2. StreamShape(st) /\ R \subseteq Nat /\ Q \subseteq Nat /\ st.segments = Cardinality(C)
  <2>1. StreamShape(st) /\ R \subseteq Nat /\ st.segments = Cardinality(C)
    BY DEF Dir
  <2>2. a..(b - 1) \subseteq Nat
    BY <1>h
  <2> QED BY <1>1, <2>1, <2>2, Zenon
<1>3. was.out = st.out /\ was.segments = st.segments + 1 /\ Findings(was) = Findings(st)
  <2>1. was = [base |-> st.base, next |-> st.next, buffer |-> st.buffer, out |-> st.out, segments |-> st.segments + 1,
               gaps |-> st.gaps, retransmissions |-> st.retransmissions, overlaps |-> st.overlaps]
    BY <1>2 DEF StreamShape
  <2> QED BY <2>1 DEF Findings
<1>4. IsFiniteSet(C \cup {n}) /\ Cardinality(C \cup {n}) = st.segments + 1 /\ C \cup {n} \subseteq Nat
  <2>1. n \notin C
    BY <1>f DEF Dir
  <2> QED BY <1>2, <2>1, FS_AddElement DEF Dir
<1> HIDE DEF R, Q, was
<1>5. PICK i \in C \cup {n} : /\ \A j \in C \cup {n} : i <= j
                              /\ M[i].data[1] \in Nat
                              /\ Steps(start, was, fed, M[i].data[1], Q, H)
  <2>1. CASE C = {}
    <3>1. Fresh(st) /\ R = {} /\ Q = a..(b - 1)
      BY <1>1, <2>1 DEF Dir, R, Brought
    <3>2. Steps(start, was, fed, a, a..(b - 1), {})
      BY <3>1, FirstSteps DEF was
    <3>3. Sound(start, fed.st, a, Q, {} \cup Holes(start, fed.issue))
      BY <3>1, <3>2 DEF Steps
    <3>4. Sound(start, fed.st, a, Q, H \cup Holes(start, fed.issue))
      BY <3>3, SoundMore
    <3>5. Steps(start, was, fed, a, Q, H)
      BY <3>2, <3>4 DEF Steps
    <3> QED BY <1>f, <1>h, <2>1, <3>5
  <2>2. CASE C # {}
    <3>1. PICK i \in C : /\ \A j \in C : i <= j
                         /\ L[i].data[1] \in Nat /\ Sound(start, st, L[i].data[1], R, H)
      BY <2>2 DEF Dir, R
    <3>2. Steps(start, was, fed, L[i].data[1], Q, H)
      <4>1. \A low \in Nat : Sound(start, st, low, R, H) => Steps(start, was, fed, low, R \cup a..(b - 1), H)
        BY <1>2, FeedSteps DEF was
      <4> QED BY <1>1, <3>1, <4>1
    <3>3. i <= n /\ M[i] = L[i] /\ i <= i
      BY <1>f, <3>1 DEF Dir
    <3> QED BY <3>1, <3>2, <3>3
  <2> QED BY <2>1, <2>2
<1>6. Sound(start, fed.st, M[i].data[1], Q, G)
  <2>1. Sound(start, fed.st, M[i].data[1], Q, H \cup Holes(start, fed.issue))
    BY <1>5 DEF Steps
  <2>2. H \cup Holes(start, fed.issue) \subseteq G
    OBVIOUS
  <2> QED BY <2>1, <2>2, SoundMore
<1>7. Dir(start, fed.st, M, C \cup {n}, G)
  BY <1>2, <1>3, <1>4, <1>5, <1>6 DEF Dir, Q, Steps
<1> QED BY <1>3, <1>5, <1>7 DEF Steps, Grew

(* The end of a direction.                                                  *)
Ended(start, st, f, L, C, G) ==
  /\ Dir(start, f.st, L, C, G) /\ Longer(st.out, f.st.out) /\ f.st.buffer = <<>>
  /\ Findings(f.st) = Findings(st) + (IF f.issue = NoIssue THEN 0 ELSE 1)

(* The end of the capture keeps a direction as promised.                    *)
LEMMA DirFlushed ==
  ASSUME NEW start \in Nat, NEW st, NEW L, NEW C, NEW H, Dir(start, st, L, C, H),
         NEW f, f = FlushStream(st), NEW G, H \subseteq G, Holes(start, f.issue) \subseteq G
  PROVE  Ended(start, st, f, L, C, G)
<1>n. NoIssue.kind = "none"
  BY DEF NoIssue
<1>1. CASE C = {}
  <2>1. Fresh(st)
    BY <1>1 DEF Dir
  <2>2. f = [st |-> st, issue |-> NoIssue]
    BY <2>1 DEF Fresh, FlushStream
  <2>3. f.st = st /\ f.issue = NoIssue
    BY <2>2
  <2>4. Longer(st.out, st.out)
    <3>1. st.out = <<>> /\ <<>> \o <<>> = <<>>
      BY <2>1 DEF Fresh
    <3> QED BY <3>1, NoBytes DEF Longer
  <2>5. Dir(start, st, L, C, G)
    BY DirStays
  <2>6. Findings(st) \in Nat
    BY <2>1 DEF Findings, Fresh, StreamShape
  <2> QED BY <2>1, <2>3, <2>4, <2>5, <2>6 DEF Fresh, Ended
<1>2. CASE C # {}
  <2> DEFINE R == Brought(L, C)
  <2>1. PICK i \in C : /\ \A j \in C : i <= j
                       /\ L[i].data[1] \in Nat /\ Sound(start, st, L[i].data[1], R, H)
    BY <1>2 DEF Dir
  <2>2. /\ Steps(start, st, f, L[i].data[1], R, H) /\ f.st.buffer = <<>>
        /\ f.issue.kind = "none" => f.issue = NoIssue
    <3>1. StreamShape(st) /\ R \subseteq Nat
      BY DEF Dir
    <3> HIDE DEF R
    <3>2. \A low \in Nat : Sound(start, st, low, R, H) => /\ Steps(start, st, f, low, R, H) /\ f.st.buffer = <<>>
                                                          /\ f.issue.kind = "none" => f.issue = NoIssue
      BY <3>1, FlushSteps
    <3> QED BY <2>1, <3>2
  <2> HIDE DEF R
  <2>3. Sound(start, f.st, L[i].data[1], R, G)
    <3>1. Sound(start, f.st, L[i].data[1], R, H \cup Holes(start, f.issue))
      BY <2>2 DEF Steps
    <3>2. H \cup Holes(start, f.issue) \subseteq G
      OBVIOUS
    <3> QED BY <3>1, <3>2, SoundMore
  <2>4. Dir(start, f.st, L, C, G)
    BY <1>2, <2>1, <2>2, <2>3 DEF Dir, R, Steps
  <2> QED BY <1>n, <2>2, <2>4 DEF Steps, Ended
<1> QED BY <1>1, <1>2

(* What a direction promises.                                               *)
LEMMA DirPromises ==
  ASSUME NEW start, NEW st, NEW L, NEW C, NEW H, Dir(start, st, L, C, H)
  PROVE  /\ st.out \in Seq(Nat) /\ \A i \in 1..(Len(st.out) - 1) : st.out[i] < st.out[i + 1]
         /\ Bytes(st.out) \subseteq Brought(L, C)
         /\ Len(st.buffer) <= 1 /\ st.segments = Cardinality(C)
         /\ st.buffer = <<>> => \A b \in Brought(L, C) \ Bytes(st.out) : b < L[First(C)].data[1] \/ b \in H
<1>1. CASE C = {}
  <2>1. Fresh(st) /\ Brought(L, C) = {}
    BY <1>1 DEF Dir, Brought
  <2> QED BY <2>1, NoBytes DEF Fresh, Dir
<1>2. CASE C # {}
  <2>1. PICK i \in C : /\ \A j \in C : i <= j
                       /\ L[i].data[1] \in Nat /\ Sound(start, st, L[i].data[1], Brought(L, C), H)
    BY <1>2 DEF Dir
  <2>2. First(C) = i
    <3>1. C \subseteq Nat
      BY DEF Dir
    <3>2. i \in C /\ \A j \in C : i <= j
      BY <2>1
    <3>3. \A x \in C : (\A j \in C : x <= j) => x = i
      BY <3>1, <3>2
    <3> QED BY <3>2, <3>3, Zenon DEF First
  <2> DEFINE low == L[i].data[1]
             R == Brought(L, C)
  <2>3. PICK n \in low..Half : st.next = Nr(start, n) /\ Yield(st.out, low, R, H, n) /\ Holding(start, st.buffer, R, n)
    BY <2>1 DEF Sound
  <2>4. low \in Nat /\ n \in Nat /\ R \subseteq Nat
    BY <2>1, <2>3, HalfOf DEF Dir
  <2> HIDE DEF low, R
  <2>5. /\ st.out \in Seq(Nat) /\ \A j \in 1..(Len(st.out) - 1) : st.out[j] < st.out[j + 1]
        /\ Bytes(st.out) \subseteq R /\ low..(n - 1) \subseteq Bytes(st.out) \cup H
    BY <2>3 DEF Yield, Ups
  <2>6. Len(st.buffer) <= 1
    <3>1. \A x : Len(<<x>>) = 1
      OBVIOUS
    <3>2. Len(<<>>) = 0
      OBVIOUS
    <3>3. st.buffer = <<>> \/ \E x : st.buffer = <<x>>
      BY <2>3, Zenon DEF Holding
    <3>4. Len(st.buffer) = 0 \/ Len(st.buffer) = 1
      BY <3>1, <3>2, <3>3
    <3>5. 0 <= 1 /\ 1 <= 1
      OBVIOUS
    <3> QED BY <3>4, <3>5, Zenon
  <2>7. ASSUME st.buffer = <<>>, NEW b \in R \ Bytes(st.out) PROVE b < low \/ b \in H
    <3>1. b < n
      <4>1. \A x : <<x>> # <<>>
        OBVIOUS
      <4> QED BY <2>3, <2>7, <4>1 DEF Holding
    <3>2. b < low \/ b \in low..(n - 1)
      BY <2>4, <3>1
    <3> QED BY <2>5, <2>7, <3>2
  <2> QED BY <2>2, <2>5, <2>6, <2>7 DEF low, R, Dir
<1> QED BY <1>1, <1>2

(* What is told as missing stays so, whatever more is told and comes.       *)
LEMMA MissedMore ==
  ASSUME NEW T, NEW U, DOMAIN T \subseteq DOMAIN U, \A i \in DOMAIN T : U[i] = T[i],
         NEW id, NEW L, NEW M, NEW C, NEW E, C \subseteq E, \A i \in C : M[i] = L[i]
  PROVE  Missed(T, id, L, C) \subseteq Missed(U, id, M, E)
<1> SUFFICES ASSUME NEW b \in Missed(T, id, L, C) PROVE b \in Missed(U, id, M, E)
  OBVIOUS
<1>1. PICK i \in DOMAIN T : \E n \in C : Gap(T, i, id, L, n, b)
  BY DEF Missed
<1>2. PICK n \in C : Gap(T, i, id, L, n, b)
  BY <1>1
<1>3. U[i] = T[i] /\ M[n] = L[n] /\ i \in DOMAIN U /\ n \in E /\ b \in 0..SeqSpace
  BY DEF Missed
<1>4. Gap(U, i, id, M, n, b)
  BY <1>2, <1>3 DEF Gap
<1> QED BY <1>3, <1>4 DEF Missed

(* The bytes a gap names are told as missing.                               *)
LEMMA MissedHoles ==
  ASSUME NEW T, NEW i \in DOMAIN T, NEW id, NEW issue, T[i] = Told("issue", id, issue),
         NEW L, NEW C, NEW n \in C, NEW start \in Nat,
         L[n].data[1] \in Nat, L[n].seq = Nr(start, L[n].data[1])
  PROVE  Holes(start, issue) \subseteq Missed(T, id, L, C)
<1> SUFFICES ASSUME NEW b \in Holes(start, issue) PROVE b \in Missed(T, id, L, C)
  OBVIOUS
<1>1. issue.kind = "gap" /\ b \in 0..Half /\ Ahead(Nr(start, b), issue.at) < issue.size
  BY DEF Holes
<1>2. b \in Nat /\ b \in 0..SeqSpace
  <2>1. Half \in Nat /\ 2 * Half < SeqSpace
    BY HalfOf
  <2> QED BY <1>1, <2>1, StreamAssumption
<1> DEFINE a == L[n].data[1]
<1>3. (L[n].seq + b - a) % SeqSpace = Nr(start, b)
  <2>1. a \in Nat /\ L[n].seq = Nr(start, a)
    OBVIOUS
  <2> HIDE DEF a
  <2>2. b - a \in Int /\ a + (b - a) = b
    BY <1>2, <2>1
  <2>3. (Nr(start, a) + (b - a)) % SeqSpace = Nr(start, b)
    BY <1>2, <2>1, <2>2, MovedOn
  <2>4. Nr(start, a) \in Nat
    BY <2>1, Numbers
  <2>5. Nr(start, a) + b - a = Nr(start, a) + (b - a)
    BY <1>2, <2>1, <2>4
  <2> QED BY <2>1, <2>3, <2>5
<1>4. T[i].kind = "issue" /\ T[i].flow = id /\ T[i].what = issue
  BY DEF Told
<1>5. Gap(T, i, id, L, n, b)
  BY <1>1, <1>3, <1>4 DEF Gap
<1> QED BY <1>2, <1>5 DEF Missed

----------------------------------------------------------------------------
(* Where a timeline tells findings, and those of a flow.                    *)
Issued(T) == {i \in DOMAIN T : T[i].kind = "issue"}
IssuedOf(T, id) == {i \in Issued(T) : T[i].flow = id}

(* The findings of two timelines in a row are those of each.                *)
LEMMA JoinedIssues ==
  ASSUME NEW S, NEW T, NEW s \in Seq(S), NEW t \in Seq(T)
  PROVE  Issued(s \o t) = Issued(s) \cup Shifted(Len(s), Issued(t))
<1>1. ASSUME NEW i \in Issued(s \o t) PROVE i \in Issued(s) \cup Shifted(Len(s), Issued(t))
  <2>1. i \in 1..(Len(s) + Len(t)) /\ (s \o t)[i].kind = "issue"
    BY Joined DEF Issued
  <2>2. CASE i \in 1..Len(s)
    BY <2>1, <2>2, Joined DEF Issued
  <2>3. CASE i - Len(s) \in 1..Len(t) /\ i = Len(s) + (i - Len(s))
    <3>1. (s \o t)[Len(s) + (i - Len(s))] = t[i - Len(s)]
      BY <2>3, Joined
    <3>2. i - Len(s) \in Issued(t)
      BY <2>1, <2>3, <3>1, Joined DEF Issued
    <3> QED BY <2>3, <3>2 DEF Shifted
  <2> QED BY <2>1, <2>2, <2>3, Joined
<1>2. ASSUME NEW i \in Issued(s) PROVE i \in Issued(s \o t)
  BY <1>2, Joined DEF Issued
<1>3. ASSUME NEW i \in Issued(t) PROVE Len(s) + i \in Issued(s \o t)
  BY <1>3, Joined DEF Issued
<1> QED BY <1>1, <1>2, <1>3 DEF Shifted

(* What is told of a packet before its finding is none.                     *)
LEMMA EventsTellNoIssue ==
  ASSUME NEW p, NEW started \in BOOLEAN, NEW before, NEW flow
  PROVE  \E S : Events(p, started, before, flow) \in Seq(S) /\ Issued(Events(p, started, before, flow)) = {}
<1> DEFINE x1 == Told("flow", flow.id, p.protocol)
           x2 == Told("state", flow.id, flow.state)
           x3 == Told("app", flow.id, p.app)
           S == {x1, x2, x3}
           A == Maybe(started, x1)
           B == Maybe(flow.state # "NONE" /\ flow.state # before, x2)
           C == Maybe(p.app # Nothing, x3)
<1>1. \A c \in BOOLEAN, x \in S : Maybe(c, x) \in Seq(S)
  <2> SUFFICES ASSUME NEW c \in BOOLEAN, NEW x \in S PROVE Maybe(c, x) \in Seq(S)
    OBVIOUS
  <2> HIDE DEF S
  <2> QED BY DEF Maybe
<1>2. A \in Seq(S) /\ B \in Seq(S) /\ C \in Seq(S)
  BY <1>1
<1>3. \A x \in S : x.kind # "issue"
  BY DEF Told
<1>4. Events(p, started, before, flow) = (A \o B) \o C
  BY DEF Events
<1> HIDE DEF S, A, B, C
<1>5. (A \o B) \o C \in Seq(S)
  BY <1>2
<1>6. \A s \in Seq(S) : Issued(s) = {}
  <2> SUFFICES ASSUME NEW s \in Seq(S) PROVE Issued(s) = {}
    OBVIOUS
  <2>1. \A i \in DOMAIN s : s[i] \in S
    OBVIOUS
  <2> QED BY <1>3, <2>1 DEF Issued
<1> QED BY <1>4, <1>5, <1>6

(* A finding is told last, or none is.                                      *)
LEMMA IssueTold ==
  ASSUME NEW id, NEW issue, NEW tcp \in BOOLEAN, NEW e, e = IF tcp THEN IssueEvent(id, issue) ELSE <<>>
  PROVE  /\ e \in Seq({Told("issue", id, issue)})
         /\ tcp /\ issue.kind # "none" => DOMAIN e = {1} /\ e[1] = Told("issue", id, issue) /\ Issued(e) = {1}
         /\ ~(tcp /\ issue.kind # "none") => Issued(e) = {}
<1> DEFINE x == Told("issue", id, issue)
<1>1. x.kind = "issue"
  BY DEF Told
<1>2. CASE tcp /\ issue.kind # "none"
  <2>1. e = <<x>>
    BY <1>2 DEF IssueEvent, Maybe
  <2> HIDE DEF x
  <2>0. <<x>> \in Seq({x}) /\ DOMAIN <<x>> = {1} /\ <<x>>[1] = x
    OBVIOUS
  <2>2. e \in Seq({x}) /\ DOMAIN e = {1} /\ e[1] = x
    BY <2>0, <2>1, Zenon
  <2>3. Issued(e) = {1}
    BY <1>1, <2>2 DEF Issued
  <2> QED BY <1>2, <2>2, <2>3 DEF x
<1>3. CASE ~(tcp /\ issue.kind # "none")
  <2>1. e = <<>>
    BY <1>3 DEF IssueEvent, Maybe
  <2>2. DOMAIN <<>> = {} /\ <<>> \in Seq({x})
    OBVIOUS
  <2>3. Issued(e) = {}
    BY <2>1, <2>2 DEF Issued
  <2> QED BY <1>3, <2>1, <2>2, <2>3
<1> QED BY <1>2, <1>3

(* What one packet adds to the timeline, of findings.                       *)
Issues(T, U, tell, x) ==
  /\ DOMAIN T \subseteq DOMAIN U /\ \A i \in DOMAIN T : U[i] = T[i]
  /\ tell => \E n \in DOMAIN U : n \notin DOMAIN T /\ U[n] = x /\ Issued(U) = Issued(T) \cup {n}
  /\ ~tell => Issued(U) = Issued(T)

(* PacketArrives adds to the timeline at most one finding, that of its      *)
(* segment.                                                                 *)
LEMMA IssueMoves ==
  ASSUME EngineShape, NEW p \in traffic, PacketArrives(p), NEW K, K = FlowKey(p)
  PROVE  LET flow == TrackedFlow(p)
             fed == Conversed(Got(convs, K, NewConversation), flow, p, Len(log) + 1) IN
         Issues(timeline, timeline', p.protocol = "TCP" /\ fed.issue.kind # "none", Told("issue", flow.id, fed.issue))
<1> DEFINE flow == TrackedFlow(p)
           started == K \notin DOMAIN flows
           before == IF started THEN "NONE" ELSE flows[K].state
           tcp == p.protocol = "TCP"
           fed == Conversed(Got(convs, K, NewConversation), flow, p, Len(log) + 1)
           x == Told("issue", flow.id, fed.issue)
           tell == tcp /\ fed.issue.kind # "none"
           X == Events(p, started, before, flow)
           Y == IF tcp THEN IssueEvent(flow.id, fed.issue) ELSE <<>>
           T == timeline
           U == timeline'
<1>1. U = (T \o X) \o Y
  BY DEF PacketArrives
<1>2. PICK S : T \in Seq(S)
  BY DEF EngineShape
<1>3. PICK Z : X \in Seq(Z) /\ Issued(X) = {}
  BY EventsTellNoIssue
<1>4. /\ Y \in Seq({x})
      /\ tell => DOMAIN Y = {1} /\ Y[1] = x /\ Issued(Y) = {1}
      /\ ~tell => Issued(Y) = {}
  <2>1. tcp \in BOOLEAN
    OBVIOUS
  <2> HIDE DEF flow, fed, tcp
  <2>2. PICK y : y = Y
    OBVIOUS
  <2>3. y = IF tcp THEN IssueEvent(flow.id, fed.issue) ELSE <<>>
    BY <2>2
  <2> HIDE DEF Y
  <2>4. /\ y \in Seq({Told("issue", flow.id, fed.issue)})
        /\ tcp /\ fed.issue.kind # "none" => DOMAIN y = {1} /\ y[1] = Told("issue", flow.id, fed.issue) /\ Issued(y) = {1}
        /\ ~(tcp /\ fed.issue.kind # "none") => Issued(y) = {}
    BY <2>1, <2>3, IssueTold
  <2> QED BY <2>2, <2>4
<1> HIDE DEF flow, started, before, tcp, fed, x, tell, X, Y, T, U
<1> DEFINE V == T \o X
<1>5. /\ V \in Seq(S \cup Z) /\ DOMAIN T = 1..Len(T) /\ DOMAIN V = 1..Len(V) /\ Len(V) \in Nat /\ Len(T) <= Len(V) /\ Len(T) \in Nat
      /\ \A i \in 1..Len(T) : V[i] = T[i]
  BY <1>2, <1>3, Joined
<1>6. Issued(V) = Issued(T)
  <2>1. Issued(V) = Issued(T) \cup Shifted(Len(T), Issued(X))
    <3>1. \A s \in Seq(S), t \in Seq(Z) : Issued(s \o t) = Issued(s) \cup Shifted(Len(s), Issued(t))
      BY JoinedIssues
    <3> QED BY <1>2, <1>3, <3>1
  <2>2. Shifted(Len(T), {}) = {}
    BY Zenon DEF Shifted
  <2> QED BY <1>3, <2>1, <2>2
<1> HIDE DEF V
<1>7. /\ U = V \o Y /\ Len(Y) \in Nat /\ DOMAIN Y = 1..Len(Y) /\ DOMAIN U = 1..(Len(V) + Len(Y))
      /\ \A i \in 1..Len(V) : U[i] = V[i]
      /\ \A i \in 1..Len(Y) : U[Len(V) + i] = Y[i]
      /\ Issued(U) = Issued(V) \cup Shifted(Len(V), Issued(Y))
  <2>1. U = V \o Y
    BY <1>1 DEF V
  <2>2. \A s \in Seq(S \cup Z), t \in Seq({x}) :
          /\ Len(t) \in Nat /\ DOMAIN t = 1..Len(t) /\ DOMAIN (s \o t) = 1..(Len(s) + Len(t))
          /\ \A i \in 1..Len(s) : (s \o t)[i] = s[i]
          /\ \A i \in 1..Len(t) : (s \o t)[Len(s) + i] = t[i]
          /\ Issued(s \o t) = Issued(s) \cup Shifted(Len(s), Issued(t))
    BY Joined, JoinedIssues
  <2>3. /\ Len(Y) \in Nat /\ DOMAIN Y = 1..Len(Y) /\ DOMAIN (V \o Y) = 1..(Len(V) + Len(Y))
        /\ \A i \in 1..Len(V) : (V \o Y)[i] = V[i]
        /\ \A i \in 1..Len(Y) : (V \o Y)[Len(V) + i] = Y[i]
        /\ Issued(V \o Y) = Issued(V) \cup Shifted(Len(V), Issued(Y))
    BY <1>4, <1>5, <2>2
  <2> QED BY <2>1, <2>3
<1>8. DOMAIN T \subseteq DOMAIN U /\ \A i \in DOMAIN T : U[i] = T[i]
  BY <1>5, <1>7
<1>9. ASSUME tell PROVE \E n \in DOMAIN U : n \notin DOMAIN T /\ U[n] = x /\ Issued(U) = Issued(T) \cup {n}
  <2> DEFINE n == Len(V) + 1
  <2>1. 1 \in 1..Len(Y) /\ Y[1] = x /\ Issued(Y) = {1}
    BY <1>4, <1>7, <1>9
  <2>2. U[n] = x
    BY <1>7, <2>1
  <2>3. n \in DOMAIN U /\ n \notin DOMAIN T
    BY <1>5, <1>7, <2>1
  <2>4. Shifted(Len(V), {1}) = {n}
    BY Zenon DEF Shifted
  <2>5. Issued(U) = Issued(T) \cup {n}
    BY <1>6, <1>7, <2>1, <2>4
  <2> HIDE DEF n
  <2> QED BY <2>2, <2>3, <2>5
<1>10. ASSUME ~tell PROVE Issued(U) = Issued(T)
  <2>1. Shifted(Len(V), {}) = {}
    BY Zenon DEF Shifted
  <2> QED BY <1>4, <1>6, <1>7, <1>10, <2>1
<1>11. Issues(T, U, tell, x)
  BY <1>8, <1>9, <1>10 DEF Issues
<1> QED BY <1>11 DEF flow, tcp, fed, x, tell, T, U

(***************************************************************************)
(* One conversation: both directions, what the parser was given and the    *)
(* findings told.                                                          *)
(***************************************************************************)

(* What follows the part that was there before is what was added.           *)
LEMMA FromJoined ==
  ASSUME NEW s \in Seq(Nat), NEW t \in Seq(Nat)
  PROVE  From(s \o t, Len(s)) = t
<1> DEFINE u == s \o t
           v == From(u, Len(s))
<1>1. /\ u \in Seq(Nat) /\ Len(u) = Len(s) + Len(t) /\ Len(s) \in Nat /\ Len(t) \in Nat
      /\ \A i \in 1..Len(t) : u[Len(s) + i] = t[i]
  BY JoinedBytes
<1> HIDE DEF u
<1>2. Len(s) \in 0..Len(u) /\ Len(u) - Len(s) = Len(t)
  BY <1>1
<1>3. v \in Seq(Nat) /\ Len(v) = Len(t) /\ \A i \in 1..Len(t) : v[i] = u[Len(s) + i]
  <2>1. \A n \in 0..Len(u) : /\ From(u, n) \in Seq(Nat) /\ Len(From(u, n)) = Len(u) - n
                            /\ \A i \in 1..(Len(u) - n) : From(u, n)[i] = u[n + i]
    BY <1>1, FromMeans
  <2> QED BY <1>2, <2>1
<1> HIDE DEF v
<1>4. \A i \in 1..Len(v) : v[i] = t[i]
  BY <1>1, <1>3
<1>5. v = t
  BY <1>3, <1>4, SeqEqual
<1> QED BY <1>5 DEF u, v

(* A conversation has a text for each direction.                            *)
Texts(c) == c.text = [r \in Roles |-> c.text[r]]

(* What one segment does to the directions of its conversation.             *)
Turned(c, d, p, role, fed) ==
  /\ Texts(d.conv)
  /\ p.data = <<>> => d.issue = NoIssue /\ \A r \in Roles : d.conv[r] = c[r] /\ d.conv.text[r] = c.text[r]
  /\ p.data # <<>> =>
       /\ d.issue = fed.issue /\ d.conv[role] = fed.st
       /\ d.conv.text[role] = c.text[role] \o From(fed.st.out, Len(c[role].out))
       /\ \A r \in Roles \ {role} : d.conv[r] = c[r] /\ d.conv.text[r] = c.text[r]

(* A segment turns the direction of its sender and leaves the other one.    *)
LEMMA ConversedDirections ==
  ASSUME NEW c, ConvShape(c), Texts(c), NEW flow, NEW p, NEW ts,
         NEW role, role = Role(flow, p), NEW fed, fed = FeedStream(c[role], p.seq, p.data),
         NEW d, d = Conversed(c, flow, p, ts)
  PROVE  Turned(c, d, p, role, fed)
<1> DEFINE new == From(fed.st.out, Len(c[role].out))
           met == OnSegment(c.metrics, p, role, ts)
<1>1. d = IF p.data = <<>> THEN [conv |-> [c EXCEPT !.metrics = OnSegment(@, p, role, ts)], issue |-> NoIssue]
          ELSE [conv |-> [c EXCEPT !.metrics = OnSegment(@, p, role, ts), ![role] = fed.st, !.text[role] = @ \o new],
                issue |-> fed.issue]
  BY DEF Conversed
<1> HIDE DEF new
<1>2. c = [client |-> c.client, server |-> c.server, metrics |-> c.metrics, text |-> c.text]
  BY DEF ConvShape
<1>3. role = "client" \/ role = "server"
  BY DEF Role
<1>4. CASE p.data = <<>>
  <2>1. PICK e : e = [c EXCEPT !.metrics = OnSegment(@, p, role, ts)]
    OBVIOUS
  <2>2. e = [client |-> c.client, server |-> c.server, metrics |-> met, text |-> c.text]
    BY <1>2, <2>1
  <2>3. d.conv = e /\ d.issue = NoIssue
    BY <1>1, <1>4, <2>1
  <2>4. e.client = c.client /\ e.server = c.server /\ e.text = c.text
    BY <2>2
  <2> QED BY <1>4, <2>3, <2>4 DEF Roles, Texts, Turned
<1>5. CASE p.data # <<>>
  <2> DEFINE text == [r \in Roles |-> IF r = role THEN c.text[role] \o new ELSE c.text[r]]
  <2>1. PICK e : e = [c EXCEPT !.metrics = OnSegment(@, p, role, ts), ![role] = fed.st, !.text[role] = @ \o new]
    OBVIOUS
  <2>2. d.conv = e /\ d.issue = fed.issue
    BY <1>1, <1>5, <2>1
  <2>3. [c.text EXCEPT ![role] = @ \o new] = text
    BY <1>3 DEF Texts, Roles
  <2>4. CASE role = "client"
    <3>1. e = [client |-> fed.st, server |-> c.server, metrics |-> met, text |-> text]
      BY <1>2, <2>1, <2>3, <2>4
    <3>2. e.client = fed.st /\ e.server = c.server /\ e.text = text
      BY <3>1
    <3> QED BY <1>5, <2>2, <2>4, <3>2 DEF Roles, Texts, Turned, new
  <2>5. CASE role = "server"
    <3>1. e = [client |-> c.client, server |-> fed.st, metrics |-> met, text |-> text]
      BY <1>2, <2>1, <2>3, <2>5
    <3>2. e.client = c.client /\ e.server = fed.st /\ e.text = text
      BY <3>1
    <3> QED BY <1>5, <2>2, <2>5, <3>2 DEF Roles, Texts, Turned, new
  <2> QED BY <1>3, <2>4, <2>5
<1> QED BY <1>4, <1>5

----------------------------------------------------------------------------
(* What a peer of the flow sent in direction r is numbered from start.      *)
Numbered(start, Tr, f, k, r) ==
  \A q \in Tr : FlowKey(q) = k /\ Role(f, q) = r /\ q.data # <<>> => q.seq = Nr(start, q.data[1])

(* The packets D that came in direction r have made its stream what it is.  *)
Directed(Tr, f, k, r, st, L, C, T) ==
  \E start \in 0..(SeqSpace - 1) : Numbered(start, Tr, f, k, r) /\ Dir(start, st, L, C, Missed(T, f.id, L, C))

(* What the parser was given of a direction is what it yielded; after the   *)
(* end nothing is held back.                                                *)
Worded(text, st, ended) ==
  /\ ended => st.buffer = <<>> /\ text \in Seq(Nat) /\ Longer(text, st.out)
  /\ ~ended => text = st.out

(* Each finding of a flow is told once.                                     *)
Marked(T, id, c) ==
  /\ IsFiniteSet(IssuedOf(T, id))
  /\ Cardinality(IssuedOf(T, id)) = Findings(c["client"]) + Findings(c["server"])

(* A conversation c of flow f with key k, when the packets D of the log L   *)
(* came and T is the timeline: both directions as promised, and every       *)
(* finding told.                                                            *)
Sincere(Tr, f, k, c, L, D, T, ended) ==
  /\ Texts(c) /\ Marked(T, f.id, c)
  /\ \A r \in Roles : Worded(c.text[r], c[r], ended)
  /\ \A r \in Roles : Directed(Tr, f, k, r, c[r], L, D[r], T)

(* Packets of other flows leave it as it is.                                *)
LEMMA SincereStays ==
  ASSUME NEW Tr, NEW f, NEW k, NEW c, NEW L, NEW D, NEW T, NEW ended, Sincere(Tr, f, k, c, L, D, T, ended),
         NEW g, g.id = f.id, g.dst = f.dst,
         NEW M, \A r \in Roles : \A i \in D[r] : M[i] = L[i],
         NEW U, DOMAIN T \subseteq DOMAIN U, \A i \in DOMAIN T : U[i] = T[i], IssuedOf(U, f.id) = IssuedOf(T, f.id)
  PROVE  Sincere(Tr, g, k, c, M, D, U, ended)
<1>1. Marked(U, g.id, c)
  BY DEF Sincere, Marked
<1>2. ASSUME NEW r \in Roles PROVE Directed(Tr, g, k, r, c[r], M, D[r], U)
  <2>1. PICK start \in 0..(SeqSpace - 1) : Numbered(start, Tr, f, k, r) /\ Dir(start, c[r], L, D[r], Missed(T, f.id, L, D[r]))
    BY DEF Sincere, Directed
  <2>2. \A i \in D[r] : M[i] = L[i]
    OBVIOUS
  <2>3. Missed(T, f.id, L, D[r]) \subseteq Missed(U, f.id, M, D[r])
    BY <2>2, MissedMore
  <2>4. Dir(start, c[r], M, D[r], Missed(U, f.id, M, D[r]))
    BY <2>1, <2>2, <2>3, DirStays
  <2>5. Numbered(start, Tr, g, k, r)
    BY <2>1 DEF Numbered, Role
  <2> QED BY <2>4, <2>5 DEF Directed
<1> QED BY <1>1, <1>2 DEF Sincere

(* The findings of a flow, one more told or none.                           *)
LEMMA IssuesOfFlow ==
  ASSUME NEW T, NEW U, NEW tell, NEW id, NEW x, x.flow = id, Issues(T, U, tell, x), NEW j
  PROVE  /\ ~tell \/ j # id => IssuedOf(U, j) = IssuedOf(T, j)
         /\ tell => \E n : n \in DOMAIN U /\ U[n] = x /\ n \notin IssuedOf(T, id) /\ IssuedOf(U, id) = IssuedOf(T, id) \cup {n}
<1>1. Issued(T) \subseteq DOMAIN T /\ \A i \in DOMAIN T : U[i] = T[i]
  BY DEF Issued, Issues
<1>2. ASSUME ~tell PROVE IssuedOf(U, j) = IssuedOf(T, j)
  <2>1. Issued(U) = Issued(T)
    BY <1>2 DEF Issues
  <2> QED BY <1>1, <2>1 DEF IssuedOf
<1>3. ASSUME tell
      PROVE  /\ j # id => IssuedOf(U, j) = IssuedOf(T, j)
             /\ \E n : n \in DOMAIN U /\ U[n] = x /\ n \notin IssuedOf(T, id) /\ IssuedOf(U, id) = IssuedOf(T, id) \cup {n}
  <2>1. PICK n \in DOMAIN U : n \notin DOMAIN T /\ U[n] = x /\ Issued(U) = Issued(T) \cup {n}
    BY <1>3 DEF Issues
  <2>2. IssuedOf(U, id) = IssuedOf(T, id) \cup {n}
    BY <1>1, <2>1 DEF IssuedOf
  <2>3. n \notin IssuedOf(T, id)
    BY <1>1, <2>1 DEF IssuedOf
  <2>4. j # id => IssuedOf(U, j) = IssuedOf(T, j)
    BY <1>1, <2>1 DEF IssuedOf
  <2> QED BY <2>1, <2>2, <2>3, <2>4
<1> QED BY <1>2, <1>3

(* The text of a direction is still all it yielded.                         *)
LEMMA TextGrows ==
  ASSUME NEW out \in Seq(Nat), NEW more, Longer(out, more)
  PROVE  out \o From(more, Len(out)) = more
<1>1. PICK s \in Seq(Nat) : more = out \o s
  BY DEF Longer
<1>2. From(more, Len(out)) = s
  BY <1>1, FromJoined
<1> QED BY <1>1, <1>2

(* The next packet of a conversation: it comes at place n of the log.       *)
Arrived(p, n, role, L, D, M, E) ==
  /\ \A r \in Roles : \A i \in D[r] : i < n /\ M[i] = L[i]
  /\ M[n] = p
  /\ \A r \in Roles : E[r] = D[r] \cup (IF r = role /\ p.data # <<>> THEN {n} ELSE {})

(* One more packet keeps its conversation sincere.                          *)
LEMMA SincereGrows ==
  ASSUME NEW Tr \in Traffics, NEW p \in Tr, NEW f, NEW k, k = FlowKey(p), NEW c, ConvShape(c),
         NEW L, NEW D, NEW T, Sincere(Tr, f, k, c, L, D, T, FALSE),
         NEW role, role = Role(f, p), NEW n \in Nat, NEW M, NEW E, Arrived(p, n, role, L, D, M, E),
         NEW d, d = Conversed(c, f, p, n),
         NEW U, Issues(T, U, d.issue.kind # "none", Told("issue", f.id, d.issue))
  PROVE  Sincere(Tr, f, k, d.conv, M, E, U, FALSE)
<1> DEFINE tell == d.issue.kind # "none"
           x == Told("issue", f.id, d.issue)
<1>0. Issues(T, U, tell, x) /\ tell \in BOOLEAN
  OBVIOUS
<1>a. /\ \A r \in Roles : \A i \in D[r] : i < n /\ M[i] = L[i]
      /\ M[n] = p
      /\ \A r \in Roles : E[r] = D[r] \cup (IF r = role /\ p.data # <<>> THEN {n} ELSE {})
  BY DEF Arrived
<1>1. role \in Roles /\ Texts(c)
  BY RoleIsOne DEF Sincere
<1>2. DOMAIN T \subseteq DOMAIN U /\ \A i \in DOMAIN T : U[i] = T[i]
  BY DEF Issues
<1>3. x.flow = f.id
  BY DEF Told
<1>4. /\ ~tell => IssuedOf(U, f.id) = IssuedOf(T, f.id)
      /\ tell => \E m : m \in DOMAIN U /\ U[m] = x /\ m \notin IssuedOf(T, f.id) /\ IssuedOf(U, f.id) = IssuedOf(T, f.id) \cup {m}
  <2> HIDE DEF x, tell
  <2> QED BY <1>0, <1>3, IssuesOfFlow
<1>5. PICK fed : fed = FeedStream(c[role], p.seq, p.data)
  OBVIOUS
<1>6. Turned(c, d, p, role, fed)
  BY <1>1, <1>5, ConversedDirections
<1>7. ASSUME NEW r \in Roles, E[r] = D[r], d.conv[r] = c[r], d.conv.text[r] = c.text[r]
      PROVE  Directed(Tr, f, k, r, d.conv[r], M, E[r], U) /\ Worded(d.conv.text[r], d.conv[r], FALSE)
  <2>1. PICK start \in 0..(SeqSpace - 1) : Numbered(start, Tr, f, k, r) /\ Dir(start, c[r], L, D[r], Missed(T, f.id, L, D[r]))
    BY DEF Sincere, Directed
  <2>2. \A i \in D[r] : M[i] = L[i]
    BY <1>a
  <2>3. Missed(T, f.id, L, D[r]) \subseteq Missed(U, f.id, M, D[r])
    BY <1>2, <2>2, MissedMore
  <2>4. Dir(start, c[r], M, D[r], Missed(U, f.id, M, D[r]))
    BY <2>1, <2>2, <2>3, DirStays
  <2>5. Worded(c.text[r], c[r], FALSE)
    BY DEF Sincere
  <2> QED BY <1>7, <2>1, <2>4, <2>5 DEF Directed
<1>8. Marked(T, f.id, c)
  BY DEF Sincere
<1>9. CASE p.data = <<>>
  <2>1. d.issue = NoIssue /\ ~tell
    BY <1>6, <1>9 DEF NoIssue, Turned
  <2>2. \A r \in Roles : d.conv[r] = c[r] /\ d.conv.text[r] = c.text[r] /\ E[r] = D[r]
    BY <1>6, <1>9, <1>a DEF Turned
  <2>3. \A r \in Roles : Directed(Tr, f, k, r, d.conv[r], M, E[r], U) /\ Worded(d.conv.text[r], d.conv[r], FALSE)
    BY <1>7, <2>2
  <2>4. d.conv["client"] = c["client"] /\ d.conv["server"] = c["server"]
    BY <2>2 DEF Roles
  <2>5. Marked(U, f.id, d.conv)
    BY <1>4, <1>8, <2>1, <2>4 DEF Marked
  <2> QED BY <1>6, <2>3, <2>5 DEF Sincere, Turned
<1>10. CASE p.data # <<>>
  <2>1. PICK a \in 0..Half, b \in 0..Half : a < b /\ p.data = Span(a, b) /\ p.data[1] = a
    BY <1>10, PacketSpans DEF Spans
  <2>2. PICK start \in 0..(SeqSpace - 1) :
          Numbered(start, Tr, f, k, role) /\ Dir(start, c[role], L, D[role], Missed(T, f.id, L, D[role]))
    BY <1>1 DEF Sincere, Directed
  <2>3. p.seq = Nr(start, a) /\ start \in Nat /\ a \in Nat
    <3>1. p.seq = Nr(start, p.data[1])
      BY <1>10, <2>2 DEF Numbered
    <3>2. start \in Nat /\ a \in Nat
      BY <2>1, <2>2, HalfOf, StreamAssumption
    <3> QED BY <2>1, <3>1, <3>2
  <2> DEFINE H == Missed(T, f.id, L, D[role])
             G == Missed(U, f.id, M, E[role])
  <2>4. E[role] = D[role] \cup {n}
    BY <1>1, <1>10, <1>a
  <2>5. H \subseteq G
    <3>1. D[role] \subseteq E[role] /\ \A i \in D[role] : M[i] = L[i]
      BY <1>1, <1>a, <2>4
    <3> QED BY <1>2, <3>1, MissedMore
  <2>6. d.issue = fed.issue
    BY <1>6, <1>10 DEF Turned
  <2>7. Holes(start, fed.issue) \subseteq G
    <3>1. CASE tell
      <4>1. PICK m : m \in DOMAIN U /\ U[m] = x
        BY <1>4, <3>1
      <4>2. n \in E[role] /\ M[n].data[1] \in Nat /\ M[n].seq = Nr(start, M[n].data[1])
        BY <1>a, <2>1, <2>3, <2>4
      <4>3. m \in DOMAIN U /\ U[m] = Told("issue", f.id, d.issue)
        BY <4>1
      <4> HIDE DEF G, x
      <4>4. Holes(start, d.issue) \subseteq Missed(U, f.id, M, E[role])
        BY <2>3, <4>2, <4>3, MissedHoles
      <4> QED BY <2>6, <4>4 DEF G
    <3>2. CASE ~tell
      BY <2>6, <3>2 DEF Holes
    <3> QED BY <3>1, <3>2
  <2> HIDE DEF H, G, tell, x
  <2>8. Grew(start, c[role], fed, M, D[role] \cup {n}, G)
    <3>1. Dir(start, c[role], L, D[role], H)
      BY <2>2 DEF H
    <3>2. Follows(L, M, D[role], n, a, b)
      BY <1>1, <1>a, <2>1 DEF Follows
    <3>3. fed = FeedStream(c[role], Nr(start, a), Span(a, b))
      BY <1>5, <2>1, <2>3
    <3> QED BY <2>1, <2>3, <2>5, <2>7, <3>1, <3>2, <3>3, DirGrows
  <2>9. Directed(Tr, f, k, role, d.conv[role], M, E[role], U)
    <3>1. Dir(start, d.conv[role], M, E[role], Missed(U, f.id, M, E[role]))
      BY <1>6, <1>10, <2>4, <2>8 DEF G, Turned, Grew
    <3> QED BY <2>2, <3>1 DEF Directed
  <2>10. Worded(d.conv.text[role], d.conv[role], FALSE)
    <3>1. c.text[role] = c[role].out
      BY <1>1 DEF Sincere, Worded
    <3>4. Longer(c[role].out, fed.st.out)
      BY <2>8 DEF Grew
    <3>2. c[role].out \in Seq(Nat)
      BY <2>2, DirPromises
    <3>3. c.text[role] \o From(fed.st.out, Len(c[role].out)) = fed.st.out
      BY <3>1, <3>2, <3>4, TextGrows
    <3> QED BY <1>6, <1>10, <3>3 DEF Worded, Turned
  <2>11. ASSUME NEW r \in Roles, r # role
         PROVE  Directed(Tr, f, k, r, d.conv[r], M, E[r], U) /\ Worded(d.conv.text[r], d.conv[r], FALSE)
    BY <1>6, <1>7, <1>10, <1>a, <2>11 DEF Turned
  <2>12. Marked(U, f.id, d.conv)
    <3>1. \A r \in Roles : Findings(c[r]) \in Nat
      <4> SUFFICES ASSUME NEW r \in Roles PROVE Findings(c[r]) \in Nat
        OBVIOUS
      <4>1. StreamShape(c[r])
        BY DEF Sincere, Directed, Dir
      <4> QED BY <4>1 DEF StreamShape, Findings
    <3>2. PICK more \in {0, 1} : more = IF tell THEN 1 ELSE 0
      OBVIOUS
    <3>3. Findings(d.conv[role]) = Findings(c[role]) + more
      BY <1>6, <1>10, <2>6, <2>8, <3>2 DEF tell, Turned, Grew
    <3>4. \A r \in Roles \ {role} : d.conv[r] = c[r]
      BY <1>6, <1>10 DEF Turned
    <3>5. Findings(d.conv["client"]) + Findings(d.conv["server"]) = Findings(c["client"]) + Findings(c["server"]) + more
      <4>1. CASE role = "client"
        <5>1. d.conv["server"] = c["server"]
          BY <3>4, <4>1 DEF Roles
        <5>2. Findings(c["client"]) \in Nat /\ Findings(c["server"]) \in Nat
          BY <3>1 DEF Roles
        <5> QED BY <3>3, <4>1, <5>1, <5>2
      <4>2. CASE role = "server"
        <5>1. d.conv["client"] = c["client"]
          BY <3>4, <4>2 DEF Roles
        <5>2. Findings(c["client"]) \in Nat /\ Findings(c["server"]) \in Nat
          BY <3>1 DEF Roles
        <5> QED BY <3>3, <4>2, <5>1, <5>2
      <4> QED BY <1>1, <4>1, <4>2 DEF Roles
    <3>6. IsFiniteSet(IssuedOf(U, f.id)) /\ Cardinality(IssuedOf(U, f.id)) = Cardinality(IssuedOf(T, f.id)) + more
      <4>1. IsFiniteSet(IssuedOf(T, f.id)) /\ Cardinality(IssuedOf(T, f.id)) \in Nat
        BY <1>8, FS_CardinalityType DEF Marked
      <4>2. CASE tell
        <5>1. PICK m : m \notin IssuedOf(T, f.id) /\ IssuedOf(U, f.id) = IssuedOf(T, f.id) \cup {m}
          BY <1>4, <4>2
        <5> QED BY <3>2, <4>1, <4>2, <5>1, FS_AddElement
      <4>3. CASE ~tell
        BY <1>4, <3>2, <4>1, <4>3
      <4> QED BY <4>2, <4>3
    <3> QED BY <1>8, <3>5, <3>6 DEF Marked
  <2> QED BY <1>6, <2>9, <2>10, <2>11, <2>12 DEF Sincere, Turned
<1> QED BY <1>9, <1>10

(* Whether the flush of a direction finds a gap.                            *)
Lost(c, r) == IF FlushStream(c[r]).issue = NoIssue THEN 0 ELSE 1

(* What the flush of a conversation is told of.                             *)
Confessed(U, id, c) ==
  \A r \in Roles : FlushStream(c[r]).issue # NoIssue =>
    \E i \in DOMAIN U : U[i] = Told("issue", id, FlushStream(c[r]).issue)

(* The packets D of a log are those of flow f with data.                    *)
Carried(Tr, f, k, L, D) ==
  \A r \in Roles : \A i \in D[r] : L[i] \in Tr /\ FlowKey(L[i]) = k /\ Role(f, L[i]) = r /\ L[i].data # <<>>

(* The end of a conversation.                                               *)
LEMMA SincereEnds ==
  ASSUME NEW Tr \in Traffics, NEW f, NEW k, NEW c, ConvShape(c),
         NEW L, NEW D, Carried(Tr, f, k, L, D), NEW T, Sincere(Tr, f, k, c, L, D, T, FALSE),
         NEW U, DOMAIN T \subseteq DOMAIN U, \A i \in DOMAIN T : U[i] = T[i], Confessed(U, f.id, c),
         IsFiniteSet(IssuedOf(U, f.id)),
         Cardinality(IssuedOf(U, f.id)) = Cardinality(IssuedOf(T, f.id)) + (Lost(c, "client") + Lost(c, "server")),
         NEW e, e = [c EXCEPT !.client = FlushStream(c["client"]).st, !.server = FlushStream(c["server"]).st]
  PROVE  Sincere(Tr, f, k, e, L, D, U, TRUE)
<1>1. c = [client |-> c.client, server |-> c.server, metrics |-> c.metrics, text |-> c.text]
  BY DEF ConvShape
<1>2. Texts(e) /\ \A r \in Roles : e[r] = FlushStream(c[r]).st /\ e.text[r] = c.text[r]
  <2>1. e = [client |-> FlushStream(c["client"]).st, server |-> FlushStream(c["server"]).st, metrics |-> c.metrics, text |-> c.text]
    BY <1>1
  <2>2. e.client = FlushStream(c["client"]).st /\ e.server = FlushStream(c["server"]).st /\ e.text = c.text
    BY <2>1
  <2> QED BY <2>2 DEF Roles, Texts, Sincere
<1>3. ASSUME NEW r \in Roles
      PROVE  /\ Directed(Tr, f, k, r, e[r], L, D[r], U) /\ Worded(e.text[r], e[r], TRUE)
             /\ Findings(c[r]) \in Nat /\ Findings(e[r]) = Findings(c[r]) + Lost(c, r)
  <2>1. PICK start \in 0..(SeqSpace - 1) : Numbered(start, Tr, f, k, r) /\ Dir(start, c[r], L, D[r], Missed(T, f.id, L, D[r]))
    BY DEF Sincere, Directed
  <2>2. start \in Nat
    BY StreamAssumption
  <2> DEFINE H == Missed(T, f.id, L, D[r])
             G == Missed(U, f.id, L, D[r])
  <2>3. H \subseteq G
    BY MissedMore
  <2>4. PICK g : g = FlushStream(c[r])
    OBVIOUS
  <2>5. Holes(start, g.issue) \subseteq G
    <3>1. CASE g.issue = NoIssue
      BY <3>1 DEF NoIssue, Holes
    <3>2. CASE g.issue # NoIssue
      <4>1. PICK i \in DOMAIN U : U[i] = Told("issue", f.id, g.issue)
        BY <2>4, <3>2 DEF Confessed
      <4>2. D[r] # {}
        <5>1. ASSUME D[r] = {} PROVE FALSE
          <6>1. c[r].buffer = <<>>
            BY <2>1, <5>1 DEF Dir, Fresh
          <6>2. g = [st |-> c[r], issue |-> NoIssue]
            BY <2>4, <6>1 DEF FlushStream
          <6> QED BY <3>2, <6>2
        <5> QED BY <5>1
      <4>3. PICK n \in D[r] : TRUE
        BY <4>2
      <4>4. L[n] \in Tr /\ FlowKey(L[n]) = k /\ Role(f, L[n]) = r /\ L[n].data # <<>>
        BY <4>3 DEF Carried
      <4>5. L[n].seq = Nr(start, L[n].data[1])
        BY <2>1, <4>4 DEF Numbered
      <4>6. L[n].data[1] \in Nat
        <5>1. Spans(L[n])
          BY <4>4, PacketSpans
        <5> QED BY <5>1, HalfOf DEF Spans
      <4> QED BY <2>2, <4>1, <4>3, <4>5, <4>6, MissedHoles
    <3> QED BY <3>1, <3>2
  <2> HIDE DEF H, G
  <2>6. Ended(start, c[r], g, L, D[r], G)
    <3>1. Dir(start, c[r], L, D[r], H)
      BY <2>1 DEF H
    <3> QED BY <2>2, <2>3, <2>4, <2>5, <3>1, DirFlushed
  <2>7. e[r] = g.st /\ e.text[r] = c.text[r] /\ Lost(c, r) = IF g.issue = NoIssue THEN 0 ELSE 1
    BY <1>2, <2>4 DEF Lost
  <2>8. Directed(Tr, f, k, r, e[r], L, D[r], U)
    BY <2>1, <2>6, <2>7 DEF Directed, Ended, G
  <2>9. Worded(e.text[r], e[r], TRUE)
    <3>1. c.text[r] = c[r].out
      BY DEF Sincere, Worded
    <3>2. c[r].out \in Seq(Nat)
      BY <2>1, DirPromises
    <3> QED BY <2>6, <2>7, <3>1, <3>2 DEF Worded, Ended
  <2>10. Findings(c[r]) \in Nat
    <3>1. StreamShape(c[r])
      BY <2>1 DEF Dir
    <3> QED BY <3>1 DEF StreamShape, Findings
  <2> QED BY <2>6, <2>7, <2>8, <2>9, <2>10 DEF Ended
<1>4. Marked(U, f.id, e)
  <2>1. /\ Findings(c["client"]) \in Nat /\ Findings(c["server"]) \in Nat
        /\ Findings(e["client"]) = Findings(c["client"]) + Lost(c, "client")
        /\ Findings(e["server"]) = Findings(c["server"]) + Lost(c, "server")
    BY <1>3 DEF Roles
  <2>2. Lost(c, "client") \in Nat /\ Lost(c, "server") \in Nat
    BY DEF Lost
  <2>3. Cardinality(IssuedOf(T, f.id)) = Findings(c["client"]) + Findings(c["server"])
    BY DEF Sincere, Marked
  <2>4. Cardinality(IssuedOf(U, f.id)) = Findings(e["client"]) + Findings(e["server"])
    BY <2>1, <2>2, <2>3
  <2> QED BY <2>4 DEF Marked
<1>5. \A r \in Roles : Worded(e.text[r], e[r], TRUE)
  BY <1>3
<1>6. \A r \in Roles : Directed(Tr, f, k, r, e[r], L, D[r], U)
  BY <1>3
<1> QED BY <1>2, <1>4, <1>5, <1>6 DEF Sincere

----------------------------------------------------------------------------
(* In a finite set, totally ordered, each place is taken by one element.    *)
LEMMA PlacesTaken ==
  ASSUME NEW F, IsFiniteSet(F), NEW before, \A x \in F : before[x] \in SUBSET F /\ x \notin before[x],
         \A x, y \in F : y \in before[x] => before[y] \subseteq before[x],
         \A x, y \in F : x = y \/ x \in before[y] \/ y \in before[x]
  PROVE  /\ \A x \in F : Cardinality(before[x]) \in 0..(Cardinality(F) - 1)
         /\ \A n \in 0..(Cardinality(F) - 1) : \E x \in F : Cardinality(before[x]) = n
         /\ Cardinality(F) \in Nat
<1> DEFINE N == Cardinality(F)
           f == [x \in F |-> Cardinality(before[x])]
<1>1. N \in Nat
  BY FS_CardinalityType
<1>2. ASSUME NEW x \in F PROVE IsFiniteSet(before[x]) /\ Cardinality(before[x]) \in 0..(N - 1)
  <2>1. before[x] \in SUBSET F /\ before[x] # F
    OBVIOUS
  <2>2. IsFiniteSet(before[x]) /\ Cardinality(before[x]) <= N /\ Cardinality(before[x]) # N
    BY <2>1, FS_Subset
  <2>3. Cardinality(before[x]) \in Nat
    BY <2>2, FS_CardinalityType
  <2> QED BY <1>1, <2>2, <2>3
<1>3. ASSUME NEW x \in F, NEW y \in F, y \in before[x] PROVE Cardinality(before[y]) < Cardinality(before[x])
  <2>1. before[y] \in SUBSET before[x] /\ before[y] # before[x] /\ IsFiniteSet(before[x])
    BY <1>2, <1>3
  <2>2. Cardinality(before[y]) <= Cardinality(before[x]) /\ Cardinality(before[y]) # Cardinality(before[x])
    BY <2>1, FS_Subset
  <2>3. Cardinality(before[y]) \in Int /\ Cardinality(before[x]) \in Int
    BY <1>2
  <2> QED BY <2>2, <2>3
<1>4. ASSUME NEW x \in F, NEW y \in F, Cardinality(before[x]) = Cardinality(before[y]) PROVE x = y
  <2>1. Cardinality(before[y]) \in Int /\ Cardinality(before[x]) \in Int
    BY <1>2
  <2> QED BY <1>3, <1>4, <2>1
<1>5. f \in Injection(F, 0..(N - 1))
  BY <1>2, <1>4 DEF Injection, IsInjective
<1>6. IsFiniteSet(0..(N - 1)) /\ Cardinality(0..(N - 1)) = N
  BY <1>1, FS_Interval
<1>7. f \in Surjection(F, 0..(N - 1))
  BY <1>5, <1>6, FS_Injection
<1>8. \A n \in 0..(N - 1) : \E x \in F : f[x] = n
  BY <1>7 DEF Surjection
<1> QED BY <1>1, <1>2, <1>8

(***************************************************************************)
(* The end of the capture tells every gap it finds, once, in the order of  *)
(* the flows.                                                              *)
(***************************************************************************)

(* The directions whose flush finds a gap, and their order.                 *)
FoundLost == {x \in (DOMAIN convs) \X Roles : Flushed(x[1], x[2]).issue # NoIssue}
Sooner(x, y) == flows[x[1]].id < flows[y[1]].id \/ (x[1] = y[1] /\ x[2] = "client" /\ y[2] = "server")
Place(n) == CHOOSE x \in FoundLost : Cardinality({y \in FoundLost : Sooner(y, x)}) = n - 1
ToldLost(x) == Told("issue", flows[x[1]].id, Flushed(x[1], x[2]).issue)

(* FlushEvents, with the names used here.                                   *)
LEMMA FlushIsListed ==
  FlushEvents = [n \in 1..Cardinality(FoundLost) |-> ToldLost(Place(n))]
  BY DEF FlushEvents, FoundLost, Sooner, Place, ToldLost

(* Finitely many directions are there, so finitely many have a gap.         *)
LEMMA LostIsFinite ==
  ASSUME EngineShape
  PROVE  IsFiniteSet(FoundLost)
<1>1. IsFiniteSet(DOMAIN convs)
  <2>1. DOMAIN convs \in SUBSET (DOMAIN flows) /\ IsFiniteSet(DOMAIN flows)
    BY DEF EngineShape
  <2> QED BY <2>1, FS_Subset
<1>2. IsFiniteSet(Roles)
  <2>1. Roles = ({} \cup {"client"}) \cup {"server"}
    BY DEF Roles
  <2> QED BY <2>1, FS_EmptySet, FS_AddElement
<1>3. IsFiniteSet((DOMAIN convs) \X Roles)
  BY <1>1, <1>2, FS_Product
<1>4. FoundLost \in SUBSET ((DOMAIN convs) \X Roles)
  BY DEF FoundLost
<1> QED BY <1>3, <1>4, FS_Subset

(* Every direction with a gap at the end is listed, once.                   *)
LEMMA LostIsPlaced ==
  ASSUME EngineShape
  PROVE  /\ Cardinality(FoundLost) \in Nat
         /\ \A n \in 1..Cardinality(FoundLost) : Place(n) \in FoundLost
         /\ \A x \in FoundLost : \E n \in 1..Cardinality(FoundLost) : Place(n) = x
         /\ \A n, m \in 1..Cardinality(FoundLost) : Place(n) = Place(m) => n = m
<1> DEFINE F == FoundLost
           N == Cardinality(F)
           before == [x \in F |-> {y \in F : Sooner(y, x)}]
<1>1. /\ IsFiniteSet(F)
      /\ \A x \in F : x[1] \in DOMAIN convs /\ x[2] \in Roles /\ x = <<x[1], x[2]>>
  BY LostIsFinite DEF FoundLost
<1>2. \A k, l \in DOMAIN convs : flows[k].id \in Nat /\ (flows[k].id = flows[l].id => k = l)
  BY DEF EngineShape, FlowShape
<1>3. \A x \in F : ~Sooner(x, x)
  BY <1>1, <1>2 DEF Sooner
<1>4. \A x, y, z \in F : Sooner(z, y) /\ Sooner(y, x) => Sooner(z, x)
  <2> HIDE DEF F
  <2> QED BY <1>1, <1>2 DEF Sooner
<1>5. \A x, y \in F : x = y \/ Sooner(x, y) \/ Sooner(y, x)
  <2> HIDE DEF F
  <2> SUFFICES ASSUME NEW x \in F, NEW y \in F, ~Sooner(x, y), ~Sooner(y, x) PROVE x = y
    OBVIOUS
  <2>1. x[1] = y[1]
    BY <1>1, <1>2 DEF Sooner
  <2>2. x[2] = y[2]
    BY <1>1, <2>1 DEF Sooner, Roles
  <2> QED BY <1>1, <2>1, <2>2
<1> HIDE DEF F
<1>6. /\ \A x \in F : Cardinality(before[x]) \in 0..(N - 1)
      /\ \A n \in 0..(N - 1) : \E x \in F : Cardinality(before[x]) = n
      /\ N \in Nat
  <2>1. /\ \A x \in F : before[x] \in SUBSET F /\ x \notin before[x]
        /\ \A x, y \in F : y \in before[x] => before[y] \subseteq before[x]
        /\ \A x, y \in F : x = y \/ x \in before[y] \/ y \in before[x]
    BY <1>3, <1>4, <1>5
  <2> HIDE DEF before
  <2> QED BY <1>1, <2>1, PlacesTaken
<1>7. \A x \in F : before[x] = {y \in F : Sooner(y, x)}
  OBVIOUS
<1>8. \A n : Place(n) = CHOOSE x \in F : Cardinality({y \in F : Sooner(y, x)}) = n - 1
  BY DEF Place, F
<1>9. ASSUME NEW n \in 1..N PROVE Place(n) \in F /\ Cardinality(before[Place(n)]) = n - 1
  <2>1. n - 1 \in 0..(N - 1)
    BY <1>6
  <2> HIDE DEF before
  <2>2. \E x \in F : Cardinality({y \in F : Sooner(y, x)}) = n - 1
    BY <1>6, <1>7, <2>1
  <2>3. Place(n) \in F /\ Cardinality({y \in F : Sooner(y, Place(n))}) = n - 1
    BY <1>8, <2>2
  <2> QED BY <1>7, <2>3
<1>10. ASSUME NEW n \in 1..N, NEW m \in 1..N, Place(n) = Place(m) PROVE n = m
  <2>1. n - 1 = m - 1
    BY <1>9, <1>10
  <2> QED BY <1>6, <2>1
<1>11. \A x, y \in F : Cardinality(before[x]) = Cardinality(before[y]) => x = y
  <2> SUFFICES ASSUME NEW x \in F, NEW y \in F, Cardinality(before[x]) = Cardinality(before[y]) PROVE x = y
    OBVIOUS
  <2>1. \A v, w \in F : w \in before[v] => before[w] \in SUBSET before[v] /\ before[w] # before[v]
    BY <1>3, <1>4
  <2>2. \A v \in F : IsFiniteSet(before[v])
    <3> SUFFICES ASSUME NEW v \in F PROVE IsFiniteSet(before[v])
      OBVIOUS
    <3>1. before[v] \in SUBSET F
      OBVIOUS
    <3> HIDE DEF before
    <3> QED BY <1>1, <3>1, FS_Subset
  <2>3. x = y \/ x \in before[y] \/ y \in before[x]
    BY <1>5
  <2> HIDE DEF before
  <2>4. CASE x \in before[y]
    <3>1. before[x] \in SUBSET before[y] /\ before[x] # before[y] /\ IsFiniteSet(before[y])
      BY <2>1, <2>2, <2>4
    <3> QED BY <3>1, FS_Subset
  <2>5. CASE y \in before[x]
    <3>1. before[y] \in SUBSET before[x] /\ before[x] # before[y] /\ IsFiniteSet(before[x])
      BY <2>1, <2>2, <2>5
    <3> QED BY <3>1, FS_Subset
  <2> QED BY <2>3, <2>4, <2>5
<1>12. ASSUME NEW x \in F PROVE \E n \in 1..N : Place(n) = x
  <2> DEFINE n == Cardinality(before[x]) + 1
  <2>1. n \in 1..N /\ n - 1 = Cardinality(before[x])
    <3> HIDE DEF before
    <3> QED BY <1>6
  <2> HIDE DEF n, before
  <2>2. Place(n) \in F /\ Cardinality(before[Place(n)]) = n - 1
    BY <1>9, <2>1
  <2>3. Place(n) = x
    BY <1>11, <2>1, <2>2
  <2> QED BY <2>1, <2>3
<1> QED BY <1>6, <1>9, <1>10, <1>12 DEF F

(* What the flush tells of one flow: a gap for each direction with one.     *)
LEMMA FlushCounts ==
  ASSUME EngineShape
  PROVE  /\ \A i \in DOMAIN FlushEvents : FlushEvents[i].kind = "issue" /\ FlushEvents[i].flow \in 1..Known
         /\ \A k \in DOMAIN convs :
              /\ Confessed(FlushEvents, flows[k].id, convs[k])
              /\ IsFiniteSet(IssuedOf(FlushEvents, flows[k].id))
              /\ Cardinality(IssuedOf(FlushEvents, flows[k].id)) = Lost(convs[k], "client") + Lost(convs[k], "server")
<1> DEFINE F == FoundLost
           N == Cardinality(F)
<1>1. /\ N \in Nat
      /\ \A n \in 1..N : Place(n) \in F
      /\ \A x \in F : \E n \in 1..N : Place(n) = x
      /\ \A n, m \in 1..N : Place(n) = Place(m) => n = m
  BY LostIsPlaced
<1>2. DOMAIN FlushEvents = 1..N /\ \A n \in 1..N : FlushEvents[n] = ToldLost(Place(n))
  BY FlushIsListed
<1>3. \A x \in F : x[1] \in DOMAIN convs /\ x[2] \in Roles /\ x = <<x[1], x[2]>>
  BY DEF FoundLost
<1>4. /\ \A k \in DOMAIN convs : flows[k].id \in 1..Known
      /\ \A k, l \in DOMAIN convs : flows[k].id = flows[l].id => k = l
  BY DEF EngineShape
<1>5. \A x \in F : ToldLost(x).kind = "issue" /\ ToldLost(x).flow = flows[x[1]].id
  BY DEF ToldLost, Told
<1>6. \A k \in DOMAIN convs, r \in Roles : <<k, r>> \in F <=> FlushStream(convs[k][r]).issue # NoIssue
  BY DEF FoundLost, Flushed
<1>7. \A k, r : ToldLost(<<k, r>>) = Told("issue", flows[k].id, FlushStream(convs[k][r]).issue)
  BY DEF ToldLost, Flushed
<1> HIDE DEF F, N
<1>8. \A i \in DOMAIN FlushEvents : FlushEvents[i].kind = "issue" /\ FlushEvents[i].flow \in 1..Known
  BY <1>1, <1>2, <1>3, <1>4, <1>5
<1>9. ASSUME NEW k \in DOMAIN convs PROVE Confessed(FlushEvents, flows[k].id, convs[k])
  <2> SUFFICES ASSUME NEW r \in Roles, FlushStream(convs[k][r]).issue # NoIssue
               PROVE  \E i \in DOMAIN FlushEvents : FlushEvents[i] = Told("issue", flows[k].id, FlushStream(convs[k][r]).issue)
    BY DEF Confessed
  <2>1. <<k, r>> \in F
    BY <1>6
  <2>2. PICK n \in 1..N : Place(n) = <<k, r>>
    BY <1>1, <2>1
  <2> QED BY <1>2, <1>7, <2>2
<1>10. ASSUME NEW k \in DOMAIN convs
       PROVE  LET P == IssuedOf(FlushEvents, flows[k].id) IN
              IsFiniteSet(P) /\ Cardinality(P) = Lost(convs[k], "client") + Lost(convs[k], "server")
  <2> DEFINE P == IssuedOf(FlushEvents, flows[k].id)
             x == <<k, "client">>
             y == <<k, "server">>
  <2>1. P = {n \in 1..N : Place(n) = x \/ Place(n) = y}
    <3>1. P = {n \in 1..N : Place(n)[1] = k}
      BY <1>1, <1>2, <1>3, <1>4, <1>5 DEF IssuedOf, Issued
    <3>2. ASSUME NEW n \in 1..N PROVE Place(n)[1] = k <=> Place(n) = x \/ Place(n) = y
      <4>1. Place(n)[2] \in Roles /\ Place(n) = <<Place(n)[1], Place(n)[2]>>
        BY <1>1, <1>3
      <4> QED BY <4>1 DEF Roles
    <3> QED BY <3>1, <3>2
  <2>2. /\ Lost(convs[k], "client") = IF x \in F THEN 1 ELSE 0
        /\ Lost(convs[k], "server") = IF y \in F THEN 1 ELSE 0
    BY <1>6 DEF Lost, Roles
  <2>3. x # y
    OBVIOUS
  <2> HIDE DEF x, y, P
  <2>4. ASSUME NEW z \in F PROVE \E n \in 1..N : {m \in 1..N : Place(m) = z} = {n}
    <3>1. PICK n \in 1..N : Place(n) = z
      BY <1>1
    <3> QED BY <1>1, <3>1
  <2>5. ASSUME NEW z, z \notin F PROVE {m \in 1..N : Place(m) = z} = {}
    BY <1>1, <2>5
  <2>6. P = {n \in 1..N : Place(n) = x} \cup {n \in 1..N : Place(n) = y}
    BY <2>1
  <2>7. CASE x \in F /\ y \in F
    <3>1. PICK n \in 1..N : {m \in 1..N : Place(m) = x} = {n}
      BY <2>4, <2>7
    <3>2. PICK m \in 1..N : {l \in 1..N : Place(l) = y} = {m}
      BY <2>4, <2>7
    <3>3. P = {n} \cup {m} /\ n # m
      BY <2>3, <2>6, <3>1, <3>2
    <3>4. IsFiniteSet({n}) /\ Cardinality({n}) = 1
      BY FS_Singleton
    <3>5. IsFiniteSet({n} \cup {m}) /\ Cardinality({n} \cup {m}) = 2
      BY <3>3, <3>4, FS_AddElement
    <3> QED BY <2>2, <2>7, <3>3, <3>5 DEF P
  <2>8. CASE x \in F /\ y \notin F
    <3>1. PICK n \in 1..N : {m \in 1..N : Place(m) = x} = {n}
      BY <2>4, <2>8
    <3>2. P = {n}
      BY <2>5, <2>6, <2>8, <3>1
    <3>3. IsFiniteSet({n}) /\ Cardinality({n}) = 1
      BY FS_Singleton
    <3> QED BY <2>2, <2>8, <3>2, <3>3 DEF P
  <2>9. CASE x \notin F /\ y \in F
    <3>1. PICK n \in 1..N : {m \in 1..N : Place(m) = y} = {n}
      BY <2>4, <2>9
    <3>2. P = {n}
      BY <2>5, <2>6, <2>9, <3>1
    <3>3. IsFiniteSet({n}) /\ Cardinality({n}) = 1
      BY FS_Singleton
    <3> QED BY <2>2, <2>9, <3>2, <3>3 DEF P
  <2>10. CASE x \notin F /\ y \notin F
    <3>1. P = {}
      BY <2>5, <2>6, <2>10
    <3> QED BY <2>2, <2>10, <3>1, FS_EmptySet DEF P
  <2> QED BY <2>7, <2>8, <2>9, <2>10
<1> QED BY <1>8, <1>9, <1>10

(***************************************************************************)
(* The inductive invariant of StreamFaithful, and the theorem.             *)
(***************************************************************************)

(* A flow lies between the two ends its key names.                          *)
Between(k, f) == k.ends = {f.src, f.dst}

(* The invariant: what was sent is one of the traffics, flows lie between   *)
(* their ends, findings are of known flows and every conversation is        *)
(* sincere.                                                                 *)
FaithInv ==
  /\ EngineInv
  /\ traffic \in Traffics
  /\ \A k \in DOMAIN flows : Between(k, flows[k])
  /\ \A i \in Issued(timeline) : timeline[i].flow \in 1..Known
  /\ over \in BOOLEAN
  /\ \A k \in DOMAIN convs : Sincere(traffic, flows[k], k, convs[k], log, DataOf(k), timeline, over)

(* What one end sends to the other is numbered from one start.              *)
LEMMA OneStart ==
  ASSUME NEW Tr \in Traffics, NEW k, k.protocol = "TCP", NEW f, Between(k, f), NEW r \in Roles
  PROVE  \E start \in 0..(SeqSpace - 1) : Numbered(start, Tr, f, k, r)
<1> DEFINE Mine(q) == FlowKey(q) = k /\ Role(f, q) = r /\ q.data # <<>>
<1>1. CASE \A q \in Tr : ~Mine(q)
  <2>1. 0 \in 0..(SeqSpace - 1)
    BY StreamAssumption
  <2>2. Numbered(0, Tr, f, k, r)
    BY <1>1 DEF Numbered
  <2> QED BY <2>1, <2>2
<1>2. ASSUME NEW p \in Tr, Mine(p) PROVE \E start \in 0..(SeqSpace - 1) : Numbered(start, Tr, f, k, r)
  <2>1. ASSUME NEW q \in Tr, Mine(q)
        PROVE  /\ q.protocol = "TCP" /\ q.src \in {f.src, f.dst} /\ {q.src, q.dst} = {f.src, f.dst}
               /\ (q.src = f.dst <=> r = "server")
    <3>1. FlowKey(q) = [protocol |-> q.protocol, ends |-> {q.src, q.dst}] /\ FlowKey(q) = k
      BY <2>1 DEF FlowKey
    <3>2. q.protocol = "TCP" /\ {q.src, q.dst} = {f.src, f.dst}
      BY <3>1 DEF Between
    <3>3. q.src = f.dst <=> r = "server"
      BY <2>1 DEF Role
    <3> QED BY <3>2, <3>3
  <2>2. ASSUME NEW q \in Tr, Mine(q) PROVE Sent(p, q)
    <3>1. /\ q.protocol = "TCP" /\ q.src \in {f.src, f.dst} /\ {q.src, q.dst} = {f.src, f.dst}
          /\ (q.src = f.dst <=> r = "server")
      BY <2>1, <2>2
    <3>2. /\ p.src \in {f.src, f.dst} /\ {p.src, p.dst} = {f.src, f.dst} /\ (p.src = f.dst <=> r = "server")
      BY <1>2, <2>1
    <3>3. q.src = p.src
      BY <3>1, <3>2
    <3>4. q.dst = p.dst
      BY <3>1, <3>2, <3>3
    <3>5. q.data # <<>>
      BY <2>2
    <3> QED BY <3>1, <3>3, <3>4, <3>5 DEF Sent
  <2>3. PICK start \in 0..(SeqSpace - 1) : \A q \in Tr : Sent(p, q) => q.seq = (start + q.data[1]) % SeqSpace
    BY TrafficAssumption
  <2>4. Numbered(start, Tr, f, k, r)
    BY <2>2, <2>3 DEF Numbered, Nr
  <2> QED BY <2>4
<1> QED BY <1>1, <1>2

(* A conversation that begins has yielded nothing.                          *)
LEMMA SincereAtFirst ==
  ASSUME NEW Tr \in Traffics, NEW k, k.protocol = "TCP", NEW f, Between(k, f),
         NEW L, NEW D, \A r \in Roles : D[r] = {}, NEW T, IssuedOf(T, f.id) = {}
  PROVE  Sincere(Tr, f, k, NewConversation, L, D, T, FALSE)
<1> DEFINE c == NewConversation
<1>1. c.client = NewStream /\ c.server = NewStream /\ c.text = [r \in Roles |-> <<>>]
  BY DEF NewConversation
<1>2. /\ NewStream.out = <<>> /\ NewStream.buffer = <<>> /\ NewStream.next = Nothing /\ NewStream.segments = 0
      /\ Findings(NewStream) = 0 /\ StreamShape(NewStream)
  BY DEF NewStream, Findings, StreamShape
<1> HIDE DEF c
<1>3. \A r \in Roles : c[r] = NewStream /\ c.text[r] = <<>>
  BY <1>1 DEF Roles
<1>4. Texts(c) /\ \A r \in Roles : Worded(c.text[r], c[r], FALSE)
  BY <1>1, <1>2, <1>3 DEF Texts, Worded
<1>5. Marked(T, f.id, c)
  <2>1. IsFiniteSet({}) /\ Cardinality({}) = 0
    BY FS_EmptySet
  <2>2. Findings(c["client"]) + Findings(c["server"]) = 0
    BY <1>2, <1>3 DEF Roles
  <2> QED BY <2>1, <2>2 DEF Marked
<1>6. ASSUME NEW r \in Roles PROVE Directed(Tr, f, k, r, c[r], L, D[r], T)
  <2>1. PICK start \in 0..(SeqSpace - 1) : Numbered(start, Tr, f, k, r)
    BY OneStart
  <2>2. IsFiniteSet(D[r]) /\ Cardinality(D[r]) = 0 /\ D[r] = {} /\ Brought(L, D[r]) = {}
    BY FS_EmptySet DEF Brought
  <2>3. Fresh(c[r])
    BY <1>2, <1>3 DEF Fresh
  <2>4. Dir(start, c[r], L, D[r], Missed(T, f.id, L, D[r]))
    BY <1>2, <1>3, <2>2, <2>3 DEF Dir
  <2> QED BY <2>1, <2>4 DEF Directed
<1> QED BY <1>4, <1>5, <1>6 DEF Sincere, c

(* PacketArrives preserves the invariant: the conversation of the packet    *)
(* grows, the others stay.                                                  *)
LEMMA FaithStep ==
  ASSUME FaithInv, NEW p \in traffic, PacketArrives(p), EngineInv'
  PROVE  FaithInv'
<1>0. PICK K : K = FlowKey(p)
  OBVIOUS
<1> DEFINE n == Len(log) + 1
           flow == TrackedFlow(p)
           role == Role(flow, p)
           old == Got(convs, K, NewConversation)
           d == Conversed(old, flow, p, n)
           tell == d.issue.kind # "none"
           x == Told("issue", flow.id, d.issue)
<1>S. EngineShape /\ EngineShape'
  BY DEF FaithInv, EngineInv
<1>1. /\ n \in Nat \ {0}
      /\ \A i \in DOMAIN log : i \in Nat /\ i < n /\ log'[i] = log[i]
      /\ log'[n] = p
      /\ DOMAIN flows' = DOMAIN flows \cup {K} /\ flows'[K] = flow
      /\ \A k \in DOMAIN flows \ {K} : flows'[k] = flows[k]
      /\ K \notin DOMAIN flows => In(K) = {}
  BY <1>0, <1>S, Placed, Zenon
<1>2. /\ K \in DOMAIN flows => flow.id = flows[K].id /\ flow.src = flows[K].src /\ flow.dst = flows[K].dst
      /\ K \notin DOMAIN flows => flow.id = Known + 1 /\ flow.src = p.src /\ flow.dst = p.dst
  BY <1>0, <1>S, TrackedMeans
<1>3. /\ traffic' = traffic /\ over' = FALSE /\ over = FALSE
      /\ convs' = IF p.protocol = "TCP" THEN Extended(convs, K, d.conv) ELSE convs
  BY <1>0 DEF PacketArrives, FaithInv
<1>4. Issues(timeline, timeline', p.protocol = "TCP" /\ tell, x)
  BY <1>0, <1>S, IssueMoves
<1>5. /\ \A k \in DOMAIN flows : flows[k].id \in 1..Known /\ Between(k, flows[k])
      /\ \A k, l \in DOMAIN flows : flows[k].id = flows[l].id => k = l
      /\ DOMAIN convs = {k \in DOMAIN flows : k.protocol = "TCP"} /\ \A k \in DOMAIN convs : ConvShape(convs[k])
      /\ \A i \in Issued(timeline) : timeline[i].flow \in 1..Known
      /\ traffic \in Traffics
  BY <1>S DEF EngineShape, FaithInv
<1>6. Known \in Nat /\ Known' \in Nat /\ Known <= Known' /\ flow.id \in 1..Known'
  <2>1. IsFiniteSet(DOMAIN flows) /\ IsFiniteSet(DOMAIN flows')
    BY <1>S DEF EngineShape
  <2>2. Known \in Nat /\ Known' \in Nat
    BY <2>1, FS_CardinalityType DEF Known
  <2>3. DOMAIN flows \in SUBSET (DOMAIN flows')
    BY <1>1
  <2>4. Cardinality(DOMAIN flows) <= Cardinality(DOMAIN flows')
    BY <2>1, <2>3, FS_Subset
  <2>5. flow.id \in 1..Known'
    BY <1>1, <1>S DEF EngineShape
  <2> QED BY <2>2, <2>4, <2>5 DEF Known
<1>7. /\ \A r \in Roles : DataOf(K)'[r] = DataOf(K)[r] \cup (IF r = role /\ p.data # <<>> THEN {n} ELSE {})
      /\ \A k \in DOMAIN flows \ {K} : DataOf(k)' = DataOf(k)
  BY <1>0, <1>S, PlacedBy
<1>8. \A k : \A r \in Roles : DataOf(k)[r] \subseteq DOMAIN log
  BY <1>S, FlagsAreLogged
<1>9. K.protocol = p.protocol /\ K.ends = {p.src, p.dst}
  BY <1>0 DEF FlowKey
<1>10. x.flow = flow.id
  BY DEF Told
<1> HIDE DEF n, flow, role, old, d, tell, x
<1>11. \A k \in DOMAIN flows' : Between(k, flows'[k])
  BY <1>1, <1>2, <1>5, <1>9 DEF Between
<1>12. \A i \in Issued(timeline') : timeline'[i].flow \in 1..Known'
  <2> DEFINE U == timeline'
             T == timeline
             e == p.protocol = "TCP" /\ tell
  <2>1. Issues(T, U, e, x)
    BY <1>4
  <2>2. \A i \in Issued(T) : i \in DOMAIN T /\ T[i].flow \in 1..Known
    BY <1>5 DEF Issued
  <2> HIDE DEF U, T, e
  <2>3. \A i \in Issued(U) : i \in Issued(T) \/ U[i] = x
    BY <2>1 DEF Issues
  <2>4. \A i \in Issued(U) : U[i].flow \in 1..Known'
    BY <1>6, <1>10, <2>1, <2>2, <2>3 DEF Issues
  <2> QED BY <2>4 DEF U
<1>13. ASSUME NEW k \in DOMAIN convs, k # K
       PROVE  Sincere(traffic', flows'[k], k, convs'[k], log', DataOf(k)', timeline', over')
  <2>1. k \in DOMAIN flows /\ convs'[k] = convs[k] /\ flows'[k] = flows[k] /\ DataOf(k)' = DataOf(k)
    BY <1>1, <1>3, <1>5, <1>7, <1>13 DEF Extended
  <2> DEFINE f == flows[k]
             c == convs[k]
             D == DataOf(k)
             L == log
             M == log'
             T == timeline
             U == timeline'
             e == p.protocol = "TCP" /\ tell
  <2>2. Sincere(traffic, f, k, c, L, D, T, FALSE)
    BY <1>3 DEF FaithInv
  <2>3. \A r \in Roles : \A i \in D[r] : M[i] = L[i]
    BY <1>1, <1>8
  <2>4. Issues(T, U, e, x)
    BY <1>4
  <2>5. f.id # flow.id
    BY <1>2, <1>5, <1>6, <1>13, <2>1
  <2> HIDE DEF f, c, D, L, M, T, U, e
  <2>6. IssuedOf(U, f.id) = IssuedOf(T, f.id)
    BY <1>10, <2>4, <2>5, IssuesOfFlow
  <2>7. DOMAIN T \subseteq DOMAIN U /\ \A i \in DOMAIN T : U[i] = T[i]
    BY <2>4 DEF Issues
  <2>8. Sincere(traffic, f, k, c, M, D, U, FALSE)
    BY <2>2, <2>3, <2>6, <2>7, SincereStays
  <2> QED BY <1>3, <2>1, <2>8 DEF f, c, D, M, U
<1>14. ASSUME p.protocol = "TCP"
       PROVE  Sincere(traffic', flows'[K], K, d.conv, log', DataOf(K)', timeline', over')
  <2> DEFINE D == DataOf(K)
             E == DataOf(K)'
             L == log
             M == log'
             T == timeline
             U == timeline'
  <2>1. Sincere(traffic, flow, K, old, L, D, T, FALSE) /\ ConvShape(old)
    <3>1. CASE K \in DOMAIN convs
      <4>1. old = convs[K] /\ K \in DOMAIN flows
        BY <1>5, <3>1 DEF old, Got
      <4> DEFINE f == flows[K]
      <4>2. Sincere(traffic, f, K, old, L, D, T, FALSE)
        BY <1>3, <3>1, <4>1 DEF FaithInv
      <4>3. flow.id = f.id /\ flow.dst = f.dst
        BY <1>2, <4>1
      <4> HIDE DEF f, L, D, T
      <4>4. Sincere(traffic, flow, K, old, L, D, T, FALSE)
        BY <4>2, <4>3, SincereStays
      <4> QED BY <1>5, <3>1, <4>1, <4>4
    <3>2. CASE K \notin DOMAIN convs
      <4>1. old = NewConversation /\ K \notin DOMAIN flows
        BY <1>5, <1>9, <1>14, <3>2 DEF old, Got
      <4>2. \A r \in Roles : D[r] = {}
        BY <1>1, <4>1 DEF DataOf
      <4>3. IssuedOf(T, flow.id) = {}
        BY <1>2, <1>5, <1>6, <4>1 DEF IssuedOf
      <4>4. Between(K, flow) /\ K.protocol = "TCP"
        BY <1>1, <1>9, <1>11, <1>14
      <4> HIDE DEF L, D, T
      <4>5. Sincere(traffic, flow, K, NewConversation, L, D, T, FALSE)
        BY <1>5, <4>2, <4>3, <4>4, SincereAtFirst
      <4> QED BY <4>1, <4>5, FreshConversation
    <3> QED BY <3>1, <3>2
  <2>2. /\ n \in Nat /\ \A r \in Roles : \A i \in D[r] : i < n /\ M[i] = L[i]
        /\ M[n] = p
    BY <1>1, <1>8
  <2>3. \A r \in Roles : E[r] = D[r] \cup (IF r = role /\ p.data # <<>> THEN {n} ELSE {})
    BY <1>7
  <2>4. Issues(T, U, tell, x)
    <3> PICK b \in BOOLEAN : b = (p.protocol = "TCP" /\ tell)
      OBVIOUS
    <3>1. Issues(T, U, p.protocol = "TCP" /\ tell, x)
      BY <1>4
    <3> HIDE DEF T, U
    <3> QED BY <1>14, <3>1 DEF Issues
  <2> HIDE DEF D, E, L, M, T, U
  <2>5. Issues(T, U, d.issue.kind # "none", Told("issue", flow.id, d.issue))
    BY <2>4 DEF tell, x
  <2>6. role = Role(flow, p) /\ d = Conversed(old, flow, p, n)
    BY DEF role, d
  <2>7. Arrived(p, n, role, L, D, M, E) /\ n \in Nat
    BY <2>2, <2>3 DEF Arrived
  <2>8. Sincere(traffic, flow, K, d.conv, M, E, U, FALSE)
    BY <1>0, <1>5, <2>1, <2>5, <2>6, <2>7, SincereGrows
  <2> QED BY <1>1, <1>3, <2>8 DEF E, M, U
<1>15. ASSUME NEW k \in DOMAIN convs'
       PROVE  Sincere(traffic', flows'[k], k, convs'[k], log', DataOf(k)', timeline', over')
  <2>1. CASE k # K
    <3>1. k \in DOMAIN convs
      BY <1>3, <2>1 DEF Extended
    <3> QED BY <1>13, <2>1, <3>1
  <2>2. CASE k = K
    <3>1. p.protocol = "TCP"
      <4>1. k.protocol = "TCP"
        BY <1>S DEF EngineShape
      <4> QED BY <1>9, <2>2, <4>1
    <3>2. convs'[K] = d.conv
      BY <1>3, <3>1 DEF Extended
    <3> QED BY <1>14, <2>2, <3>1, <3>2
  <2> QED BY <2>1, <2>2
<1>16. traffic' \in Traffics /\ over' \in BOOLEAN
  BY <1>3, <1>5
<1> QED BY <1>11, <1>12, <1>15, <1>16 DEF FaithInv

(* What was told, and then what the flush tells.                            *)
Appends(s, t, u, n) ==
  /\ DOMAIN s \subseteq DOMAIN u /\ \A i \in DOMAIN s : u[i] = s[i]
  /\ \A i \in DOMAIN t : n + i \in DOMAIN u /\ u[n + i] = t[i]

(* Joining timelines is appending one to the other.                         *)
LEMMA JoinedAppends ==
  ASSUME NEW S, NEW T, NEW s \in Seq(S), NEW t \in Seq(T)
  PROVE  Appends(s, t, s \o t, Len(s)) /\ Len(s) \in Nat
<1> DEFINE u == s \o t
<1>1. /\ Len(s) \in Nat /\ Len(t) \in Nat
      /\ DOMAIN s = 1..Len(s) /\ DOMAIN t = 1..Len(t) /\ DOMAIN u = 1..(Len(s) + Len(t))
      /\ \A i \in 1..Len(s) : u[i] = s[i]
      /\ \A i \in 1..Len(t) : u[Len(s) + i] = t[i]
  BY Joined
<1> HIDE DEF u
<1>2. Appends(s, t, u, Len(s))
  BY <1>1 DEF Appends
<1> QED BY <1>1, <1>2 DEF u

(* Places moved on are as many as before.                                   *)
LEMMA ShiftedAlike ==
  ASSUME NEW n \in Nat, NEW P, P \subseteq Nat, IsFiniteSet(P)
  PROVE  IsFiniteSet(Shifted(n, P)) /\ Cardinality(Shifted(n, P)) = Cardinality(P)
<1> DEFINE f == [i \in P |-> n + i]
           Q == Shifted(n, P)
<1>1. f \in [P -> Q] /\ \A i, j \in P : f[i] = f[j] => i = j
  BY DEF Shifted
<1>2. \A q \in Q : \E i \in P : f[i] = q
  BY DEF Shifted
<1>3. f \in Bijection(P, Q)
  BY <1>1, <1>2 DEF Bijection, Injection, Surjection, IsInjective
<1>4. ExistsBijection(P, Q)
  BY <1>3 DEF ExistsBijection
<1> QED BY <1>4, FS_Bijection

(* The findings of a flow on two timelines in a row add up.                 *)
LEMMA JoinedCount ==
  ASSUME NEW S, NEW T, NEW s \in Seq(S), NEW t \in Seq(T), NEW id,
         IsFiniteSet(IssuedOf(s, id)), IsFiniteSet(IssuedOf(t, id))
  PROVE  /\ IsFiniteSet(IssuedOf(s \o t, id))
         /\ Cardinality(IssuedOf(s \o t, id)) = Cardinality(IssuedOf(s, id)) + Cardinality(IssuedOf(t, id))
<1> DEFINE u == s \o t
           n == Len(s)
           P == IssuedOf(s, id)
           Q == IssuedOf(t, id)
           X == Shifted(n, Q)
<1>1. Issued(u) = Issued(s) \cup Shifted(n, Issued(t))
  BY JoinedIssues
<1>2. Appends(s, t, u, n) /\ n \in Nat /\ DOMAIN s = 1..n /\ DOMAIN t = 1..Len(t) /\ Len(t) \in Nat
  BY JoinedAppends, Joined
<1> HIDE DEF u, n
<1>3. IssuedOf(u, id) = P \cup X
  BY <1>1, <1>2 DEF IssuedOf, Appends, Shifted, Issued
<1>4. P \cap X = {}
  BY <1>2 DEF IssuedOf, Issued, Shifted
<1>5. Q \subseteq Nat
  BY <1>2 DEF IssuedOf, Issued
<1>6. IsFiniteSet(X) /\ Cardinality(X) = Cardinality(Q)
  <2> HIDE DEF Q
  <2> QED BY <1>2, <1>5, ShiftedAlike DEF Q
<1>7. IsFiniteSet(P \cup X) /\ Cardinality(P \cup X) = Cardinality(P) + Cardinality(X)
  <2> HIDE DEF P, Q, X
  <2>1. IsFiniteSet(P) /\ IsFiniteSet(X)
    BY <1>6 DEF P
  <2>2. Cardinality(P) \in Nat /\ Cardinality(X) \in Nat /\ Cardinality({}) = 0
    BY <2>1, FS_CardinalityType, FS_EmptySet
  <2>3. IsFiniteSet(P \cup X) /\ Cardinality(P \cup X) = Cardinality(P) + Cardinality(X) - Cardinality(P \cap X)
    BY <2>1, FS_Union
  <2>4. Cardinality(P \cap X) = 0
    BY <1>4, <2>2, Zenon
  <2> QED BY <2>2, <2>3, <2>4
<1> QED BY <1>3, <1>6, <1>7 DEF u

(* EndOfCapture preserves the invariant: every direction is flushed, every  *)
(* gap is told.                                                             *)
LEMMA FaithEnd ==
  ASSUME FaithInv, EndOfCapture, EngineInv'
  PROVE  FaithInv'
<1>S. EngineShape
  BY DEF FaithInv, EngineInv
<1>1. /\ traffic' = traffic /\ log' = log /\ flows' = flows /\ timeline' = timeline \o FlushEvents
      /\ over = FALSE /\ over' = TRUE
      /\ DOMAIN convs' = DOMAIN convs
      /\ \A k \in DOMAIN convs :
           convs'[k] = [convs[k] EXCEPT !.client = Flushed(k, "client").st, !.server = Flushed(k, "server").st]
  BY DEF EndOfCapture, FaithInv
<1>2. PICK S : timeline \in Seq(S)
  BY <1>S DEF EngineShape
<1>3. PICK Z : FlushEvents \in Seq(Z)
  BY <1>S, FlushTells
<1>4. /\ \A i \in DOMAIN FlushEvents : FlushEvents[i].kind = "issue" /\ FlushEvents[i].flow \in 1..Known
      /\ \A k \in DOMAIN convs :
           /\ Confessed(FlushEvents, flows[k].id, convs[k])
           /\ IsFiniteSet(IssuedOf(FlushEvents, flows[k].id))
           /\ Cardinality(IssuedOf(FlushEvents, flows[k].id)) = Lost(convs[k], "client") + Lost(convs[k], "server")
  BY <1>S, FlushCounts
<1> DEFINE T == timeline
           e == FlushEvents
           U == T \o e
           n == Len(T)
<1>5. Appends(T, e, U, n) /\ n \in Nat /\ Issued(U) = Issued(T) \cup Shifted(n, Issued(e))
  <2>1. \A s \in Seq(S), t \in Seq(Z) : /\ Appends(s, t, s \o t, Len(s)) /\ Len(s) \in Nat
                                        /\ Issued(s \o t) = Issued(s) \cup Shifted(Len(s), Issued(t))
    BY JoinedAppends, JoinedIssues
  <2> QED BY <1>2, <1>3, <2>1
<1>6. \A k \in DOMAIN flows : DataOf(k)' = DataOf(k)
  BY <1>1 DEF DataOf, In
<1>7. \A i \in Issued(timeline') : timeline'[i].flow \in 1..Known'
  <2>1. \A i \in Issued(T) : T[i].flow \in 1..Known
    BY DEF FaithInv
  <2>2. Issued(T) \subseteq DOMAIN T /\ Issued(e) \subseteq DOMAIN e
    BY DEF Issued
  <2>3. \A i \in DOMAIN e : e[i].flow \in 1..Known
    BY <1>4
  <2>4. Known' = Known /\ timeline' = U
    BY <1>1 DEF Known
  <2> HIDE DEF T, e, U, n
  <2>5. \A i \in Issued(U) : U[i].flow \in 1..Known
    BY <1>5, <2>1, <2>2, <2>3 DEF Appends, Shifted
  <2> QED BY <2>4, <2>5
<1>8. ASSUME NEW k \in DOMAIN convs
      PROVE  Sincere(traffic', flows'[k], k, convs'[k], log', DataOf(k)', timeline', over')
  <2> DEFINE f == flows[k]
             c == convs[k]
             D == DataOf(k)
             d == convs'[k]
  <2>1. k \in DOMAIN flows /\ ConvShape(c) /\ log \in Seq(traffic) /\ traffic \in Traffics
    BY <1>S DEF EngineShape, FaithInv
  <2>2. Sincere(traffic, f, k, c, log, D, T, FALSE)
    BY <1>1 DEF FaithInv
  <2>3. Carried(traffic, f, k, log, D)
    <3>1. \A i \in DOMAIN log : log[i] \in traffic
      BY <2>1
    <3> QED BY <3>1 DEF Carried, DataOf, In
  <2>4. d = [c EXCEPT !.client = FlushStream(c["client"]).st, !.server = FlushStream(c["server"]).st]
    BY <1>1 DEF Flushed
  <2>5. Confessed(e, f.id, c) /\ IsFiniteSet(IssuedOf(e, f.id))
        /\ Cardinality(IssuedOf(e, f.id)) = Lost(c, "client") + Lost(c, "server")
    BY <1>4
  <2>6. IsFiniteSet(IssuedOf(T, f.id))
    BY <2>2 DEF Sincere, Marked
  <2>7. T \in Seq(S) /\ e \in Seq(Z)
    BY <1>2, <1>3
  <2> HIDE DEF f, c, D, d, T, e, n
  <2>8. IsFiniteSet(IssuedOf(T \o e, f.id))
        /\ Cardinality(IssuedOf(T \o e, f.id)) = Cardinality(IssuedOf(T, f.id)) + Cardinality(IssuedOf(e, f.id))
    BY <2>5, <2>6, <2>7, JoinedCount
  <2> HIDE DEF U
  <2>9. IsFiniteSet(IssuedOf(U, f.id))
        /\ Cardinality(IssuedOf(U, f.id)) = Cardinality(IssuedOf(T, f.id)) + (Lost(c, "client") + Lost(c, "server"))
    BY <2>5, <2>8 DEF U
  <2>10. Confessed(U, f.id, c)
    BY <1>5, <2>5 DEF Confessed, Appends
  <2>11. DOMAIN T \subseteq DOMAIN U /\ \A i \in DOMAIN T : U[i] = T[i]
    BY <1>5 DEF Appends
  <2>12. Sincere(traffic, f, k, d, log, D, U, TRUE)
    BY <2>1, <2>2, <2>3, <2>4, <2>9, <2>10, <2>11, SincereEnds
  <2>13. timeline' = U /\ DataOf(k)' = D
    BY <1>1, <1>6, <2>1 DEF T, e, U, D
  <2> QED BY <1>1, <2>12, <2>13 DEF f, d
<1>9. /\ traffic' \in Traffics /\ over' \in BOOLEAN /\ \A k \in DOMAIN flows' : Between(k, flows'[k])
  BY <1>1 DEF FaithInv
<1> QED BY <1>1, <1>7, <1>8, <1>9 DEF FaithInv

(* The invariant holds at first, when nothing is known.                     *)
LEMMA FaithInvInit == StreamInit => FaithInv
<1> SUFFICES ASSUME StreamInit PROVE FaithInv
  OBVIOUS
<1>1. timeline = <<>> /\ DOMAIN flows = {} /\ DOMAIN convs = {} /\ traffic \in Traffics /\ over = FALSE
  BY DEF StreamInit
<1>2. DOMAIN timeline = {}
  BY <1>1
<1>3. Issued(timeline) = {}
  BY <1>2 DEF Issued
<1> QED BY <1>1, <1>3, EngineInvInit DEF FaithInv

(* No step breaks the invariant.                                            *)
LEMMA FaithInvStep == FaithInv /\ [StreamNext]_streamVars => FaithInv'
<1> SUFFICES ASSUME FaithInv, [StreamNext]_streamVars PROVE FaithInv'
  OBVIOUS
<1>1. EngineInv'
  BY EngineInvStep DEF FaithInv
<1>2. ASSUME NEW p \in traffic, PacketArrives(p) PROVE FaithInv'
  BY <1>1, <1>2, FaithStep
<1>3. CASE EndOfCapture
  BY <1>1, <1>3, FaithEnd
<1>4. CASE UNCHANGED streamVars
  <2>1. /\ traffic' = traffic /\ log' = log /\ flows' = flows /\ convs' = convs /\ timeline' = timeline /\ over' = over
    BY <1>4 DEF streamVars
  <2>2. \A k : DataOf(k)' = DataOf(k)
    BY <2>1 DEF DataOf, In
  <2>3. Known' = Known
    BY <2>1 DEF Known
  <2> QED BY <1>1, <2>1, <2>2, <2>3 DEF FaithInv
<1> QED BY <1>2, <1>3, <1>4 DEF StreamNext

(* The invariant, of every behaviour of the engine.                         *)
LEMMA FaithInvHolds == StreamSpec => []FaithInv
  BY FaithInvInit, FaithInvStep, PTL DEF StreamSpec

----------------------------------------------------------------------------
(* Each finding told of a flow is one of its markers.                       *)
LEMMA MarkersOfFlow ==
  ASSUME NEW id, IsFiniteSet(IssuedOf(timeline, id))
  PROVE  Cardinality({m \in LossMarkers : m.flow = id}) = Cardinality(IssuedOf(timeline, id))
<1> DEFINE To(i) == LET later == {j \in DOMAIN timeline : j > i /\ timeline[j].kind = "issue" /\ timeline[j].flow = timeline[i].flow}
                    IN IF later = {} THEN i ELSE CHOOSE j \in later : \A l \in later : j <= l
           Mark(i) == [flow |-> timeline[i].flow, from |-> i, severity |-> timeline[i].what.kind, to |-> To(i)]
           P == IssuedOf(timeline, id)
           Q == {m \in LossMarkers : m.flow = id}
           f == [i \in P |-> Mark(i)]
<1>1. LossMarkers = {Mark(i) : i \in Issued(timeline)}
  BY Zenon DEF LossMarkers, Issued
<1> HIDE DEF To
<1>2. \A i : Mark(i).flow = timeline[i].flow /\ Mark(i).from = i
  OBVIOUS
<1> HIDE DEF Mark
<1>3. Q = {Mark(i) : i \in P}
  BY <1>1, <1>2 DEF IssuedOf
<1> HIDE DEF P, Q
<1>4. f \in [P -> Q] /\ \A i, j \in P : f[i] = f[j] => i = j
  BY <1>2, <1>3
<1>5. \A q \in Q : \E i \in P : f[i] = q
  BY <1>3
<1>6. f \in Bijection(P, Q)
  BY <1>4, <1>5 DEF Bijection, Injection, Surjection, IsInjective
<1>7. ExistsBijection(P, Q)
  BY <1>6 DEF ExistsBijection
<1>8. IsFiniteSet(P)
  BY DEF P
<1>9. Cardinality(Q) = Cardinality(P)
  BY <1>7, <1>8, FS_Bijection
<1> QED BY <1>9 DEF P, Q

(* What grew starts with what it was.                                       *)
LEMMA LongerIsPrefix ==
  ASSUME NEW s \in Seq(Nat), NEW t, Longer(s, t)
  PROVE  IsPrefix(s, t)
<1>1. PICK u \in Seq(Nat) : t = s \o u
  BY DEF Longer
<1> DEFINE n == Len(s)
<1>2. /\ t \in Seq(Nat) /\ Len(t) = n + Len(u) /\ n \in Nat /\ Len(u) \in Nat
      /\ \A i \in 1..n : t[i] = s[i] /\ s[i] \in Nat
  BY <1>1, JoinedBytes
<1> HIDE DEF n
<1>3. /\ SubSeq(s, 1, n) \in Seq(Nat) /\ Len(SubSeq(s, 1, n)) = IF 1 <= n THEN n - 1 + 1 ELSE 0
      /\ \A i \in 1..(n - 1 + 1) : SubSeq(s, 1, n)[i] = s[1 + i - 1]
  BY <1>2, SubSeqProperties
<1>4. /\ SubSeq(t, 1, n) \in Seq(Nat) /\ Len(SubSeq(t, 1, n)) = IF 1 <= n THEN n - 1 + 1 ELSE 0
      /\ \A i \in 1..(n - 1 + 1) : SubSeq(t, 1, n)[i] = t[1 + i - 1]
  BY <1>2, SubSeqProperties
<1>5. Len(SubSeq(s, 1, n)) = n /\ Len(SubSeq(t, 1, n)) = n
  BY <1>2, <1>3, <1>4
<1>6. \A i \in 1..n : SubSeq(s, 1, n)[i] = SubSeq(t, 1, n)[i]
  BY <1>2, <1>3, <1>4
<1>7. SubSeq(s, 1, n) = SubSeq(t, 1, n)
  BY <1>3, <1>4, <1>5, <1>6, SeqEqual
<1> QED BY <1>2, <1>7 DEF IsPrefix, n

(* StreamFaithful: whatever is repeated, reordered, split anew or lost, for *)
(* any traffic whose peers number their bytes from one start.               *)
THEOREM StreamsAreFaithful == StreamSpec => []StreamFaithful
<1>1. FaithInv => StreamFaithful
  <2> SUFFICES ASSUME FaithInv, NEW k \in DOMAIN convs, NEW r \in Roles
               PROVE  LET st == convs[k][r] IN
                 /\ \A i \in 1..(Len(st.out) - 1) : st.out[i] < st.out[i + 1]
                 /\ Bytes(st.out) \subseteq Received(k, r)
                 /\ over => \A b \in Received(k, r) \ Bytes(st.out) :
                              b < log[First(Carriers(k, r))].data[1] \/ b \in HoleBytes(k, r)
                 /\ Len(st.buffer) <= 1 /\ st.segments = Cardinality(Carriers(k, r))
                 /\ IF over THEN IsPrefix(convs[k].text[r], st.out) ELSE convs[k].text[r] = st.out
                 /\ Cardinality({m \in LossMarkers : m.flow = flows[k].id}) =
                      convs[k].client.gaps + convs[k].client.retransmissions + convs[k].client.overlaps
                        + convs[k].server.gaps + convs[k].server.retransmissions + convs[k].server.overlaps
    BY DEF StreamFaithful
  <2> DEFINE c == convs[k]
             st == c[r]
             C == Carriers(k, r)
             H == HoleBytes(k, r)
  <2>1. Sincere(traffic, flows[k], k, c, log, DataOf(k), timeline, over) /\ over \in BOOLEAN
    BY DEF FaithInv
  <2>2. DataOf(k)[r] = C
    BY DEF DataOf, Carriers, By
  <2>3. Brought(log, C) = Received(k, r)
    BY DEF Brought, Received
  <2>4. Missed(timeline, flows[k].id, log, C) = H
    BY DEF Missed, Gap, HoleBytes
  <2> HIDE DEF c, C, H
  <2>5. PICK start : Dir(start, st, log, C, H)
    <3>1. Directed(traffic, flows[k], k, r, st, log, C, timeline)
      BY <2>1, <2>2 DEF Sincere
    <3> QED BY <2>4, <3>1 DEF Directed
  <2>6. /\ \A i \in 1..(Len(st.out) - 1) : st.out[i] < st.out[i + 1]
        /\ Bytes(st.out) \subseteq Brought(log, C)
        /\ Len(st.buffer) <= 1 /\ st.segments = Cardinality(C)
        /\ st.buffer = <<>> => \A b \in Brought(log, C) \ Bytes(st.out) : b < log[First(C)].data[1] \/ b \in H
    BY <2>5, DirPromises
  <2>7. Worded(c.text[r], st, over)
    BY <2>1 DEF Sincere
  <2>8. over => st.buffer = <<>> /\ IsPrefix(c.text[r], st.out)
    <3>1. ASSUME over PROVE st.buffer = <<>> /\ c.text[r] \in Seq(Nat) /\ Longer(c.text[r], st.out)
      BY <2>7, <3>1 DEF Worded
    <3> QED BY <3>1, LongerIsPrefix
  <2>9. ~over => c.text[r] = st.out
    BY <2>7 DEF Worded
  <2>10. Cardinality({m \in LossMarkers : m.flow = flows[k].id}) = Findings(c["client"]) + Findings(c["server"])
    <3>1. Marked(timeline, flows[k].id, c)
      BY <2>1 DEF Sincere
    <3> QED BY <3>1, MarkersOfFlow DEF Marked
  <2>11. Findings(c["client"]) + Findings(c["server"]) =
           c.client.gaps + c.client.retransmissions + c.client.overlaps
             + c.server.gaps + c.server.retransmissions + c.server.overlaps
    <3>1. \A q \in Roles : StreamShape(c[q])
      BY <2>1 DEF Sincere, Directed, Dir
    <3>2. StreamShape(c.client) /\ StreamShape(c.server)
      BY <3>1 DEF Roles
    <3> QED BY <3>2 DEF StreamShape, Findings
  <2> QED BY <2>3, <2>6, <2>8, <2>9, <2>10, <2>11 DEF c, C, H
<1> QED BY <1>1, FaithInvHolds, PTL

=============================================================================
