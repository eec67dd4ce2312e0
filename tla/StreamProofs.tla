---------------------------- MODULE StreamProofs ----------------------------
(***************************************************************************)
(* Theorems about the stream parsers, for everything peers may write,      *)
(* every length of a header and every way to cut the stream.  The stream   *)
(* is flattened from its units, so most lemmas here say where a unit is.   *)
(***************************************************************************)
EXTENDS StreamParsers, FiniteSetTheorems, SequenceTheorems, WellFoundedInduction, TLAPS

(* Every set of numbers has a least one; with it, induction over the       *)
(* numbers, the property being a set.                                      *)
LEMMA LeastNatural ==
  ASSUME NEW T, T \subseteq Nat, T # {}
  PROVE  \E n \in T : \A m \in T : n <= m
<1> DEFINE R == OpToRel(<, Nat)
<1>1. IsWellFoundedOn(R, Nat)
  BY NatLessThanWellFounded
<1>2. \A x, y \in Nat : <<y, x>> \in R <=> y < x
  BY DEF OpToRel
<1> HIDE DEF R
<1>3. PICK n \in T : \A y \in T : <<y, n>> \notin R
  BY <1>1, WFMin
<1>4. \A y \in T : y \in Nat /\ n \in Nat /\ ~(y < n)
  BY <1>2, <1>3
<1> QED BY <1>4

LEMMA SetInduction ==
  ASSUME NEW P, 0 \in P, \A n \in Nat : n \in P => n + 1 \in P
  PROVE  \A n \in Nat : n \in P
<1> DEFINE T == {n \in Nat : n \notin P}
<1>1. SUFFICES ASSUME T # {} PROVE FALSE
  OBVIOUS
<1>2. PICK n \in T : \A m \in T : n <= m
  BY <1>1, LeastNatural
<1>3. n # 0 /\ n - 1 \in Nat /\ n - 1 \notin T
  BY <1>2
<1> QED BY <1>2, <1>3

----------------------------------------------------------------------------
(* The partial results of FlattenSeq, and that it joins one more sequence  *)
(* at the end.                                                             *)
Glue(q, n, f) == \A i \in 1..n : f[i] = IF i = 1 THEN q[i] ELSE f[i - 1] \o q[i]

LEMMA GlueExists ==
  ASSUME NEW q
  PROVE  \A n \in Nat : \E f : f = [i \in 1..n |-> f[i]] /\ Glue(q, n, f)
<1> DEFINE P == {n \in Nat : \E f : f = [i \in 1..n |-> f[i]] /\ Glue(q, n, f)}
<1>1. 0 \in P
  <2>1. Glue(q, 0, [i \in 1..0 |-> 0])
    BY DEF Glue
  <2> QED BY <2>1
<1>2. ASSUME NEW n \in Nat, n \in P PROVE n + 1 \in P
  <2>1. PICK f : Glue(q, n, f)
    BY <1>2
  <2> DEFINE g == [i \in 1..(n + 1) |-> IF i = 1 THEN q[i] ELSE f[i - 1] \o q[i]]
  <2>2. \A i \in 1..n : g[i] = f[i]
    BY <2>1 DEF Glue
  <2>3. \A i \in 1..(n + 1) : i # 1 => i - 1 \in 1..n
    OBVIOUS
  <2>4. Glue(q, n + 1, g)
    BY <2>2, <2>3 DEF Glue
  <2>5. g = [i \in 1..(n + 1) |-> g[i]]
    OBVIOUS
  <2> HIDE DEF g
  <2> QED BY <2>4, <2>5
<1> HIDE DEF P
<1>3. \A n \in Nat : n \in P
  BY <1>1, <1>2, SetInduction
<1> QED BY <1>3 DEF P

Agree(q, r, n) == \A i \in 1..n : q[i] = r[i]

LEMMA GlueUnique ==
  ASSUME NEW q, NEW r, NEW n \in Nat, NEW m \in Nat, n <= m, Agree(q, r, n),
         NEW f, NEW g, Glue(q, n, f), Glue(r, m, g)
  PROVE  Agree(f, g, n)
<1> DEFINE P == {i \in Nat : i \in 1..n => f[i] = g[i]}
<1>1. 0 \in P
  OBVIOUS
<1>2. ASSUME NEW i \in Nat, i \in P PROVE i + 1 \in P
  <2>1. SUFFICES ASSUME i + 1 \in 1..n PROVE f[i + 1] = g[i + 1]
    OBVIOUS
  <2>2. i + 1 \in 1..m /\ q[i + 1] = r[i + 1] /\ i + 1 - 1 = i
    BY <2>1 DEF Agree
  <2>3. f[i + 1] = IF i + 1 = 1 THEN q[i + 1] ELSE f[i] \o q[i + 1]
    BY <2>1, <2>2 DEF Glue
  <2>4. g[i + 1] = IF i + 1 = 1 THEN r[i + 1] ELSE g[i] \o r[i + 1]
    BY <2>2 DEF Glue
  <2>5. i + 1 # 1 => f[i] = g[i]
    BY <1>2, <2>1
  <2> QED BY <2>2, <2>3, <2>4, <2>5
<1> HIDE DEF P
<1>3. \A i \in Nat : i \in P
  BY <1>1, <1>2, SetInduction
<1> QED BY <1>3 DEF P, Agree

LEMMA FlattenIsGlue ==
  ASSUME NEW q, Len(q) \in Nat, Len(q) # 0
  PROVE  \E f : Glue(q, Len(q), f) /\ FlattenSeq(q) = f[Len(q)]
<1> DEFINE Def(x) == x = [i \in 1..Len(q) |-> IF i = 1 THEN q[i] ELSE x[i - 1] \o q[i]]
           f == CHOOSE x : Def(x)
<1>1. PICK h : h = [i \in 1..Len(q) |-> h[i]] /\ Glue(q, Len(q), h)
  BY GlueExists
<1>2. Def(h)
  BY <1>1 DEF Glue
<1>3. FlattenSeq(q) = f[Len(q)]
  BY DEF FlattenSeq
<1>4. Def(f)
  BY <1>2, Zenon
<1> HIDE DEF f
<1>5. Glue(q, Len(q), f)
  BY <1>4 DEF Glue
<1> QED BY <1>3, <1>5

LEMMA FlattenEmpty == FlattenSeq(<<>>) = <<>>
  BY DEF FlattenSeq

LEMMA FlattenStep ==
  ASSUME NEW S, NEW q \in Seq(Seq(S)), NEW r \in Seq(Seq(S)), Len(r) = Len(q) + 1,
         \A i \in 1..Len(q) : r[i] = q[i]
  PROVE  FlattenSeq(r) = FlattenSeq(q) \o r[Len(r)]
<1>1. Len(q) \in Nat /\ Len(r) \in Nat /\ Len(r) # 0
  OBVIOUS
<1>2. PICK g : Glue(r, Len(r), g) /\ FlattenSeq(r) = g[Len(r)]
  BY <1>1, FlattenIsGlue
<1>3. g[Len(r)] = IF Len(r) = 1 THEN r[Len(r)] ELSE g[Len(r) - 1] \o r[Len(r)]
  BY <1>1, <1>2 DEF Glue
<1>4. CASE Len(q) = 0
  <2>1. q = <<>> /\ Len(r) = 1 /\ r[1] \in Seq(S)
    BY <1>4
  <2>2. FlattenSeq(q) = <<>>
    BY <2>1, FlattenEmpty
  <2>3. <<>> \o r[1] = r[1]
    BY <2>1, ConcatEmptySeq
  <2> QED BY <1>2, <1>3, <2>1, <2>2, <2>3
<1>5. CASE Len(q) # 0
  <2>1. PICK f : Glue(q, Len(q), f) /\ FlattenSeq(q) = f[Len(q)]
    BY <1>1, <1>5, FlattenIsGlue
  <2>2. Len(q) <= Len(r) /\ \A i \in 1..Len(q) : q[i] = r[i]
    BY <1>1
  <2>k. Agree(q, r, Len(q))
    BY <2>2 DEF Agree
  <2>l. Agree(f, g, Len(q))
    BY <1>1, <1>2, <2>1, <2>2, <2>k, GlueUnique
  <2>3. \A i \in 1..Len(q) : f[i] = g[i]
    BY <2>l DEF Agree
  <2>4. f[Len(q)] = g[Len(r) - 1] /\ Len(r) # 1
    BY <1>1, <1>5, <2>3
  <2> QED BY <1>2, <1>3, <2>1, <2>4
<1> QED BY <1>4, <1>5

(* What is written: bytes, units and what they are returned as.            *)
Kinds == TlsKinds \cup HttpKinds \cup H2Kinds \cup {"other", "rest"}
Byte == [mark : Kinds, size : Nat, ends : BOOLEAN]
Units(w) == UnitsOf(Kinds)
Took == [kind : Kinds, size : Nat]

LEMMA WrittenUnits ==
  ASSUME NEW w \in Written
  PROVE  /\ w.units \in Seq(Units(w)) /\ Len(w.units) \in Nat
         /\ DOMAIN w.units = 1..Len(w.units)
         /\ \A i \in 1..Len(w.units) : w.units[i] \in Units(w)
<1>1. w.units \in Seq(Units(w))
  <2>1. PICK K \in {TlsKinds \cup {"other"}, HttpKinds, H2Kinds} : w.units \in Seq(UnitsOf(K))
    BY ParserAssumption
  <2>2. UnitsOf(K) \subseteq Units(w)
    BY <2>1 DEF Units, UnitsOf, Kinds
  <2> HIDE DEF Units
  <2> QED BY <2>1, <2>2, SeqMonotonic
<1> HIDE DEF Units
<1> QED BY <1>1

(* Two sequences one behind the other.                                     *)
Joins(c, S, a, m, b, n) ==
  /\ c \in Seq(S) /\ Len(c) = m + n /\ m \in Nat /\ n \in Nat
  /\ \A k \in 1..(m + n) : c[k] = IF k <= m THEN a[k] ELSE b[k - m]

LEMMA Joined ==
  ASSUME NEW S, NEW a \in Seq(S), NEW b \in Seq(S)
  PROVE  Joins(a \o b, S, a, Len(a), b, Len(b))
<1>1. Len(a) \in Nat /\ Len(b) \in Nat
  BY LenProperties
<1> QED BY <1>1, ConcatProperties DEF Joins

(* The bytes of a unit: its header first, and an end mark at its end when  *)
(* it comes in chunks.                                                     *)
EncodedShape(u) ==
  /\ Encoded(u) \in Seq(Byte)
  /\ Len(Encoded(u)) = UnitLen(u)
  /\ Encoded(u)[1].mark = u.kind /\ Encoded(u)[1].size = u.size
  /\ u.kind = "chunked" => Encoded(u)[UnitLen(u)].ends

LEMMA EncodedBytes ==
  ASSUME NEW w, NEW u \in Units(w)
  PROVE  EncodedShape(u)
<1>1. u.size \in Nat /\ u.kind \in Kinds /\ "rest" \in Kinds
  BY DEF Units, UnitsOf, Kinds
<1>2. UnitLen(u) \in Nat /\ UnitLen(u) >= 1
  BY <1>1, ParserAssumption DEF UnitLen
<1>3. ASSUME NEW i \in 1..UnitLen(u)
      PROVE  [mark |-> IF i = 1 THEN u.kind ELSE "rest", size |-> IF i = 1 THEN u.size ELSE 0,
              ends |-> i \in u.marks \/ (u.kind = "chunked" /\ i = UnitLen(u))] \in Byte
  BY <1>1 DEF Byte
<1>4. Encoded(u) \in Seq(Byte) /\ Len(Encoded(u)) = UnitLen(u)
  BY <1>2, <1>3 DEF Encoded
<1>5. Encoded(u)[1].mark = u.kind /\ Encoded(u)[1].size = u.size
  BY <1>2 DEF Encoded
<1>6. u.kind = "chunked" => Encoded(u)[UnitLen(u)].ends
  <2> DEFINE n == UnitLen(u)
  <2>1. n \in 1..n
    BY <1>2
  <2>2. Encoded(u)[n].ends = (n \in u.marks \/ (u.kind = "chunked" /\ n = n))
    <3> HIDE DEF n
    <3>1. Encoded(u) = [i \in 1..n |->
                          [mark |-> IF i = 1 THEN u.kind ELSE "rest", size |-> IF i = 1 THEN u.size ELSE 0,
                           ends |-> i \in u.marks \/ (u.kind = "chunked" /\ i = n)]]
      BY DEF Encoded, n
    <3> QED BY <2>1, <3>1
  <2> QED BY <2>2
<1> QED BY <1>4, <1>5, <1>6 DEF EncodedShape

(* The stream is its units one behind the other: each byte of a unit stands *)
(* behind all units before it.                                             *)
Prefix(w, i) == FlattenSeq([j \in 1..i |-> Encoded(w.units[j])])

LEMMA PrefixStep ==
  ASSUME NEW w \in Written, NEW i \in Nat, i + 1 \in 1..Len(w.units)
  PROVE  Prefix(w, i + 1) = Prefix(w, i) \o Encoded(w.units[i + 1])
<1> DEFINE q == [j \in 1..i |-> Encoded(w.units[j])]
           r == [j \in 1..(i + 1) |-> Encoded(w.units[j])]
<1>1. \A j \in 1..(i + 1) : Encoded(w.units[j]) \in Seq(Byte)
  <2>1. ASSUME NEW j \in 1..(i + 1) PROVE w.units[j] \in Units(w)
    BY WrittenUnits
  <2> QED BY <2>1, EncodedBytes DEF EncodedShape
<1>2. q \in Seq(Seq(Byte)) /\ Len(q) = i
  BY <1>1
<1>3. r \in Seq(Seq(Byte)) /\ Len(r) = i + 1 /\ r[i + 1] = Encoded(w.units[i + 1])
  BY <1>1
<1>4. \A j \in 1..Len(q) : r[j] = q[j]
  BY <1>2
<1> HIDE DEF q, r
<1>5. FlattenSeq(r) = FlattenSeq(q) \o r[Len(r)]
  BY <1>2, <1>3, <1>4, FlattenStep
<1> QED BY <1>3, <1>5 DEF Prefix, q, r

(* A unit is at least as long as a header.                                 *)
UnitRoom(w, i) == w.units[i] \in Units(w) /\ UnitLen(w.units[i]) \in Nat /\ UnitLen(w.units[i]) >= HeadLen

LEMMA UnitsHaveRoom ==
  ASSUME NEW w \in Written, NEW i \in 1..Len(w.units)
  PROVE  UnitRoom(w, i)
<1>1. w.units[i] \in Units(w)
  BY WrittenUnits
<1> QED BY <1>1, ParserAssumption DEF UnitRoom, UnitLen, Units, UnitsOf

LayOut(w, i) ==
  /\ Prefix(w, i) \in Seq(Byte) /\ Len(Prefix(w, i)) = Ends(w, i)
  /\ Ends(w, 0) = 0
  /\ \A m \in 0..i : Ends(w, m) \in Nat /\ Ends(w, m) <= Ends(w, i)
  /\ \A m \in 1..i : Ends(w, m) = Ends(w, m - 1) + UnitLen(w.units[m])
  /\ \A m \in 1..i : \A k \in 1..UnitLen(w.units[m]) :
       Prefix(w, i)[Ends(w, m - 1) + k] = Encoded(w.units[m])[k]

LEMMA LayOutAll ==
  ASSUME NEW w \in Written
  PROVE  \A i \in 0..Len(w.units) : LayOut(w, i)
<1> DEFINE P == {i \in Nat : i <= Len(w.units) => LayOut(w, i)}
<1>0. Len(w.units) \in Nat
  BY WrittenUnits
<1>1. 0 \in P
  <2>1. Prefix(w, 0) = <<>>
    <3>1. [j \in 1..0 |-> Encoded(w.units[j])] = <<>>
      OBVIOUS
    <3> QED BY <3>1, FlattenEmpty DEF Prefix
  <2>2. Ends(w, 0) = 0 /\ Prefix(w, 0) \in Seq(Byte) /\ Len(Prefix(w, 0)) = 0
    BY <2>1, EmptySeq DEF Ends, Prefix
  <2> QED BY <2>2 DEF LayOut
<1>2. ASSUME NEW i \in Nat, i \in P PROVE i + 1 \in P
  <2>1. SUFFICES ASSUME i + 1 <= Len(w.units) PROVE LayOut(w, i + 1)
    OBVIOUS
  <2> DEFINE u == w.units[i + 1]
  <2>2. LayOut(w, i)
    BY <1>0, <1>2, <2>1
  <2>3. u \in Units(w) /\ i + 1 \in 1..Len(w.units)
    BY <1>0, <2>1, WrittenUnits
  <2>4. EncodedShape(u)
    BY <2>3, EncodedBytes
  <2>5. Prefix(w, i + 1) = Prefix(w, i) \o Encoded(u)
    BY <2>3, PrefixStep
  <2> HIDE DEF u
  <2>6. Joins(Prefix(w, i + 1), Byte, Prefix(w, i), Ends(w, i), Encoded(u), UnitLen(u))
    <3>1. Prefix(w, i) \in Seq(Byte) /\ Len(Prefix(w, i)) = Ends(w, i)
      BY <2>2 DEF LayOut
    <3>2. Encoded(u) \in Seq(Byte) /\ Len(Encoded(u)) = UnitLen(u)
      BY <2>4 DEF EncodedShape
    <3> QED BY <2>5, <3>1, <3>2, Joined
  <2>7. Ends(w, i + 1) = Len(Prefix(w, i + 1))
    BY DEF Ends, Prefix
  <2>8. Ends(w, i + 1) = Ends(w, i) + UnitLen(u) /\ Ends(w, i + 1) \in Nat /\ UnitLen(u) \in Nat /\ Ends(w, i) \in Nat
    BY <2>6, <2>7 DEF Joins
  <2>9. \A m \in 0..(i + 1) : Ends(w, m) \in Nat /\ Ends(w, m) <= Ends(w, i + 1)
    <3>1. ASSUME NEW m \in 0..i PROVE Ends(w, m) \in Nat /\ Ends(w, m) <= Ends(w, i + 1)
      BY <2>2, <2>8 DEF LayOut
    <3> QED BY <2>8, <3>1
  <2>10. \A m \in 1..(i + 1) : Ends(w, m) = Ends(w, m - 1) + UnitLen(w.units[m])
    <3>1. ASSUME NEW m \in 1..i PROVE Ends(w, m) = Ends(w, m - 1) + UnitLen(w.units[m])
      BY <2>2 DEF LayOut
    <3>2. i + 1 - 1 = i /\ Ends(w, i + 1) = Ends(w, i) + UnitLen(w.units[i + 1])
      BY <2>8 DEF u
    <3> QED BY <3>1, <3>2
  <2>11. ASSUME NEW m \in 1..(i + 1), NEW k \in 1..UnitLen(w.units[m])
         PROVE  Prefix(w, i + 1)[Ends(w, m - 1) + k] = Encoded(w.units[m])[k]
    <3>1. CASE m = i + 1
      <4>1. k \in 1..UnitLen(u) /\ m - 1 = i /\ w.units[m] = u
        BY <3>1 DEF u
      <4>2. /\ Ends(w, i) + k \in 1..(Ends(w, i) + UnitLen(u)) /\ ~(Ends(w, i) + k <= Ends(w, i))
            /\ Ends(w, i) + k - Ends(w, i) = k
        BY <4>1, <2>8
      <4> QED BY <2>6, <4>1, <4>2 DEF Joins
    <3>2. CASE m # i + 1
      <4>1. m \in 1..i /\ m - 1 \in 0..i
        BY <3>2
      <4>2. Prefix(w, i)[Ends(w, m - 1) + k] = Encoded(w.units[m])[k]
        BY <2>2, <4>1 DEF LayOut
      <4>3. Ends(w, m) = Ends(w, m - 1) + UnitLen(w.units[m]) /\ Ends(w, m - 1) \in Nat
        BY <2>2, <4>1 DEF LayOut
      <4>4. Ends(w, m) <= Ends(w, i) /\ Ends(w, m) \in Nat
        BY <2>2, <4>1 DEF LayOut
      <4>5. Ends(w, m - 1) + k \in 1..(Ends(w, i) + UnitLen(u)) /\ Ends(w, m - 1) + k <= Ends(w, i)
        <5>1. UnitLen(w.units[m]) \in Nat
          <6>1. m \in 1..Len(w.units)
            BY <1>0, <2>1, <4>1
          <6> QED BY <6>1, UnitsHaveRoom DEF UnitRoom
        <5> QED BY <2>8, <4>3, <4>4, <5>1
      <4> QED BY <2>6, <4>2, <4>5 DEF Joins
    <3> QED BY <3>1, <3>2
  <2> QED BY <2>2, <2>6, <2>7, <2>9, <2>10, <2>11 DEF LayOut, Joins
<1> HIDE DEF P
<1>3. \A i \in Nat : i \in P
  BY <1>1, <1>2, SetInduction
<1> QED BY <1>0, <1>3 DEF P

Layout(w) ==
  /\ Stream(w) \in Seq(Byte) /\ Len(Stream(w)) = Ends(w, Len(w.units))
  /\ Ends(w, 0) = 0
  /\ \A i \in 0..Len(w.units) : Ends(w, i) \in Nat
  /\ \A i \in 1..Len(w.units) : Ends(w, i) = Ends(w, i - 1) + UnitLen(w.units[i])
  /\ \A i \in 1..Len(w.units) : \A k \in 1..UnitLen(w.units[i]) :
       Stream(w)[Ends(w, i - 1) + k] = Encoded(w.units[i])[k]

LEMMA StreamLayout ==
  ASSUME NEW w \in Written
  PROVE  Layout(w)
<1>1. LayOut(w, Len(w.units))
  BY WrittenUnits, LayOutAll
<1>2. Stream(w) = Prefix(w, Len(w.units))
  BY WrittenUnits DEF Stream, Prefix
<1> QED BY <1>1, <1>2 DEF LayOut, Layout

LEMMA UnitsInOrder ==
  ASSUME NEW w \in Written, NEW i \in 0..Len(w.units), NEW j \in 0..Len(w.units)
  PROVE  /\ i <= j => Ends(w, i) <= Ends(w, j)
         /\ i < j => Ends(w, i) + HeadLen <= Ends(w, j)
<1>0. Len(w.units) \in Nat /\ HeadLen \in Nat
  BY WrittenUnits, ParserAssumption
<1>1. LayOut(w, j) /\ LayOut(w, i)
  BY LayOutAll
<1>2. i <= j => Ends(w, i) <= Ends(w, j)
  BY <1>0, <1>1 DEF LayOut
<1>3. ASSUME i < j PROVE Ends(w, i) + HeadLen <= Ends(w, j)
  <2>1. j \in 1..Len(w.units) /\ j - 1 \in 0..Len(w.units) /\ i <= j - 1
    BY <1>0, <1>3
  <2>2. LayOut(w, j - 1)
    BY <2>1, LayOutAll
  <2>3. Ends(w, i) <= Ends(w, j - 1) /\ Ends(w, i) \in Nat /\ Ends(w, j - 1) \in Nat
    BY <2>1, <2>2 DEF LayOut
  <2>4. Ends(w, j) = Ends(w, j - 1) + UnitLen(w.units[j])
    BY <1>1, <2>1 DEF LayOut
  <2>5. UnitLen(w.units[j]) \in Nat /\ UnitLen(w.units[j]) >= HeadLen
    BY <2>1, UnitsHaveRoom DEF UnitRoom
  <2> QED BY <1>0, <2>3, <2>4, <2>5
<1> QED BY <1>2, <1>3

(* Every byte is of one unit.                                              *)
LEMMA WhichUnit ==
  ASSUME NEW w \in Written, NEW x \in 1..Len(Stream(w))
  PROVE  \E i \in 1..Len(w.units) : Ends(w, i - 1) < x /\ x <= Ends(w, i)
<1>0. Len(w.units) \in Nat /\ Layout(w)
  BY WrittenUnits, StreamLayout
<1> DEFINE T == {i \in 0..Len(w.units) : x <= Ends(w, i)}
<1>1. Len(w.units) \in T
  BY <1>0 DEF Layout
<1>2. PICK i \in T : \A m \in T : i <= m
  <2>1. T \subseteq Nat /\ T # {}
    BY <1>0, <1>1
  <2> HIDE DEF T
  <2> QED BY <2>1, LeastNatural
<1>3. i # 0 /\ i \in 1..Len(w.units) /\ i - 1 \in 0..Len(w.units)
  BY <1>0, <1>2 DEF Layout
<1>4. i - 1 \notin T
  BY <1>2, <1>3
<1>5. ~(x <= Ends(w, i - 1)) /\ Ends(w, i - 1) \in Nat
  BY <1>0, <1>3, <1>4 DEF Layout
<1> QED BY <1>2, <1>3, <1>5

LEMMA UnitBytes ==
  ASSUME NEW w \in Written, NEW i \in 1..Len(w.units)
  PROVE  /\ Ends(w, i) \in Nat /\ Ends(w, i - 1) \in Nat
         /\ Ends(w, i) = Ends(w, i - 1) + UnitLen(w.units[i])
         /\ \A k \in 1..UnitLen(w.units[i]) : Stream(w)[Ends(w, i - 1) + k] = Encoded(w.units[i])[k]
<1>1. Layout(w) /\ Len(w.units) \in Nat
  BY StreamLayout, WrittenUnits
<1>2. i \in 0..Len(w.units) /\ i - 1 \in 0..Len(w.units)
  BY <1>1
<1> QED BY <1>1, <1>2 DEF Layout

(* A chunked message ends with an end mark.                                *)
LEMMA EndMarked ==
  ASSUME NEW w \in Written, NEW j \in 1..Len(w.units), w.units[j].kind = "chunked"
  PROVE  Stream(w)[Ends(w, j)].ends
<1> DEFINE u == w.units[j]
<1>1. /\ Ends(w, j) = Ends(w, j - 1) + UnitLen(u)
      /\ \A m \in 1..UnitLen(u) : Stream(w)[Ends(w, j - 1) + m] = Encoded(u)[m]
  BY UnitBytes
<1>2. u \in Units(w) /\ UnitLen(u) \in Nat /\ UnitLen(u) >= HeadLen
  BY UnitsHaveRoom DEF UnitRoom
<1>3. EncodedShape(u)
  BY <1>2, EncodedBytes
<1> HIDE DEF u
<1>4. UnitLen(u) \in 1..UnitLen(u)
  BY <1>2, ParserAssumption
<1>5. Encoded(u)[UnitLen(u)].ends
  BY <1>3 DEF EncodedShape, u
<1> QED BY <1>1, <1>4, <1>5

(* The inductive invariant.  A parser is lost when there is a unit it does *)
(* not return as it was written (a later cut does not help it); else it is *)
(* clean: p units are behind, the buffer holds what was fed behind them,   *)
(* byte for byte, it returned those units, and outside its loop it has none *)
(* whole left.  Either way the buffer is the end of what was fed.          *)
Lost(w) == \E i \in 1..Len(w.units) : Trap(w, i)

Skipped(w, p) == IF w.protocol = "http2" /\ p > 0 THEN 1 ELSE 0
Read(w, p) ==
  /\ Ends(w, p) <= fed /\ Len(pbuf) = fed - Ends(w, p)
  /\ \A k \in 1..Len(pbuf) : pbuf[k] = Stream(w)[Ends(w, p) + k]
Returned(w, p) ==
  /\ parsed \in Seq(Took) /\ Len(parsed) = p - Skipped(w, p)
  /\ \A k \in 1..Len(parsed) : parsed[k] = TakenAs(w.units[k + Skipped(w, p)])
Waits(w, p) ==
  p = Len(w.units) \/ fed < Ends(w, p + 1) \/ (w.protocol = "http2" /\ ~ready /\ fed < 2 * HeadLen)
OnlyLastCut(w, p) ==
  w.protocol # "http2" /\ p < Len(w.units) => \A c \in cuts : c = fed \/ c < Ends(w, p + 1)

Clean(w, p) ==
  /\ Read(w, p) /\ Returned(w, p)
  /\ w.protocol = "http2" => (ready <=> p > 0)
  /\ ~parsing => Waits(w, p)
  /\ parsing => fed \in cuts
  /\ OnlyLastCut(w, p)

Behind(w) == \A k \in 1..Len(pbuf) : pbuf[k] = Stream(w)[(fed - Len(pbuf)) + k]
ParserShape(w) ==
  /\ fed \in 0..Len(Stream(w)) /\ cuts \subseteq 1..fed
  /\ pbuf \in Seq(Byte) /\ Len(pbuf) <= fed /\ Behind(w)
  /\ ready \in BOOLEAN /\ parsing \in BOOLEAN
ParserInv ==
  \E w \in Written :
    /\ writer = w /\ ParserShape(w)
    /\ Lost(w) \/ \E p \in 0..Len(w.units) : Clean(w, p)

----------------------------------------------------------------------------
(* Helpers: a greatest element, what Drop leaves, the unit ahead.          *)
LEMMA GreatestNatural ==
  ASSUME NEW m \in Nat, NEW T, T \subseteq 1..m, T # {}
  PROVE  \E x \in T : \A y \in T : y <= x
<1> DEFINE R == {m - x : x \in T}
<1>1. PICK n \in R : \A y \in R : n <= y
  <2>0. \A x \in T : m - x \in Nat
    OBVIOUS
  <2>1. R \subseteq Nat /\ R # {}
    BY <2>0
  <2> HIDE DEF R
  <2> QED BY <2>1, LeastNatural
<1>2. PICK x \in T : n = m - x
  BY <1>1
<1>3. \A y \in T : m - y \in R /\ y \in Nat /\ x \in Nat
  OBVIOUS
<1> HIDE DEF R
<1>4. \A y \in T : n <= m - y
  BY <1>1, <1>3
<1> QED BY <1>2, <1>3, <1>4

LEMMA DropBytes ==
  ASSUME pbuf \in Seq(Byte), NEW n \in Nat
  PROVE  /\ Drop(n) \in Seq(Byte) /\ Len(Drop(n)) <= Len(pbuf) /\ Len(Drop(n)) \in Nat
         /\ n > Len(pbuf) => Len(Drop(n)) = 0
         /\ n <= Len(pbuf) => /\ Len(Drop(n)) = Len(pbuf) - n
                              /\ \A k \in 1..(Len(pbuf) - n) : Drop(n)[k] = pbuf[n + k]
<1> DEFINE l == Len(pbuf)
<1>1. l \in Nat /\ \A i \in (n + 1)..l : pbuf[i] \in Byte
  BY LenProperties, ElementOfSeq
<1>2. /\ SubSeq(pbuf, n + 1, l) \in Seq(Byte)
      /\ Len(SubSeq(pbuf, n + 1, l)) = IF n + 1 <= l THEN l - (n + 1) + 1 ELSE 0
      /\ \A i \in 1..(l - (n + 1) + 1) : SubSeq(pbuf, n + 1, l)[i] = pbuf[n + 1 + i - 1]
  <2> HIDE DEF l
  <2> QED BY <1>1, SubSeqProperties
<1>3. Drop(n) = SubSeq(pbuf, n + 1, l)
  BY DEF Drop
<1> HIDE DEF l
<1>4. \A k : k \in 1..(l - n) => n + 1 + k - 1 = n + k /\ k \in 1..(l - (n + 1) + 1)
  BY <1>1
<1> QED BY <1>1, <1>2, <1>3, <1>4 DEF l

UnitAhead(w, p) ==
  /\ p + 1 \in 1..Len(w.units) /\ p + 1 - 1 = p /\ UnitRoom(w, p + 1)
  /\ Ends(w, p) \in Nat /\ Ends(w, p + 1) = Ends(w, p) + UnitLen(w.units[p + 1])
  /\ pbuf[1].mark = w.units[p + 1].kind /\ pbuf[1].size = w.units[p + 1].size

LEMMA HeadOfUnit ==
  ASSUME NEW w \in Written, NEW p \in 0..Len(w.units), ParserShape(w), Read(w, p), Len(pbuf) >= HeadLen
  PROVE  UnitAhead(w, p)
<1>0. Len(w.units) \in Nat /\ HeadLen \in Nat /\ HeadLen >= 2 /\ Layout(w) /\ fed \in Nat
  BY WrittenUnits, ParserAssumption, StreamLayout DEF ParserShape, Layout
<1>1. Ends(w, p) \in Nat /\ Ends(w, Len(w.units)) \in Nat /\ Len(Stream(w)) = Ends(w, Len(w.units))
  BY <1>0 DEF Layout
<1>2. Len(pbuf) = fed - Ends(w, p) /\ fed <= Ends(w, Len(w.units))
  BY <1>0, <1>1 DEF Read, ParserShape
<1>3. p # Len(w.units)
  BY <1>0, <1>1, <1>2
<1>4. p + 1 \in 1..Len(w.units) /\ p + 1 - 1 = p
  BY <1>0, <1>3
<1>5. Ends(w, p + 1) = Ends(w, p) + UnitLen(w.units[p + 1])
  BY <1>4, UnitBytes
<1>6. UnitRoom(w, p + 1)
  BY <1>4, UnitsHaveRoom
<1>7. pbuf[1] = Stream(w)[Ends(w, p) + 1]
  BY <1>0, <1>1, <1>2 DEF Read
<1>8. Stream(w)[Ends(w, p) + 1] = Encoded(w.units[p + 1])[1]
  BY <1>0, <1>4, <1>6, UnitBytes DEF UnitRoom
<1>9. EncodedShape(w.units[p + 1])
  BY <1>6, EncodedBytes DEF UnitRoom
<1> QED BY <1>1, <1>4, <1>5, <1>6, <1>7, <1>8, <1>9 DEF UnitAhead, EncodedShape

\* One more unit of the stream is behind.
Consumes(w, p) ==
  /\ fed' = fed /\ cuts' = cuts
  /\ pbuf' = Drop(UnitLen(w.units[p + 1])) /\ Ends(w, p + 1) <= fed

LEMMA ReadOn ==
  ASSUME NEW w \in Written, NEW p \in 0..Len(w.units), ParserShape(w), Read(w, p), UnitAhead(w, p), Consumes(w, p)
  PROVE  Read(w, p + 1)'
<1> DEFINE n == UnitLen(w.units[p + 1])
           e == Ends(w, p)
           l == Len(pbuf)
<1>1. n \in Nat /\ e \in Nat /\ Ends(w, p + 1) = e + n
  BY DEF UnitAhead, UnitRoom
<1>2. fed \in Nat /\ pbuf \in Seq(Byte)
  <2>1. Len(Stream(w)) \in Nat
    BY StreamLayout, LenProperties DEF Layout
  <2> QED BY <2>1 DEF ParserShape
<1>3. l = fed - e /\ e <= fed /\ \A k \in 1..l : pbuf[k] = Stream(w)[e + k]
  BY DEF Read
<1>4. fed' = fed /\ pbuf' = Drop(n) /\ e + n <= fed
  BY <1>1 DEF Consumes
<1> HIDE DEF n, e
<1>5. n <= l /\ l \in Nat
  BY <1>1, <1>2, <1>3, <1>4
<1>6. Len(pbuf') = l - n /\ \A k \in 1..(l - n) : pbuf'[k] = pbuf[n + k]
  BY <1>1, <1>2, <1>4, <1>5, DropBytes
<1> HIDE DEF l
<1>7. Len(pbuf') = fed - (e + n)
  BY <1>1, <1>2, <1>3, <1>5, <1>6
<1>8. ASSUME NEW k \in 1..(l - n) PROVE pbuf'[k] = Stream(w)[(e + n) + k]
  <2>1. n + k \in 1..l /\ e + (n + k) = (e + n) + k
    BY <1>1, <1>5
  <2>2. pbuf[n + k] = Stream(w)[e + (n + k)]
    BY <1>3, <2>1
  <2> QED BY <1>6, <2>1, <2>2
<1> QED BY <1>1, <1>4, <1>6, <1>7, <1>8 DEF Read

LEMMA CutsBehind ==
  ASSUME NEW w \in Written, NEW p \in 0..Len(w.units), ParserShape(w), OnlyLastCut(w, p), UnitAhead(w, p), Consumes(w, p)
  PROVE  OnlyLastCut(w, p + 1)'
<1>1. SUFFICES ASSUME w.protocol # "http2", p + 1 < Len(w.units), NEW c \in cuts
               PROVE  c = fed \/ c < Ends(w, p + 1 + 1)
  BY DEF OnlyLastCut, Consumes
<1>2. Len(w.units) \in Nat /\ p \in Nat /\ p < Len(w.units) /\ p + 1 \in 0..Len(w.units) /\ p + 1 + 1 \in 0..Len(w.units)
  BY <1>1, WrittenUnits
<1>3. c = fed \/ c < Ends(w, p + 1)
  BY <1>1, <1>2 DEF OnlyLastCut
<1>4. Ends(w, p + 1) <= Ends(w, p + 1 + 1) /\ Ends(w, p + 1) \in Nat /\ Ends(w, p + 1 + 1) \in Nat
  BY <1>2, UnitsInOrder, StreamLayout DEF Layout
<1>5. Len(Stream(w)) \in Nat
  BY StreamLayout, LenProperties DEF Layout
<1>6. c \in Nat
  BY <1>1, <1>5 DEF ParserShape
<1> QED BY <1>3, <1>4, <1>6

LEMMA ReturnOne ==
  ASSUME NEW w \in Written, NEW p \in 0..Len(w.units), Returned(w, p), UnitAhead(w, p),
         w.protocol = "http2" => p > 0,
         parsed' = Append(parsed, [kind |-> pbuf[1].mark, size |-> UnitLen(w.units[p + 1])])
  PROVE  Returned(w, p + 1)'
<1> DEFINE u == TakenAs(w.units[p + 1])
           s == Skipped(w, p)
<1>1. u \in Took /\ u = [kind |-> pbuf[1].mark, size |-> UnitLen(w.units[p + 1])]
  BY DEF UnitAhead, UnitRoom, Units, UnitsOf, TakenAs, Took
<1>2. parsed' = Append(parsed, u)
  BY <1>1
<1>3. Skipped(w, p + 1) = s /\ s \in {0, 1} /\ p \in Nat
  BY WrittenUnits DEF Skipped
<1>4. parsed \in Seq(Took) /\ Len(parsed) = p - s /\ \A k \in 1..Len(parsed) : parsed[k] = TakenAs(w.units[k + s])
  BY DEF Returned
<1> HIDE DEF u, s
<1>5. parsed' \in Seq(Took) /\ Len(parsed') = p - s + 1
  BY <1>1, <1>2, <1>4
<1>6. ASSUME NEW k \in 1..Len(parsed') PROVE parsed'[k] = TakenAs(w.units[k + s])
  <2>1. CASE k = p - s + 1
    <3>1. k + s = p + 1
      BY <1>3, <2>1
    <3> QED BY <1>1, <1>2, <1>4, <2>1, <3>1 DEF u
  <2>2. CASE k # p - s + 1
    <3>1. k \in 1..Len(parsed)
      BY <1>3, <1>4, <1>5, <2>2
    <3>2. parsed'[k] = parsed[k]
      BY <1>1, <1>2, <1>4, <3>1
    <3> QED BY <1>4, <3>1, <3>2
  <2> QED BY <2>1, <2>2
<1>7. Len(parsed') = (p + 1) - s
  BY <1>3, <1>5
<1> QED BY <1>3, <1>5, <1>6, <1>7 DEF Returned

LEMMA TakeUnit ==
  ASSUME NEW w \in Written, NEW p \in 0..Len(w.units), ParserShape(w), Clean(w, p), UnitAhead(w, p),
         Ends(w, p + 1) <= fed, parsing, fed' = fed, cuts' = cuts, w.protocol = "http2" => ready,
         Yield(UnitLen(w.units[p + 1]))
  PROVE  Clean(w, p + 1)'
<1>1. Consumes(w, p)
  BY DEF Consumes, Yield
<1>2. Read(w, p + 1)' /\ OnlyLastCut(w, p + 1)'
  BY <1>1, ReadOn, CutsBehind DEF Clean
<1>3. Returned(w, p + 1)'
  BY ReturnOne DEF Clean, Yield
<1>4. (w.protocol = "http2" => (ready <=> p + 1 > 0))' /\ (~parsing => Waits(w, p + 1))'
  BY DEF Clean, Yield
<1>5. (parsing => fed \in cuts)'
  BY DEF Clean, Yield
<1> QED BY <1>2, <1>3, <1>4, <1>5 DEF Clean

LEMMA LeaveLoop ==
  ASSUME NEW w \in Written, NEW p \in 0..Len(w.units), Clean(w, p), Waits(w, p), Leave, fed' = fed, cuts' = cuts
  PROVE  Clean(w, p)'
<1>1. Read(w, p)'
  BY DEF Clean, Read, Leave
<1>2. Returned(w, p)'
  BY DEF Clean, Returned, Leave
<1>3. Waits(w, p)' /\ OnlyLastCut(w, p)'
  BY DEF Clean, Waits, OnlyLastCut, Leave
<1> QED BY <1>1, <1>2, <1>3 DEF Clean, Leave

LEMMA KindsWritten ==
  ASSUME NEW w \in Written, NEW i \in 1..Len(w.units)
  PROVE  /\ w.protocol \in {"tls", "http1", "http2"}
         /\ w.protocol = "tls" => w.units[i].kind \in TlsKinds \cup {"other"}
         /\ w.protocol = "http1" => w.units[i].kind \in HttpKinds
         /\ w.protocol = "http2" => /\ w.units[i].kind \in H2Kinds
                                    /\ w.units[1].kind = "preface" /\ w.units[1].size = 0
<1>1. ASSUME NEW K, w.units \in Seq(UnitsOf(K)) PROVE w.units[i].kind \in K
  <2>1. w.units[i] \in UnitsOf(K)
    BY <1>1, ElementOfSeq
  <2> QED BY <2>1 DEF UnitsOf
<1>2. CASE w.protocol = "tls" /\ w.units \in Seq(UnitsOf(TlsKinds \cup {"other"}))
  BY <1>1, <1>2
<1>3. CASE w.protocol = "http1" /\ w.units \in Seq(UnitsOf(HttpKinds))
  BY <1>1, <1>3
<1>4. CASE w.protocol = "http2" /\ w.units \in Seq(UnitsOf(H2Kinds)) /\ w.units[1].kind = "preface" /\ w.units[1].size = 0
  BY <1>1, <1>4
<1> QED BY <1>2, <1>3, <1>4, ParserAssumption

\* Of the unit ahead, as much came as the buffer has.
LEMMA CameWhole ==
  ASSUME NEW w \in Written, NEW p \in 0..Len(w.units), ParserShape(w), Read(w, p), UnitAhead(w, p)
  PROVE  /\ Len(pbuf) >= UnitLen(w.units[p + 1]) <=> Ends(w, p + 1) <= fed
         /\ fed \in Nat /\ Len(pbuf) \in Nat
<1>1. fed \in Nat /\ Len(pbuf) \in Nat
  BY StreamLayout, LenProperties DEF Layout, ParserShape
<1>2. Len(pbuf) = fed - Ends(w, p) /\ Ends(w, p) \in Nat
  BY DEF Read, UnitAhead
<1>3. Ends(w, p + 1) = Ends(w, p) + UnitLen(w.units[p + 1]) /\ UnitLen(w.units[p + 1]) \in Nat
  BY DEF UnitAhead, UnitRoom
<1> QED BY <1>1, <1>2, <1>3

LEMMA ShortWaits ==
  ASSUME NEW w \in Written, NEW p \in 0..Len(w.units), ParserShape(w), Read(w, p), Len(pbuf) < HeadLen
  PROVE  Waits(w, p)
<1>1. SUFFICES ASSUME p # Len(w.units) PROVE fed < Ends(w, p + 1)
  BY DEF Waits
<1>2. p + 1 \in 0..Len(w.units) /\ p < p + 1
  BY <1>1, WrittenUnits
<1>3. Ends(w, p) + HeadLen <= Ends(w, p + 1) /\ Ends(w, p) \in Nat /\ Ends(w, p + 1) \in Nat
  BY <1>2, UnitsInOrder, StreamLayout DEF Layout
<1>4. fed \in Nat /\ Len(pbuf) = fed - Ends(w, p)
  BY StreamLayout, LenProperties DEF Layout, ParserShape, Read
<1> QED BY <1>3, <1>4, ParserAssumption

Goes(w) == \E q \in 0..Len(w.units) : Clean(w, q)'

LEMMA TakeOrLeave ==
  ASSUME NEW w \in Written, NEW p \in 0..Len(w.units), ParserShape(w), Clean(w, p), UnitAhead(w, p),
         parsing, fed' = fed, cuts' = cuts, w.protocol = "http2" => ready,
         IF Len(pbuf) < UnitLen(w.units[p + 1]) THEN Leave
         ELSE Yield(UnitLen(w.units[p + 1]))
  PROVE  Goes(w)
<1>0. /\ Len(pbuf) >= UnitLen(w.units[p + 1]) <=> Ends(w, p + 1) <= fed
      /\ fed \in Nat /\ Len(pbuf) \in Nat /\ UnitLen(w.units[p + 1]) \in Nat
      /\ Ends(w, p + 1) \in Nat /\ p + 1 \in 0..Len(w.units)
  BY CameWhole, WrittenUnits DEF Clean, UnitAhead, UnitRoom
<1>1. CASE Len(pbuf) < UnitLen(w.units[p + 1])
  <2>1. Waits(w, p)
    BY <1>0, <1>1 DEF Waits
  <2>2. Clean(w, p)'
    BY <1>1, <2>1, LeaveLoop
  <2> QED BY <2>2 DEF Goes
<1>2. CASE ~(Len(pbuf) < UnitLen(w.units[p + 1]))
  <2>1. Clean(w, p + 1)'
    BY <1>0, <1>2, TakeUnit
  <2> QED BY <1>0, <2>1 DEF Goes
<1> QED BY <1>1, <1>2

LEMMA ShortLeaves ==
  ASSUME NEW w \in Written, NEW p \in 0..Len(w.units), ParserShape(w), Clean(w, p),
         Len(pbuf) < HeadLen, Leave, fed' = fed, cuts' = cuts
  PROVE  Goes(w)
<1>1. Clean(w, p)'
  BY ShortWaits, LeaveLoop DEF Clean
<1> QED BY <1>1 DEF Goes

LEMMA TlsGoes ==
  ASSUME NEW w \in Written, NEW p \in 0..Len(w.units), ParserShape(w), Clean(w, p),
         w.protocol = "tls", ~Lost(w), parsing, TlsStep, fed' = fed, cuts' = cuts
  PROVE  Goes(w)
<1>0. HeadLen \in Nat /\ Len(pbuf) \in Nat
  BY ParserAssumption, LenProperties DEF ParserShape
<1>1. CASE Len(pbuf) < HeadLen
  BY <1>1, ShortLeaves DEF TlsStep
<1>2. CASE Len(pbuf) >= HeadLen
  <2>1. UnitAhead(w, p)
    BY <1>2, HeadOfUnit DEF Clean
  <2>2. pbuf[1].mark \in TlsKinds /\ pbuf[1].mark # "chunked"
    BY <2>1 DEF UnitAhead, Lost, Trap, TlsKinds
  <2>3. UnitLen(w.units[p + 1]) = HeadLen + pbuf[1].size
    <3>1. pbuf[1].size \in Nat
      BY <2>1 DEF UnitAhead, UnitRoom, Units, UnitsOf
    <3> QED BY <1>0, <2>1, <2>2, <3>1 DEF UnitAhead, UnitLen
  <2>4. IF Len(pbuf) < UnitLen(w.units[p + 1]) THEN Leave
        ELSE Yield(UnitLen(w.units[p + 1]))
    BY <1>0, <1>2, <2>2, <2>3 DEF TlsStep
  <2> QED BY <2>1, <2>4, TakeOrLeave
<1> QED BY <1>0, <1>1, <1>2

LEMMA Http2Goes ==
  ASSUME NEW w \in Written, NEW p \in 0..Len(w.units), ParserShape(w), Clean(w, p),
         w.protocol = "http2", ~Lost(w), parsing, Http2Step, fed' = fed, cuts' = cuts
  PROVE  Goes(w)
<1>0. HeadLen \in Nat /\ HeadLen >= 2 /\ Len(pbuf) \in Nat /\ MaxUnit \in Nat
  BY ParserAssumption, LenProperties DEF ParserShape
<1>1. CASE ready /\ Len(pbuf) < HeadLen
  BY <1>1, ShortLeaves DEF Http2Step, H2Frames
<1>2. CASE ready /\ Len(pbuf) >= HeadLen
  <2>1. UnitAhead(w, p)
    BY <1>2, HeadOfUnit DEF Clean
  <2>2. pbuf[1].size \in Nat /\ ~(pbuf[1].size > MaxUnit)
    BY <2>1 DEF UnitAhead, UnitRoom, Units, UnitsOf, Lost, Trap
  <2>3. UnitLen(w.units[p + 1]) = HeadLen + pbuf[1].size
    <3>1. w.units[p + 1].kind # "chunked"
      BY <2>1, KindsWritten DEF UnitAhead, H2Kinds
    <3> QED BY <1>0, <2>1, <2>2, <3>1 DEF UnitAhead, UnitLen
  <2>4. IF Len(pbuf) < UnitLen(w.units[p + 1]) THEN Leave
        ELSE Yield(UnitLen(w.units[p + 1]))
    BY <1>0, <1>2, <2>2, <2>3 DEF Http2Step, H2Frames
  <2> QED BY <1>2, <2>1, <2>4, TakeOrLeave
<1>3. CASE ~ready /\ Len(pbuf) < 2 * HeadLen
  <2>1. p = 0
    BY <1>3, WrittenUnits DEF Clean
  <2>2. Ends(w, 0) = 0 /\ fed \in Nat
    BY StreamLayout, LenProperties DEF Layout, ParserShape
  <2>3. fed < 2 * HeadLen
    BY <1>0, <1>3, <2>1, <2>2 DEF Clean, Read
  <2>4. Waits(w, p)
    BY <1>3, <2>3 DEF Waits
  <2>5. Leave
    <3>1. H2Preface
      BY <1>3 DEF Http2Step
    <3>2. ~(Len(pbuf) >= 2 * HeadLen)
      BY <1>0, <1>3
    <3> QED BY <3>1, <3>2 DEF H2Preface
  <2>6. Clean(w, p)'
    BY <2>4, <2>5, LeaveLoop
  <2> QED BY <2>6 DEF Goes
<1>4. CASE ~ready /\ Len(pbuf) >= 2 * HeadLen
  <2>1. p = 0
    BY <1>4, WrittenUnits DEF Clean
  <2>2. UnitAhead(w, p)
    BY <1>0, <1>4, HeadOfUnit DEF Clean
  <2>3. w.units[1].kind = "preface" /\ w.units[1].size = 0 /\ 1 \in 1..Len(w.units)
    BY <2>1, <2>2, KindsWritten DEF UnitAhead
  <2>4. pbuf[1].mark = "preface" /\ UnitLen(w.units[p + 1]) = HeadLen
    BY <1>0, <2>1, <2>2, <2>3 DEF UnitAhead, UnitLen
  <2>5. ready' = TRUE /\ pbuf' = Drop(HeadLen) /\ UNCHANGED <<parsed, parsing>>
    BY <1>0, <1>4, <2>4 DEF Http2Step, H2Preface
  <2>6. Ends(w, p + 1) <= fed
    BY <1>0, <1>4, <2>2, <2>4, CameWhole DEF Clean
  <2>7. Consumes(w, p)
    BY <2>4, <2>5, <2>6 DEF Consumes
  <2>8. Read(w, p + 1)' /\ OnlyLastCut(w, p + 1)'
    BY <2>2, <2>7, ReadOn, CutsBehind DEF Clean
  <2>9. Returned(w, p + 1)'
    <3>1. parsed \in Seq(Took) /\ Len(parsed) = 0
      BY <2>1 DEF Clean, Returned, Skipped
    <3>2. Skipped(w, p + 1) = 1
      BY <2>1 DEF Skipped
    <3> QED BY <2>1, <2>5, <3>1, <3>2 DEF Returned
  <2>10. Clean(w, p + 1)'
    BY <2>1, <2>5, <2>8, <2>9 DEF Clean
  <2>11. p + 1 \in 0..Len(w.units)
    BY <2>2, WrittenUnits DEF UnitAhead
  <2> QED BY <2>10, <2>11 DEF Goes
<1> QED BY <1>0, <1>1, <1>2, <1>3, <1>4 DEF ParserShape

(* Where a chunked message is cut: at the last end mark in the buffer,     *)
(* which is its own unless the parser is lost.                             *)
LEMMA ChunkEndIsAMark ==
  ASSUME pbuf \in Seq(Byte)
  PROVE  IF EndMarks = {} THEN ChunkEnd = 0 ELSE ChunkEnd \in EndMarks /\ \A i \in EndMarks : i <= ChunkEnd
<1>1. CASE EndMarks = {}
  BY <1>1 DEF ChunkEnd
<1>2. CASE EndMarks # {}
  <2>1. Len(pbuf) \in Nat /\ EndMarks \subseteq 1..Len(pbuf)
    BY LenProperties, ParserAssumption DEF EndMarks
  <2>2. \E i \in EndMarks : \A j \in EndMarks : j <= i
    BY <1>2, <2>1, GreatestNatural
  <2>3. ChunkEnd = CHOOSE i \in EndMarks : \A j \in EndMarks : j <= i
    BY <1>2 DEF ChunkEnd
  <2> QED BY <1>2, <2>2, <2>3
<1> QED BY <1>1, <1>2

LEMMA ChunkEndIsNat ==
  ASSUME pbuf \in Seq(Byte)
  PROVE  ChunkEnd \in Nat
<1>1. EndMarks \subseteq Nat
  BY LenProperties, ParserAssumption DEF EndMarks
<1>2. CASE EndMarks = {}
  BY <1>2, ChunkEndIsAMark
<1>3. CASE EndMarks # {}
  <2>1. ChunkEnd \in EndMarks
    BY <1>3, ChunkEndIsAMark
  <2> QED BY <1>1, <2>1
<1> QED BY <1>2, <1>3

\* A chunked message ahead of a parser that is not lost is cut where it ends.
LEMMA ChunkCutRight ==
  ASSUME NEW w \in Written, NEW p \in 0..Len(w.units), ParserShape(w), Clean(w, p), parsing,
         UnitAhead(w, p), ~Lost(w), w.protocol = "http1", w.units[p + 1].kind = "chunked"
  PROVE  IF Ends(w, p + 1) <= fed THEN ChunkEnd = UnitLen(w.units[p + 1]) ELSE ChunkEnd = 0
<1> DEFINE e == Ends(w, p)
           n == UnitLen(w.units[p + 1])
<1>0. /\ HeadLen \in Nat /\ HeadLen >= 2 /\ fed \in Nat /\ Len(pbuf) \in Nat /\ pbuf \in Seq(Byte)
      /\ cuts \subseteq 1..fed
  BY StreamLayout, LenProperties, ParserAssumption DEF Layout, ParserShape
<1>1. /\ e \in Nat /\ n \in Nat /\ Ends(w, p + 1) = e + n /\ n >= HeadLen
      /\ p + 1 \in 1..Len(w.units) /\ p + 1 - 1 = p
  BY DEF UnitAhead, UnitRoom
<1>2. Len(pbuf) = fed - e /\ \A k \in 1..Len(pbuf) : pbuf[k] = Stream(w)[e + k]
  BY DEF Clean, Read
<1>3. ~Misread(w, p + 1)
  BY <1>1 DEF Lost, Trap
<1>4. \A c \in cuts : c = fed \/ c < e + n
  <2>1. p < Len(w.units)
    BY <1>1, WrittenUnits
  <2> QED BY <1>1, <2>1 DEF Clean, OnlyLastCut
<1>5. fed \in cuts
  BY DEF Clean
<1> HIDE DEF e, n
<1>6. ASSUME NEW m \in (e + 1)..fed, Stream(w)[m].ends
      PROVE  ~(m < e + n /\ CutIn(m, e + n)) /\ ~(m > e + n /\ ~CutIn(e + n, m))
  <2>1. Ends(w, p + 1 - 1) = e
    BY <1>1 DEF e
  <2> QED BY <1>1, <1>3, <1>6, <2>1 DEF Misread
<1>7. ASSUME NEW i \in EndMarks PROVE i <= n /\ e + n <= fed
  <2>1. i \in 1..Len(pbuf) /\ pbuf[i].ends /\ i \in Nat
    BY <1>0 DEF EndMarks
  <2>2. e + i \in (e + 1)..fed /\ Stream(w)[e + i].ends
    BY <1>0, <1>1, <1>2, <2>1
  <2>3. ASSUME e + i > e + n PROVE FALSE
    <3>1. ASSUME NEW c \in cuts, e + n <= c, c < e + i PROVE FALSE
      BY <1>0, <1>1, <1>4, <2>2, <3>1
    <3>2. ~CutIn(e + n, e + i)
      BY <3>1 DEF CutIn
    <3> QED BY <1>6, <2>2, <2>3, <3>2
  <2>4. ASSUME fed < e + n PROVE FALSE
    <3>1. e + i <= fed /\ e + i < e + n
      BY <1>0, <1>1, <2>2, <2>4
    <3>2. CutIn(e + i, e + n)
      BY <1>5, <2>4, <3>1 DEF CutIn
    <3> QED BY <1>6, <2>2, <3>1, <3>2
  <2> QED BY <1>0, <1>1, <2>1, <2>3, <2>4
<1>8. CASE e + n <= fed
  <2>1. n \in 1..Len(pbuf) /\ n >= HeadLen
    BY <1>0, <1>1, <1>2, <1>8
  <2>2. pbuf[n] = Stream(w)[Ends(w, p + 1)]
    BY <1>1, <1>2, <2>1
  <2>3. pbuf[n].ends
    BY <1>1, <2>2, EndMarked
  <2>4. n \in EndMarks
    BY <1>0, <2>1, <2>3 DEF EndMarks
  <2>5. ChunkEnd \in EndMarks /\ n <= ChunkEnd /\ ChunkEnd <= n
    BY <1>0, <1>7, <2>4, ChunkEndIsAMark
  <2>6. ChunkEnd \in Nat
    BY <1>0, ChunkEndIsNat
  <2> QED BY <1>1, <1>8, <2>5, <2>6 DEF n
<1>9. CASE ~(e + n <= fed)
  <2>1. EndMarks = {}
    BY <1>7, <1>9
  <2> QED BY <1>1, <1>9, <2>1 DEF ChunkEnd
<1> QED BY <1>8, <1>9

\* The buffer of a parser that is not lost holds no more than it may when its loop ends.
LEMMA HttpLeaves ==
  ASSUME NEW w \in Written, NEW p \in 0..Len(w.units), ParserShape(w), Clean(w, p), parsing,
         w.protocol = "http1", ~Lost(w), Waits(w, p), LeaveHttp1
  PROVE  Leave
<1>0. fed \in Nat /\ Len(pbuf) \in Nat /\ MaxMessage \in Nat /\ Len(w.units) \in Nat
  BY StreamLayout, LenProperties, WrittenUnits, ParserAssumption DEF Layout, ParserShape
<1>1. Ends(w, p) \in Nat /\ Len(pbuf) = fed - Ends(w, p)
  BY StreamLayout DEF Layout, Clean, Read
<1>2. ~(Len(pbuf) > MaxMessage)
  <2>1. CASE p = Len(w.units)
    <3>1. fed <= Ends(w, p)
      BY <2>1, StreamLayout DEF Layout, ParserShape
    <3> QED BY <1>0, <1>1, <3>1
  <2>2. CASE p # Len(w.units)
    <3>1. SUFFICES ASSUME Len(pbuf) > MaxMessage PROVE FALSE
      OBVIOUS
    <3>2. p + 1 \in 1..Len(w.units) /\ p + 1 - 1 = p /\ fed < Ends(w, p + 1)
      BY <1>0, <2>2 DEF Waits
    <3>3. Ends(w, p) + MaxMessage + 1 <= fed
      BY <1>0, <1>1, <3>1
    <3>4. CutIn(Ends(w, p) + MaxMessage + 1, Ends(w, p + 1))
      BY <3>2, <3>3 DEF CutIn, Clean
    <3>5. Trap(w, p + 1)
      BY <3>2, <3>4 DEF Trap
    <3> QED BY <3>2, <3>5 DEF Lost
  <2> QED BY <2>1, <2>2
<1> QED BY <1>2 DEF LeaveHttp1, Leave

LEMMA Http1Goes ==
  ASSUME NEW w \in Written, NEW p \in 0..Len(w.units), ParserShape(w), Clean(w, p),
         w.protocol = "http1", ~Lost(w), parsing, Http1Step, fed' = fed, cuts' = cuts
  PROVE  Goes(w)
<1>0. HeadLen \in Nat /\ HeadLen >= 2 /\ Len(pbuf) \in Nat
  BY ParserAssumption, LenProperties DEF ParserShape
<1>1. CASE Len(pbuf) < HeadLen
  <2>1. Waits(w, p)
    BY <1>1, ShortWaits DEF Clean
  <2>2. Leave
    BY <1>1, <2>1, HttpLeaves DEF Http1Step
  <2> QED BY <1>1, <2>2, ShortLeaves
<1>2. CASE Len(pbuf) >= HeadLen
  <2>1. UnitAhead(w, p)
    BY <1>2, HeadOfUnit DEF Clean
  <2> DEFINE u == w.units[p + 1]
  <2>2. pbuf[1].mark = u.kind /\ pbuf[1].size = u.size /\ u.size \in Nat /\ UnitLen(u) \in Nat /\ UnitLen(u) >= HeadLen
    BY <2>1 DEF UnitAhead, UnitRoom, Units, UnitsOf
  <2>3. u.kind \in HttpKinds
    BY <2>1, KindsWritten DEF UnitAhead
  <2>4. /\ Ends(w, p + 1) <= fed <=> Len(pbuf) >= UnitLen(u)
        /\ fed \in Nat /\ Ends(w, p + 1) \in Nat
    <3>1. Read(w, p) /\ Ends(w, p) \in Nat /\ Ends(w, p + 1) = Ends(w, p) + UnitLen(u)
      BY <2>1 DEF Clean, UnitAhead
    <3>2. (Len(pbuf) >= UnitLen(u) <=> Ends(w, p + 1) <= fed) /\ fed \in Nat
      BY <2>1, <3>1, CameWhole
    <3> QED BY <2>2, <3>1, <3>2
  <2>5. IF Len(pbuf) < UnitLen(u) THEN HttpTotal = 0 \/ HttpTotal = UnitLen(u) ELSE HttpTotal = UnitLen(u)
    <3>1. CASE u.kind = "length"
      BY <1>0, <2>2, <3>1 DEF HttpTotal, UnitLen
    <3>2. CASE u.kind = "bare"
      <4>1. ~(u.size > 0)
        BY <2>1, <3>2 DEF Lost, Trap, UnitAhead
      <4> QED BY <1>0, <2>2, <3>2, <4>1, SMTT(30) DEF HttpTotal, UnitLen
    <3>3. CASE u.kind = "chunked"
      <4>1. HttpTotal = ChunkEnd
        BY <2>2, <3>3 DEF HttpTotal
      <4>2. IF Ends(w, p + 1) <= fed THEN ChunkEnd = UnitLen(u) ELSE ChunkEnd = 0
        BY <2>1, <3>3, ChunkCutRight
      <4> QED BY <1>0, <2>2, <2>4, <4>1, <4>2
    <3> QED BY <2>3, <3>1, <3>2, <3>3 DEF HttpKinds
  <2> HIDE DEF u
  <2>6. IF Len(pbuf) < UnitLen(u) THEN LeaveHttp1 ELSE Yield(UnitLen(u))
    BY <1>0, <1>2, <2>2, <2>3, <2>5 DEF Http1Step
  <2>7. Len(pbuf) < UnitLen(u) => Waits(w, p)
    BY <1>0, <2>2, <2>4 DEF Waits
  <2>8. IF Len(pbuf) < UnitLen(u) THEN Leave ELSE Yield(UnitLen(u))
    BY <2>6, <2>7, HttpLeaves
  <2> QED BY <2>1, <2>8, TakeOrLeave DEF u
<1> QED BY <1>0, <1>1, <1>2

(* What was lost stays lost: a later cut lies behind all that was fed.     *)
LEMMA LossStays ==
  ASSUME NEW w \in Written, ParserShape(w), Lost(w), fed' \in Nat, fed <= fed', cuts \subseteq cuts',
         cuts' \subseteq Nat, \A c \in cuts' : c \in cuts \/ c > fed
  PROVE  Lost(w)'
<1>0. fed \in Nat /\ cuts \subseteq Nat
  BY StreamLayout, LenProperties DEF Layout, ParserShape
<1>1. PICK i \in 1..Len(w.units) : Trap(w, i)
  BY DEF Lost
<1>2. ASSUME NEW a, NEW b, CutIn(a, b) PROVE CutIn(a, b)'
  BY <1>2 DEF CutIn
<1>3. ASSUME Misread(w, i) PROVE Misread(w, i)'
  <2> DEFINE s == Ends(w, i - 1)
             e == Ends(w, i)
  <2>1. s \in Nat /\ e \in Nat
    BY UnitBytes
  <2>2. PICK m \in (s + 1)..fed : /\ Stream(w)[m].ends
                                 /\ \/ m < e /\ CutIn(m, e)
                                    \/ m > e /\ ~CutIn(e, m)
    BY <1>3 DEF Misread
  <2> HIDE DEF s, e
  <2>3. m \in (s + 1)..fed' /\ m \in Nat /\ m <= fed
    BY <1>0, <2>1, <2>2
  <2>4. CASE m < e /\ CutIn(m, e)
    <3>1. CutIn(m, e)'
      BY <1>2, <2>4
    <3>2. (m < e /\ CutIn(m, e)')
      BY <2>4, <3>1
    <3>3. \E x \in (s + 1)..fed' : Stream(w)[x].ends /\ x < e /\ CutIn(x, e)'
      BY <2>2, <2>3, <3>2
    <3> QED BY <3>3 DEF Misread, s, e
  <2>5. CASE m > e /\ ~CutIn(e, m)
    <3>1. ASSUME NEW c \in cuts', e <= c, c < m PROVE FALSE
      <4>1. c \in cuts \/ c > fed
        OBVIOUS
      <4>2. CASE c \in cuts
        BY <2>5, <3>1, <4>2 DEF CutIn
      <4>3. CASE c > fed
        BY <1>0, <2>3, <3>1, <4>3
      <4> QED BY <4>1, <4>2, <4>3
    <3>2. ~CutIn(e, m)'
      BY <3>1 DEF CutIn
    <3>3. \E x \in (s + 1)..fed' : Stream(w)[x].ends /\ x > e /\ ~CutIn(e, x)'
      BY <2>2, <2>3, <2>5, <3>2
    <3> QED BY <3>3 DEF Misread, s, e
  <2> QED BY <2>2, <2>4, <2>5
<1>4. Trap(w, i)'
  BY <1>1, <1>2, <1>3 DEF Trap
<1> QED BY <1>4 DEF Lost

LEMMA StepDrops ==
  ASSUME NEW w \in Written, writer = w, ParserShape(w), ParseStep
  PROVE  /\ writer' = writer /\ fed' = fed /\ cuts' = cuts /\ ready' \in BOOLEAN /\ parsing' \in BOOLEAN
         /\ pbuf' = pbuf \/ \E n \in Nat : pbuf' = Drop(n)
<1>0. HeadLen \in Nat /\ pbuf \in Seq(Byte) /\ Len(pbuf) \in Nat /\ ready \in BOOLEAN /\ parsing
  BY ParserAssumption, LenProperties DEF ParserShape, ParseStep
<1>1. writer' = writer /\ fed' = fed /\ cuts' = cuts
  BY DEF ParseStep
<1>2. ASSUME Leave PROVE pbuf' = pbuf /\ ready' \in BOOLEAN /\ parsing' \in BOOLEAN
  BY <1>0, <1>2 DEF Leave
<1>3. ASSUME NEW n \in Nat, Yield(n)
      PROVE  (\E m \in Nat : pbuf' = Drop(m)) /\ ready' \in BOOLEAN /\ parsing' \in BOOLEAN
  BY <1>0, <1>3 DEF Yield, ParserShape
<1>4. Len(pbuf) >= HeadLen => HeadLen + pbuf[1].size \in Nat
  <2>1. SUFFICES ASSUME Len(pbuf) >= HeadLen PROVE pbuf[1] \in Byte
    BY <1>0 DEF Byte
  <2>2. 1 \in 1..Len(pbuf)
    BY <1>0, <2>1, ParserAssumption
  <2> QED BY <1>0, <2>2, ElementOfSeq
<1>5. CASE TlsStep
  BY <1>0, <1>2, <1>3, <1>4, <1>5, <1>1 DEF TlsStep
<1>6. CASE Http2Step
  <2>1. CASE H2Frames
    BY <1>0, <1>2, <1>3, <1>4, <2>1, <1>1 DEF H2Frames
  <2>2. CASE H2Preface
    <3>1. CASE Leave
      BY <1>1, <1>2, <3>1
    <3>2. CASE ready' = TRUE /\ pbuf' = Drop(HeadLen) /\ UNCHANGED <<parsed, parsing>>
      BY <1>0, <1>1, <3>2
    <3> QED BY <2>2, <3>1, <3>2 DEF H2Preface
  <2> QED BY <1>6, <2>1, <2>2 DEF Http2Step
<1>7. CASE Http1Step
  <2>1. CASE LeaveHttp1
    <3>1. Len(pbuf) > MaxMessage => \E n \in Nat : pbuf' = Drop(n)
      <4>1. MaxMessage \div 2 \in Nat
        BY ParserAssumption
      <4> QED BY <2>1, <4>1 DEF LeaveHttp1
    <3>2. ~(Len(pbuf) > MaxMessage) => pbuf' = pbuf
      BY <2>1 DEF LeaveHttp1
    <3>3. ready' \in BOOLEAN /\ parsing' \in BOOLEAN
      BY <1>0, <2>1 DEF LeaveHttp1
    <3> QED BY <1>1, <3>1, <3>2, <3>3
  <2>2. CASE ~LeaveHttp1
    <3>1. Len(pbuf) >= HeadLen /\ Yield(HttpTotal)
      BY <1>0, <1>7, <2>2 DEF Http1Step
    <3>2. HttpTotal \in Nat
      BY <1>0, <1>4, <3>1, ChunkEndIsNat DEF HttpTotal
    <3>3. pbuf' = Drop(HttpTotal) /\ UNCHANGED <<parsing, ready>>
      BY <3>1 DEF Yield
    <3>4. ready' \in BOOLEAN /\ parsing' \in BOOLEAN
      BY <1>0, <3>3 DEF ParserShape
    <3>5. \E n \in Nat : pbuf' = Drop(n)
      BY <3>2, <3>3
    <3> QED BY <1>1, <3>4, <3>5
  <2> QED BY <2>1, <2>2
<1>8. w.protocol \in {"tls", "http1", "http2"}
  BY ParserAssumption
<1> QED BY <1>5, <1>6, <1>7, <1>8 DEF ParseStep

LEMMA StepKeepsShape ==
  ASSUME NEW w \in Written, writer = w, ParserShape(w), ParseStep
  PROVE  ParserShape(w)'
<1>1. /\ fed' = fed /\ cuts' = cuts /\ ready' \in BOOLEAN /\ parsing' \in BOOLEAN
      /\ pbuf' = pbuf \/ \E n \in Nat : pbuf' = Drop(n)
  BY StepDrops
<1>2. pbuf' \in Seq(Byte) /\ Len(pbuf') <= fed /\ Behind(w)'
  <2>1. CASE pbuf' = pbuf
    BY <1>1, <2>1 DEF ParserShape, Behind
  <2>2. ASSUME NEW n \in Nat, pbuf' = Drop(n) PROVE pbuf' \in Seq(Byte) /\ Len(pbuf') <= fed /\ Behind(w)'
    <3>1. Drop(n) \in Seq(Byte) /\ Len(Drop(n)) <= Len(pbuf) /\ Len(Drop(n)) \in Nat
      BY DropBytes DEF ParserShape
    <3>2. Len(pbuf) \in Nat /\ fed \in Nat /\ Len(pbuf) <= fed
      BY StreamLayout, LenProperties DEF Layout, ParserShape
    <3>3. Behind(w)'
      <4> DEFINE l == Len(pbuf)
      <4>1. ASSUME NEW k \in 1..Len(Drop(n)) PROVE Drop(n)[k] = Stream(w)[(fed - Len(Drop(n))) + k]
        <5>1. n <= l
          <6>1. SUFFICES ASSUME n > l PROVE FALSE
            BY <3>2
          <6>2. Len(Drop(n)) = 0
            BY <6>1, DropBytes DEF ParserShape
          <6> QED BY <6>2
        <5>2. Len(Drop(n)) = l - n /\ \A i \in 1..(l - n) : Drop(n)[i] = pbuf[n + i]
          BY <5>1, DropBytes DEF ParserShape
        <5>3. k \in 1..(l - n)
          BY <5>2
        <5>4. n + k \in 1..l /\ (fed - l) + (n + k) = (fed - (l - n)) + k
          BY <3>2, <5>1, <5>3
        <5>5. pbuf[n + k] = Stream(w)[(fed - l) + (n + k)]
          BY <5>4 DEF ParserShape, Behind
        <5> QED BY <5>2, <5>3, <5>4, <5>5
      <4> QED BY <1>1, <2>2, <4>1 DEF Behind
    <3> QED BY <2>2, <3>1, <3>2, <3>3
  <2> QED BY <1>1, <2>1, <2>2
<1> QED BY <1>1, <1>2 DEF ParserShape

LEMMA ParseKeepsInv ==
  ASSUME ParserInv, ParseStep
  PROVE  ParserInv'
<1>1. PICK w \in Written : /\ writer = w /\ ParserShape(w)
                           /\ Lost(w) \/ \E p \in 0..Len(w.units) : Clean(w, p)
  BY DEF ParserInv
<1>2. writer' = w /\ fed' = fed /\ cuts' = cuts /\ parsing
  BY <1>1, StepDrops DEF ParseStep
<1>3. ParserShape(w)'
  BY <1>1, StepKeepsShape
<1>4. CASE Lost(w)
  <2>1. fed \in Nat /\ cuts \subseteq Nat
    BY <1>1, StreamLayout, LenProperties DEF Layout, ParserShape
  <2>2. Lost(w)'
    BY <1>1, <1>2, <1>4, <2>1, LossStays
  <2> QED BY <1>2, <1>3, <2>2 DEF ParserInv
<1>6. ASSUME ~Lost(w), NEW p \in 0..Len(w.units), Clean(w, p) PROVE ParserInv'
  <2>1. CASE w.protocol = "tls"
    <3>1. TlsStep
      BY <1>1, <2>1 DEF ParseStep
    <3> QED BY <1>1, <1>2, <1>3, <1>6, <2>1, <3>1, TlsGoes DEF Goes, ParserInv
  <2>2. CASE w.protocol = "http2"
    <3>1. Http2Step
      BY <1>1, <2>2 DEF ParseStep
    <3> QED BY <1>1, <1>2, <1>3, <1>6, <2>2, <3>1, Http2Goes DEF Goes, ParserInv
  <2>3. CASE w.protocol = "http1"
    <3>1. Http1Step
      BY <1>1, <2>3 DEF ParseStep
    <3> QED BY <1>1, <1>2, <1>3, <1>6, <2>3, <3>1, Http1Goes DEF Goes, ParserInv
  <2> QED BY <2>1, <2>2, <2>3, ParserAssumption
<1> QED BY <1>1, <1>4, <1>6

LEMMA FeedKeepsInv ==
  ASSUME ParserInv, NEW n, Feed(n)
  PROVE  ParserInv'
<1>1. PICK w \in Written : /\ writer = w /\ ParserShape(w)
                           /\ Lost(w) \/ \E p \in 0..Len(w.units) : Clean(w, p)
  BY DEF ParserInv
<1> DEFINE s == Stream(w)
           d == SubSeq(s, fed + 1, fed + n)
<1>2. s \in Seq(Byte) /\ Len(s) \in Nat /\ fed \in Nat /\ fed <= Len(s) /\ cuts \subseteq 1..fed
      /\ pbuf \in Seq(Byte) /\ Len(pbuf) \in Nat /\ Len(pbuf) <= fed
  BY <1>1, StreamLayout, LenProperties DEF Layout, ParserShape
<1>3. /\ ~parsing /\ n \in Nat /\ n >= 1 /\ fed + n <= Len(s) /\ fed' = fed + n /\ cuts' = cuts \cup {fed + n} /\ parsing'
      /\ writer' = w /\ parsed' = parsed /\ ready' = ready /\ pbuf' = pbuf \o d
  BY <1>1, <1>2 DEF Feed
<1> HIDE DEF s
<1>4. d \in Seq(Byte) /\ Len(d) = n /\ \A k \in 1..n : d[k] = s[fed + k]
  <2>1. \A i \in (fed + 1)..(fed + n) : s[i] \in Byte
    <3>1. \A i \in (fed + 1)..(fed + n) : i \in 1..Len(s)
      BY <1>2, <1>3
    <3> QED BY <1>2, <3>1, ElementOfSeq
  <2>2. /\ SubSeq(s, fed + 1, fed + n) \in Seq(Byte)
        /\ Len(SubSeq(s, fed + 1, fed + n)) = IF fed + 1 <= fed + n THEN fed + n - (fed + 1) + 1 ELSE 0
        /\ \A i \in 1..(fed + n - (fed + 1) + 1) : SubSeq(s, fed + 1, fed + n)[i] = s[fed + 1 + i - 1]
    BY <1>2, <1>3, <2>1, SubSeqProperties
  <2>3. fed + n - (fed + 1) + 1 = n /\ fed + 1 <= fed + n /\ \A i \in 1..n : fed + 1 + i - 1 = fed + i
    BY <1>2, <1>3
  <2> QED BY <2>2, <2>3
<1> HIDE DEF d
<1>5. Joins(pbuf', Byte, pbuf, Len(pbuf), d, n)
  BY <1>2, <1>3, <1>4, Joined
<1>6. ParserShape(w)'
  <2>1. pbuf' \in Seq(Byte) /\ Len(pbuf') = Len(pbuf) + n
    BY <1>5 DEF Joins
  <2>2. Len(pbuf') <= fed' /\ fed' \in 0..Len(s) /\ cuts' \subseteq 1..fed'
    BY <1>2, <1>3, <2>1
  <2>3. ASSUME NEW k \in 1..(Len(pbuf) + n) PROVE pbuf'[k] = s[(fed + n - (Len(pbuf) + n)) + k]
    <3>1. pbuf'[k] = IF k <= Len(pbuf) THEN pbuf[k] ELSE d[k - Len(pbuf)]
      BY <1>5 DEF Joins
    <3>2. CASE k <= Len(pbuf)
      <4>1. k \in 1..Len(pbuf) /\ (fed + n - (Len(pbuf) + n)) + k = (fed - Len(pbuf)) + k
        BY <1>2, <1>3, <3>2
      <4>2. pbuf[k] = s[(fed - Len(pbuf)) + k]
        BY <1>1, <4>1 DEF ParserShape, Behind, s
      <4> QED BY <3>1, <3>2, <4>1, <4>2
    <3>3. CASE ~(k <= Len(pbuf))
      <4>1. /\ k - Len(pbuf) \in 1..n
            /\ (fed + n - (Len(pbuf) + n)) + k = fed + (k - Len(pbuf))
        BY <1>2, <1>3, <3>3
      <4> QED BY <1>4, <3>1, <3>3, <4>1
    <3> QED BY <3>2, <3>3
  <2>4. Behind(w)'
    <3> DEFINE z == fed + n - (Len(pbuf) + n)
    <3>f. fed' = fed + n /\ fed \in Nat /\ n \in Nat /\ Len(pbuf) \in Nat
      BY <1>2, <1>3
    <3>l. Len(pbuf') = Len(pbuf) + n
      BY <2>1
    <3>0. fed' - Len(pbuf') = z
      BY <3>f, <3>l
    <3>q. \A k \in 1..(Len(pbuf) + n) : pbuf'[k] = s[z + k]
      BY <2>3
    <3> HIDE DEF z
    <3>1. \A k \in 1..Len(pbuf') : pbuf'[k] = s[(fed' - Len(pbuf')) + k]
      BY <3>0, <3>l, <3>q
    <3> QED BY <3>1 DEF Behind, s
  <2> QED BY <1>1, <1>3, <2>1, <2>2, <2>4 DEF ParserShape, s
<1>7. CASE Lost(w)
  <2>1. fed' \in Nat /\ fed <= fed' /\ cuts' \subseteq Nat /\ cuts \subseteq cuts' /\ \A c \in cuts' : c \in cuts \/ c > fed
    BY <1>2, <1>3
  <2>2. Lost(w)'
    BY <1>1, <1>7, <2>1, LossStays
  <2> QED BY <1>3, <1>6, <2>2 DEF ParserInv
<1>9. ASSUME NEW p \in 0..Len(w.units), Clean(w, p) PROVE ParserInv'
  <2> DEFINE e == Ends(w, p)
  <2>1. e \in Nat /\ e <= fed /\ Len(pbuf) = fed - e /\ \A k \in 1..Len(pbuf) : pbuf[k] = s[e + k]
    BY <1>9, StreamLayout DEF Layout, Clean, Read, s
  <2>2. Read(w, p)'
    <3> HIDE DEF e
    <3>1. Len(pbuf') = Len(pbuf) + n /\ \A k \in 1..(Len(pbuf) + n) : pbuf'[k] = IF k <= Len(pbuf) THEN pbuf[k] ELSE d[k - Len(pbuf)]
      BY <1>5 DEF Joins
    <3>2. e <= fed' /\ Len(pbuf') = fed' - e
      BY <1>2, <1>3, <2>1, <3>1
    <3>3. ASSUME NEW k \in 1..Len(pbuf') PROVE pbuf'[k] = s[e + k]
      <4>1. CASE k <= Len(pbuf)
        BY <1>2, <1>3, <2>1, <3>1, <4>1
      <4>2. CASE ~(k <= Len(pbuf))
        <5>1. k - Len(pbuf) \in 1..n /\ fed + (k - Len(pbuf)) = e + k /\ pbuf'[k] = d[k - Len(pbuf)]
          BY <1>2, <1>3, <2>1, <3>1, <4>2
        <5> QED BY <1>4, <5>1
      <4> QED BY <4>1, <4>2
    <3> QED BY <3>2, <3>3 DEF Read, e, s
  <2>3. Returned(w, p)' /\ (w.protocol = "http2" => (ready <=> p > 0))'
    BY <1>3, <1>9 DEF Clean, Returned
  <2>4. OnlyLastCut(w, p)'
    <3>1. SUFFICES ASSUME w.protocol # "http2", p < Len(w.units), NEW c \in cuts'
                   PROVE  c = fed' \/ c < Ends(w, p + 1)
      BY DEF OnlyLastCut
    <3>2. CASE c \in cuts
      <4>1. fed < Ends(w, p + 1)
        BY <1>3, <1>9, <3>1, WrittenUnits DEF Clean, Waits
      <4>2. Ends(w, p + 1) \in Nat
        BY <3>1, WrittenUnits, UnitBytes
      <4> QED BY <1>2, <3>2, <4>1, <4>2
    <3>3. CASE c = fed + n
      BY <1>3, <3>3
    <3> QED BY <1>3, <3>1, <3>2, <3>3
  <2>5. (~parsing => Waits(w, p))' /\ (parsing => fed \in cuts)'
    BY <1>3
  <2>6. Clean(w, p)'
    BY <2>2, <2>3, <2>4, <2>5 DEF Clean
  <2> QED BY <1>3, <1>6, <2>6 DEF ParserInv
<1> QED BY <1>1, <1>7, <1>9

LEMMA ParserInitInv == ParserInit => ParserInv
<1>1. SUFFICES ASSUME ParserInit PROVE ParserInv
  OBVIOUS
<1>2. PICK w \in Written : writer = w
  BY <1>1 DEF ParserInit
<1>3. Len(Stream(w)) \in Nat /\ Len(w.units) \in Nat /\ Ends(w, 0) = 0 /\ 0 \in 0..Len(w.units)
  BY StreamLayout, LenProperties, WrittenUnits DEF Layout
<1>4. fed = 0 /\ cuts = {} /\ pbuf = <<>> /\ parsed = <<>> /\ ready = FALSE /\ parsing = FALSE /\ Len(pbuf) = 0 /\ Len(parsed) = 0
  BY <1>1 DEF ParserInit
<1>5. ParserShape(w)
  <2>1. pbuf \in Seq(Byte) /\ cuts \subseteq 1..fed /\ fed \in 0..Len(Stream(w))
    BY <1>3, <1>4, EmptySeq
  <2>2. ready \in BOOLEAN /\ parsing \in BOOLEAN
    BY <1>4
  <2>3. Len(pbuf) <= fed /\ Behind(w)
    BY <1>4 DEF Behind
  <2> QED BY <2>1, <2>2, <2>3 DEF ParserShape
<1>6. Read(w, 0)
  BY <1>3, <1>4 DEF Read
<1>7. Returned(w, 0)
  BY <1>3, <1>4, EmptySeq DEF Returned, Skipped
<1>8. Waits(w, 0)
  BY <1>3, <1>4, <1>5, <1>6, ShortWaits, ParserAssumption
<1>9. OnlyLastCut(w, 0)
  BY <1>4 DEF OnlyLastCut
<1>10. Clean(w, 0)
  BY <1>3, <1>4, <1>6, <1>7, <1>8, <1>9 DEF Clean
<1> QED BY <1>2, <1>3, <1>5, <1>10 DEF ParserInv

LEMMA ParserStepInv == ParserInv /\ [ParserNext]_parserVars => ParserInv'
<1>1. SUFFICES ASSUME ParserInv, [ParserNext]_parserVars PROVE ParserInv'
  OBVIOUS
<1>2. CASE ParseStep
  BY <1>1, <1>2, ParseKeepsInv
<1>3. ASSUME NEW n \in 1..Len(Stream(writer)), Feed(n) PROVE ParserInv'
  BY <1>1, <1>3, FeedKeepsInv
<1>4. CASE UNCHANGED parserVars
  <2>1. PICK w \in Written : /\ writer = w /\ ParserShape(w)
                             /\ Lost(w) \/ \E p \in 0..Len(w.units) : Clean(w, p)
    BY <1>1 DEF ParserInv
  <2>2. writer' = w /\ fed' = fed /\ cuts' = cuts /\ pbuf' = pbuf /\ parsed' = parsed /\ ready' = ready /\ parsing' = parsing
    BY <1>4, <2>1 DEF parserVars
  <2>3. ParserShape(w)'
    BY <2>1, <2>2 DEF ParserShape, Behind
  <2>4. Lost(w) => Lost(w)'
    BY <2>2 DEF Lost, Trap, Misread, CutIn
  <2>5. ASSUME NEW p \in 0..Len(w.units), Clean(w, p) PROVE Clean(w, p)'
    BY <2>2, <2>5 DEF Clean, Read, Returned, Waits, OnlyLastCut
  <2> QED BY <2>1, <2>2, <2>3, <2>4, <2>5 DEF ParserInv
<1> QED BY <1>1, <1>2, <1>3, <1>4 DEF ParserNext

LEMMA ParserInvAlways == ParserSpec => []ParserInv
  BY ParserInitInv, ParserStepInv, PTL DEF ParserSpec

(* What follows from it.                                                   *)
LEMMA WholeBehind ==
  ASSUME NEW w \in Written, writer = w, ParserShape(w), NEW p \in 0..Len(w.units), Ends(w, p) <= fed,
         p = Len(w.units) \/ fed < Ends(w, p + 1)
  PROVE  Whole = p
<1>0. Len(w.units) \in Nat /\ fed \in Nat /\ DOMAIN w.units = 1..Len(w.units)
  BY WrittenUnits, StreamLayout, LenProperties DEF Layout, ParserShape
<1>1. ASSUME NEW i \in 1..Len(w.units) PROVE Ends(w, i) <= fed <=> i <= p
  <2>1. Ends(w, i) \in Nat /\ i \in 0..Len(w.units)
    BY UnitBytes
  <2>2. CASE i <= p
    <3>1. Ends(w, i) <= Ends(w, p) /\ Ends(w, p) \in Nat
      BY <2>1, <2>2, UnitsInOrder, StreamLayout DEF Layout
    <3> QED BY <1>0, <2>1, <2>2, <3>1
  <2>3. CASE ~(i <= p)
    <3>1. p + 1 \in 0..Len(w.units) /\ p + 1 <= i /\ fed < Ends(w, p + 1)
      BY <1>0, <2>3
    <3>2. Ends(w, p + 1) <= Ends(w, i) /\ Ends(w, p + 1) \in Nat
      BY <2>1, <3>1, UnitsInOrder, StreamLayout DEF Layout
    <3> QED BY <1>0, <2>1, <2>3, <3>1, <3>2
  <2> QED BY <1>0, <2>2, <2>3
<1>2. {i \in DOMAIN writer.units : Ends(writer, i) <= fed} = 1..p
  BY <1>0, <1>1
<1>3. Cardinality(1..p) = p
  BY <1>0, FS_Interval
<1> QED BY <1>2, <1>3 DEF Whole

LEMMA ExpectedUnits ==
  ASSUME NEW w \in Written, writer = w
  PROVE  /\ Expected \in Seq(Took)
         /\ Len(Expected) = Len(w.units) - Skipped(w, Len(w.units))
         /\ \A k \in 1..Len(Expected) : Expected[k] = TakenAs(w.units[k + Skipped(w, Len(w.units))])
<1> DEFINE n == Len(w.units)
           q == [i \in DOMAIN w.units |-> TakenAs(w.units[i])]
<1>0. n \in Nat /\ DOMAIN w.units = 1..n
  BY WrittenUnits
<1>a. q \in Seq(Took) /\ Len(q) = n /\ \A i \in 1..n : q[i] = TakenAs(w.units[i]) /\ q[i] \in Took
  <2>1. ASSUME NEW i \in 1..n PROVE TakenAs(w.units[i]) \in Took
    BY UnitsHaveRoom DEF UnitRoom, Units, UnitsOf, TakenAs, Took
  <2> HIDE DEF n
  <2> QED BY <1>0, <2>1
<1>b. Expected = IF w.protocol = "http2" THEN SubSeq(q, 2, n) ELSE q
  BY DEF Expected
<1>1. CASE w.protocol = "http2"
  <2>1. n > 0
    <3>1. w.units # <<>> /\ w.units \in Seq(Units(w))
      BY <1>1, ParserAssumption, WrittenUnits
    <3> QED BY <1>0, <3>1, EmptySeq
  <2>5. Skipped(w, n) = 1
    BY <1>0, <1>1, <2>1 DEF Skipped
  <2> HIDE DEF n, q
  <2>2. \A i \in 2..n : q[i] \in Took
    BY <1>0, <1>a
  <2>3. /\ SubSeq(q, 2, n) \in Seq(Took)
        /\ Len(SubSeq(q, 2, n)) = IF 2 <= n THEN n - 2 + 1 ELSE 0
        /\ \A i \in 1..(n - 2 + 1) : SubSeq(q, 2, n)[i] = q[2 + i - 1]
    <3>1. n \in Int /\ 2 \in Int
      BY <1>0
    <3> QED BY <2>2, <3>1, SubSeqProperties
  <2>4. Expected = SubSeq(q, 2, n)
    BY <1>1, <1>b
  <2>6. Len(Expected) = n - 1
    BY <1>0, <2>1, <2>3, <2>4
  <2>7. ASSUME NEW k \in 1..(n - 1) PROVE Expected[k] = TakenAs(w.units[k + 1])
    <3>1. k \in 1..(n - 2 + 1) /\ 2 + k - 1 = k + 1 /\ k + 1 \in 1..n
      BY <1>0
    <3> QED BY <1>a, <2>3, <2>4, <3>1
  <2> QED BY <2>3, <2>4, <2>5, <2>6, <2>7 DEF n
<1>2. CASE w.protocol # "http2"
  <2>1. Expected = q /\ Skipped(w, n) = 0
    BY <1>2, <1>b DEF Skipped
  <2> HIDE DEF n, q
  <2>2. Len(Expected) = n - 0 /\ \A k \in 1..n : k + 0 = k
    BY <1>0, <1>a, <2>1
  <2> QED BY <1>a, <2>1, <2>2 DEF n
<1> QED BY <1>1, <1>2

LEMMA ReturnedIsPrefix ==
  ASSUME NEW w \in Written, writer = w, ParserShape(w), NEW p \in 0..Len(w.units), Clean(w, p)
  PROVE  /\ IsPrefix(parsed, Expected)
         /\ ~parsing /\ fed = Len(Stream(writer)) => parsed = Expected
         /\ ~parsing /\ writer.protocol # "http2" => Len(parsed) = Whole
<1> DEFINE n == Len(w.units)
           s == Skipped(w, n)
<1>0. n \in Nat /\ p \in Nat /\ p <= n /\ s \in {0, 1} /\ (s = 1 => n > 0 /\ w.protocol = "http2") /\ fed \in Nat
  BY WrittenUnits, StreamLayout, LenProperties DEF Layout, ParserShape, Skipped
<1>1. /\ Expected \in Seq(Took) /\ Len(Expected) = n - s
      /\ \A k \in 1..Len(Expected) : Expected[k] = TakenAs(w.units[k + s])
  BY ExpectedUnits
<1>2. /\ parsed \in Seq(Took) /\ Len(parsed) = p - Skipped(w, p)
      /\ \A k \in 1..Len(parsed) : parsed[k] = TakenAs(w.units[k + Skipped(w, p)])
  BY DEF Clean, Returned
<1>3. p > 0 => Skipped(w, p) = s
  BY <1>0 DEF Skipped
<1>4. p = 0 => Skipped(w, p) = 0
  BY DEF Skipped
<1> HIDE DEF n, s
<1>5. Len(parsed) \in Nat /\ Len(parsed) <= Len(Expected) /\ \A k \in 1..Len(parsed) : parsed[k] = Expected[k]
  <2>1. CASE p = 0
    BY <1>0, <1>1, <1>2, <1>4, <2>1
  <2>2. CASE p > 0
    <3>1. Len(parsed) = p - s /\ \A k \in 1..Len(parsed) : parsed[k] = TakenAs(w.units[k + s])
      BY <1>2, <1>3, <2>2
    <3>2. Len(parsed) \in Nat /\ Len(parsed) <= Len(Expected)
      BY <1>0, <1>1, <2>2, <3>1
    <3>3. \A k \in 1..Len(parsed) : k \in 1..Len(Expected)
      BY <1>0, <1>1, <3>1, <3>2
    <3> QED BY <1>1, <3>1, <3>2, <3>3
  <2> QED BY <1>0, <2>1, <2>2
<1>6. IsPrefix(parsed, Expected)
  BY <1>1, <1>2, <1>5 DEF IsPrefix
<1>7. Len(parsed) = Len(Expected) => parsed = Expected
  BY <1>1, <1>2, <1>5, SeqEqual
<1>8. ASSUME ~parsing, fed = Len(Stream(writer)) PROVE parsed = Expected
  <2>1. fed = Ends(w, n) /\ Layout(w) /\ Waits(w, p)
    BY <1>8, StreamLayout DEF Layout, n, Clean
  <2>2. ASSUME p < n PROVE p = 0 /\ n = 1 /\ w.protocol = "http2"
    <3>1. p + 1 \in 0..n /\ p + 1 <= n /\ n \in 0..n /\ p + 1 \in 1..n
      BY <1>0, <2>2
    <3>2. Ends(w, p + 1) <= Ends(w, n) /\ Ends(w, p + 1) \in Nat
      BY <3>1, UnitsInOrder, <2>1 DEF n, Layout
    <3>3. w.protocol = "http2" /\ ~ready /\ fed < 2 * HeadLen
      BY <1>0, <2>1, <2>2, <3>2 DEF Waits, n
    <3>4. p = 0
      BY <1>0, <3>3 DEF Clean
    <3>5. SUFFICES ASSUME n >= 2 PROVE FALSE
      BY <1>0, <2>2, <3>3, <3>4
    <3>6. Ends(w, 0) + HeadLen <= Ends(w, 1) /\ Ends(w, 1) + HeadLen <= Ends(w, n) /\ Ends(w, 0) = 0 /\ Ends(w, 1) \in Nat
      <4>1. 0 \in 0..Len(w.units) /\ 1 \in 0..Len(w.units) /\ n \in 0..Len(w.units) /\ 1 < n
        BY <1>0, <3>5 DEF n
      <4> QED BY <2>1, <4>1, UnitsInOrder DEF Layout
    <3> QED BY <1>0, <2>1, <3>3, <3>6, ParserAssumption
  <2>3. Len(parsed) = Len(Expected)
    <3>1. CASE p < n
      <4>1. s = 1
        BY <2>2, <3>1 DEF s, Skipped
      <4> QED BY <1>0, <1>1, <1>2, <1>4, <2>2, <3>1, <4>1
    <3>2. CASE p = n
      <4>1. Skipped(w, p) = s
        BY <3>2 DEF s
      <4> QED BY <1>1, <1>2, <3>2, <4>1
    <3> QED BY <1>0, <3>1, <3>2
  <2> QED BY <1>7, <2>3
<1>9. ASSUME ~parsing, writer.protocol # "http2" PROVE Len(parsed) = Whole
  <2>1. p = Len(w.units) \/ fed < Ends(w, p + 1)
    BY <1>9 DEF Clean, Waits
  <2>2. Whole = p
    BY <2>1, WholeBehind DEF Clean, Read
  <2>3. Skipped(w, p) = 0
    BY <1>9 DEF Skipped
  <2> QED BY <1>0, <1>2, <2>2, <2>3
<1> QED BY <1>6, <1>8, <1>9

(* What a parser holds is the end of what was fed to it, byte for byte,    *)
(* for every stream and every way to cut it, also past a unit it does not  *)
(* return as it was written: bytes go from the front only (streams.py 161- *)
(* 180, 343-386, 448-474).                                                 *)
THEOREM ParserTypes == ParserSpec => []ParserTypeOK
<1>1. ParserInv => ParserTypeOK
  BY DEF ParserInv, ParserShape, Behind, ParserTypeOK
<1> QED BY <1>1, ParserInvAlways, PTL

(* Wherever the stream is cut, the units written are returned in order and *)
(* each once, and all that came whole once a feed is done, unless a cut or *)
(* a unit is one that Trap names (streams.py 156-474).                     *)
THEOREM SplitsDoNotMatter == ParserSpec => []SplitIrrelevant
<1>1. ParserInv => SplitIrrelevant
  <2>1. SUFFICES ASSUME ParserInv, \A i \in DOMAIN writer.units : ~Trap(writer, i)
                 PROVE  /\ IsPrefix(parsed, Expected)
                        /\ ~parsing /\ fed = Len(Stream(writer)) => parsed = Expected
                        /\ ~parsing /\ writer.protocol # "http2" => Len(parsed) = Whole
    BY DEF SplitIrrelevant
  <2>2. PICK w \in Written : /\ writer = w /\ ParserShape(w)
                             /\ Lost(w) \/ \E p \in 0..Len(w.units) : Clean(w, p)
    BY <2>1 DEF ParserInv
  <2>3. ~Lost(w)
    BY <2>1, <2>2, WrittenUnits DEF Lost
  <2>4. PICK p \in 0..Len(w.units) : Clean(w, p)
    BY <2>2, <2>3
  <2> QED BY <2>2, <2>4, ReturnedIsPrefix
<1> QED BY <1>1, ParserInvAlways, PTL
=============================================================================
