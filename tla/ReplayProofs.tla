---------------------------- MODULE ReplayProofs ----------------------------
(***************************************************************************)
(* The proof of ReplayAsAsked, for any session, request, page size and     *)
(* rows committed meanwhile.  Rows are counted by their rank, the number   *)
(* of rows in front of them in capture order.                              *)
(***************************************************************************)
EXTENDS MC_Control, FiniteSetTheorems, SequenceTheorems, TLAPS

-----------------------------------------------------------------------------
(* Ranks in a finite set of rows.                                           *)

(* Rows with ids of their own, so that (ts, id) orders them totally.        *)
Keyed(T) ==
    /\ \A r \in T : r.id \in Nat /\ r.ts \in Nat
    /\ \A r, s \in T : r.id = s.id => r = s

(* What is before a row of the set, and how many rows that are.             *)
LEMMA RankType ==
    ASSUME NEW T, IsFiniteSet(T), NEW r
    PROVE  /\ IsFiniteSet({x \in T : Before(x, r)})
           /\ Rank(T, r) \in Nat /\ Cardinality(T) \in Nat
           /\ Rank(T, r) <= Cardinality(T)
<1>1. {x \in T : Before(x, r)} \in SUBSET T
  OBVIOUS
<1> QED
  BY <1>1, FS_Subset, FS_CardinalityType DEF Rank

(* Before is a total order on keyed rows.                                   *)
LEMMA BeforeOrder ==
    ASSUME NEW S, Keyed(S), NEW x \in S, NEW y \in S, NEW z \in S
    PROVE  /\ ~Before(x, x)
           /\ Before(x, y) /\ Before(y, z) => Before(x, z)
           /\ x = y \/ Before(x, y) \/ Before(y, x)
           /\ Before(x, y) => ~Before(y, x) /\ x # y
  BY DEF Keyed, Before

(* A row with another of T before it has a higher rank in T.                *)
LEMMA RankGrows ==
    ASSUME NEW S, Keyed(S), NEW T \in SUBSET S, IsFiniteSet(T),
           NEW x \in T, NEW y \in S, Before(x, y)
    PROVE  Rank(T, x) < Rank(T, y)
<1> DEFINE A == {z \in T : Before(z, x)}
           B == {z \in T : Before(z, y)}
<1>1. A \in SUBSET B
  BY BeforeOrder
<1>2. x \in B /\ x \notin A
  BY BeforeOrder
<1>3. IsFiniteSet(A) /\ IsFiniteSet(B) /\ Rank(T, x) = Cardinality(A) /\ Rank(T, y) = Cardinality(B)
  BY RankType DEF Rank
<1> HIDE DEF A, B
<1>4. Cardinality(A) <= Cardinality(B) /\ Cardinality(A) # Cardinality(B)
  BY <1>1, <1>2, <1>3, FS_Subset
<1> QED
  BY <1>3, <1>4, FS_CardinalityType

(* The ranks of keyed rows order them.                                      *)
LEMMA RankOrders ==
    ASSUME NEW T, Keyed(T), IsFiniteSet(T), NEW x \in T, NEW y \in T
    PROVE  /\ Before(x, y) <=> Rank(T, x) < Rank(T, y)
           /\ Rank(T, x) = Rank(T, y) => x = y
           /\ Rank(T, x) \in 0..(Cardinality(T) - 1)
<1>1. Rank(T, x) \in Nat /\ Rank(T, y) \in Nat /\ Rank(T, x) <= Cardinality(T)
  BY RankType
<1>2. Before(x, y) => Rank(T, x) < Rank(T, y)
  BY RankGrows
<1>3. Before(y, x) => Rank(T, y) < Rank(T, x)
  BY RankGrows
<1>4. x = y \/ Before(x, y) \/ Before(y, x)
  BY BeforeOrder
<1>5. Rank(T, x) # Cardinality(T)
  <2> DEFINE A == {z \in T : Before(z, x)}
  <2>1. x \notin A
    BY BeforeOrder
  <2>2. A \in SUBSET T /\ A # T
    BY <2>1
  <2>3. Rank(T, x) = Cardinality(A)
    BY DEF Rank
  <2>4. IsFiniteSet(T) /\ A \in SUBSET T
    BY <2>2
  <2> HIDE DEF A
  <2>5. Cardinality(T) = Cardinality(A) => T = A
    BY <2>4, FS_Subset
  <2> QED
    BY <2>2, <2>3, <2>5
<1>6. Before(x, y) <=> Rank(T, x) < Rank(T, y)
  BY <1>1, <1>2, <1>3, <1>4
<1>7. Rank(T, x) = Rank(T, y) => x = y
  BY <1>1, <1>2, <1>3, <1>4
<1>8. Rank(T, x) \in 0..(Cardinality(T) - 1)
  BY <1>1, <1>5, FS_CardinalityType
<1> QED
  BY <1>6, <1>7, <1>8

(* Each number below the size of the set is the rank of a row.              *)
LEMMA RankReached ==
    ASSUME NEW T, Keyed(T), IsFiniteSet(T), NEW n \in 0..(Cardinality(T) - 1)
    PROVE  \E x \in T : Rank(T, x) = n
<1> DEFINE f == [x \in T |-> Rank(T, x)]
           N == Cardinality(T)
<1>1. f \in [T -> 0..(N - 1)]
  BY RankOrders
<1>2. \A x, y \in T : f[x] = f[y] => x = y
  BY RankOrders
<1>3. N \in Nat
  BY FS_CardinalityType
<1>4. IsFiniteSet(0..(N - 1)) /\ Cardinality(0..(N - 1)) = N
  BY <1>3, FS_Interval
<1>5. f \in Injection(T, 0..(N - 1))
  BY <1>1, <1>2 DEF Injection, IsInjective
<1>6. f \in Surjection(T, 0..(N - 1))
  BY <1>4, <1>5, FS_Injection
<1>7. \A m \in 0..(N - 1) : \E x \in T : f[x] = m
  BY <1>6 DEF Surjection
<1> QED
  BY <1>7

(* Ordered lists the set by rank, starting at rank 0.                       *)
LEMMA OrderedAt ==
    ASSUME NEW T, Keyed(T), IsFiniteSet(T), NEW i \in 1..Cardinality(T)
    PROVE  /\ Ordered(T)[i] \in T /\ Rank(T, Ordered(T)[i]) = i - 1
           /\ \A x \in T : Rank(T, x) = i - 1 => Ordered(T)[i] = x
<1>1. Ordered(T)[i] = CHOOSE x \in T : Rank(T, x) = i - 1
  BY DEF Ordered
<1>2. i - 1 \in 0..(Cardinality(T) - 1)
  BY FS_CardinalityType
<1>3. \E x \in T : Rank(T, x) = i - 1
  BY <1>2, RankReached
<1>4. Ordered(T)[i] \in T /\ Rank(T, Ordered(T)[i]) = i - 1
  BY <1>1, <1>3
<1> QED
  BY <1>4, RankOrders

LEMMA OrderedIsSeq ==
    ASSUME NEW T, Keyed(T), IsFiniteSet(T)
    PROVE  /\ Ordered(T) \in Seq(T)
           /\ Len(Ordered(T)) = Cardinality(T) /\ Cardinality(T) \in Nat
<1>1. Cardinality(T) \in Nat
  BY FS_CardinalityType
<1>2. \A i \in 1..Cardinality(T) : Ordered(T)[i] \in T
  BY OrderedAt
<1>3. Ordered(T) = [i \in 1..Cardinality(T) |-> Ordered(T)[i]]
  BY DEF Ordered
<1> QED
  BY <1>1, <1>2, <1>3

(* The row of rank n in T comes at place n + 1.                             *)
LEMMA OrderedPlace ==
    ASSUME NEW T, Keyed(T), IsFiniteSet(T), NEW x \in T
    PROVE  /\ Rank(T, x) + 1 \in 1..Cardinality(T)
           /\ Ordered(T)[Rank(T, x) + 1] = x
<1>1. Rank(T, x) \in 0..(Cardinality(T) - 1) /\ Cardinality(T) \in Nat
  BY RankOrders, FS_CardinalityType
<1>2. Rank(T, x) + 1 \in 1..Cardinality(T) /\ (Rank(T, x) + 1) - 1 = Rank(T, x)
  BY <1>1
<1> QED
  BY <1>2, OrderedAt

(* Behind a row of the set: how many there are, and their ranks among       *)
(* themselves.                                                              *)
LEMMA RankBehind ==
    ASSUME NEW S, Keyed(S), IsFiniteSet(S), NEW k \in S
    PROVE  LET T == {x \in S : Before(k, x)}
           IN  /\ Cardinality(T) = Cardinality(S) - Rank(S, k) - 1
               /\ \A x \in T : Rank(T, x) = Rank(S, x) - Rank(S, k) - 1
<1> DEFINE T == {x \in S : Before(k, x)}
           U == {x \in S : Before(x, k)}
<1>1. IsFiniteSet(U) /\ IsFiniteSet(T)
  <2>1. T \in SUBSET S /\ U \in SUBSET S
    OBVIOUS
  <2> QED
    BY <2>1, FS_Subset
<1>2. IsFiniteSet(U \cup {k}) /\ Cardinality(U \cup {k}) = Rank(S, k) + 1 /\ Rank(S, k) \in Nat
  <2>1. k \notin U
    BY BeforeOrder
  <2> QED
    BY <1>1, <2>1, FS_AddElement, FS_CardinalityType DEF Rank
<1>3. ASSUME NEW V, V \in SUBSET T
      PROVE  /\ IsFiniteSet(V) /\ IsFiniteSet((U \cup {k}) \cup V)
             /\ Cardinality((U \cup {k}) \cup V) = Cardinality(V) + Rank(S, k) + 1
             /\ Cardinality(V) \in Nat
  <2>1. IsFiniteSet(V)
    BY <1>1, <1>3, FS_Subset
  <2>2. (U \cup {k}) \cap V = {}
    BY <1>3, BeforeOrder
  <2>3. /\ IsFiniteSet((U \cup {k}) \cup V)
        /\ Cardinality((U \cup {k}) \cup V)
             = Cardinality(U \cup {k}) + Cardinality(V) - Cardinality((U \cup {k}) \cap V)
    BY <1>2, <2>1, FS_Union
  <2>4. Cardinality((U \cup {k}) \cap V) = 0
    BY <2>2, FS_EmptySet
  <2>5. Cardinality(V) \in Nat
    BY <2>1, FS_CardinalityType
  <2> HIDE DEF T, U
  <2> QED
    BY <1>2, <2>1, <2>3, <2>4, <2>5
<1>4. S = (U \cup {k}) \cup T
  BY BeforeOrder
<1>5. Cardinality(S) = Cardinality(T) + Rank(S, k) + 1 /\ Cardinality(T) \in Nat
  BY <1>3, <1>4
<1>6. ASSUME NEW x \in T
      PROVE  Rank(S, x) = Rank(T, x) + Rank(S, k) + 1 /\ Rank(T, x) \in Nat
  <2> DEFINE V == {y \in T : Before(y, x)}
  <2>1. V \in SUBSET T
    OBVIOUS
  <2>2. {y \in S : Before(y, x)} = (U \cup {k}) \cup V
    BY <1>6, BeforeOrder
  <2>3. Rank(T, x) = Cardinality(V) /\ Rank(S, x) = Cardinality((U \cup {k}) \cup V)
    BY <2>2 DEF Rank
  <2> HIDE DEF V
  <2> QED
    BY <1>3, <2>1, <2>3
<1> HIDE DEF T, U
<1>7. Cardinality(T) = Cardinality(S) - Rank(S, k) - 1
  BY <1>2, <1>5
<1>8. \A x \in T : Rank(T, x) = Rank(S, x) - Rank(S, k) - 1
  BY <1>2, <1>6
<1> QED
  BY <1>7, <1>8 DEF T

-----------------------------------------------------------------------------
(* The rows of a session.                                                   *)

All == ToSet(rows)

(* How many rows of a set are among the first n of a session.               *)
Below(S, T, n) == {x \in T : Rank(S, x) < n}
CountBelow(S, T, n) == Cardinality(Below(S, T, n))

(* Rows are stored with their place as id.                                  *)
RowsInv ==
    /\ rows \in Seq(All)
    /\ \A i \in DOMAIN rows : IsRow(rows[i]) /\ rows[i].id = i

LEMMA RowsKeyed ==
    ASSUME RowsInv
    PROVE  /\ Keyed(All) /\ IsFiniteSet(All) /\ Cardinality(All) = Len(rows) /\ Len(rows) \in Nat
           /\ None \notin All
           /\ \A r \in All : r.ts \in Nat /\ r.length \in Nat
<1>1. Len(rows) \in Nat /\ DOMAIN rows = 1..Len(rows) /\ All = {rows[i] : i \in 1..Len(rows)}
  BY DEF RowsInv, All, ToSet
<1>2. \A i \in 1..Len(rows) : /\ rows[i] # None /\ rows[i].id = i
                            /\ rows[i].ts \in Nat /\ rows[i].length \in Nat
  BY <1>1 DEF RowsInv, IsRow
<1>3. Keyed(All)
  BY <1>1, <1>2 DEF Keyed
<1> DEFINE f == [i \in 1..Len(rows) |-> rows[i]]
<1>4. f \in Injection(1..Len(rows), All) /\ f \in Surjection(1..Len(rows), All)
  BY <1>1, <1>2 DEF Injection, Surjection, IsInjective
<1>5. f \in Bijection(1..Len(rows), All)
  BY <1>4 DEF Bijection
<1>6. IsFiniteSet(1..Len(rows)) /\ Cardinality(1..Len(rows)) = Len(rows)
  <2>1. \A n \in Nat : IsFiniteSet(1..n) /\ Cardinality(1..n) = n
    BY FS_Interval
  <2> QED
    BY <1>1, <2>1
<1> HIDE DEF f
<1>7. IsFiniteSet(All) /\ Cardinality(All) = Len(rows)
  BY <1>5, <1>6, FS_Bijection DEF ExistsBijection
<1> QED
  BY <1>1, <1>2, <1>3, <1>7

(* A set of rows of the session is keyed and finite too.                    *)
LEMMA PartKeyed ==
    ASSUME RowsInv, NEW T \in SUBSET All
    PROVE  Keyed(T) /\ IsFiniteSet(T) /\ Cardinality(T) \in Nat
<1>1. Keyed(T)
  BY RowsKeyed DEF Keyed
<1> QED
  BY <1>1, RowsKeyed, FS_Subset, FS_CardinalityType

LEMMA CountBelowType ==
    ASSUME RowsInv, NEW T \in SUBSET All, NEW n \in Nat
    PROVE  /\ IsFiniteSet(Below(All, T, n)) /\ CountBelow(All, T, n) \in Nat
           /\ CountBelow(All, T, n) <= Cardinality(T)
           /\ CountBelow(All, T, 0) = 0
           /\ n = Len(rows) => CountBelow(All, T, n) = Cardinality(T)
<1>1. Below(All, T, n) \in SUBSET T
  BY DEF Below
<1>2. \A x \in T : Rank(All, x) \in Nat /\ Rank(All, x) < Len(rows)
  BY RowsKeyed, RankOrders
<1>3. Below(All, T, 0) = {}
  BY <1>2 DEF Below
<1>4. n = Len(rows) => Below(All, T, n) = T
  BY <1>2 DEF Below
<1> QED
  BY <1>1, <1>3, <1>4, PartKeyed, FS_Subset, FS_CardinalityType, FS_EmptySet DEF CountBelow

(* The next row adds one to the sets it is in, and its rank in such a set   *)
(* is the number of those before.                                           *)
LEMMA CountNext ==
    ASSUME RowsInv, NEW T \in SUBSET All, NEW n \in Nat, NEW r \in All, Rank(All, r) = n
    PROVE  /\ r \in T => CountBelow(All, T, n + 1) = CountBelow(All, T, n) + 1
           /\ r \notin T => CountBelow(All, T, n + 1) = CountBelow(All, T, n)
           /\ Rank(T, r) = CountBelow(All, T, n)
<1>1. ASSUME NEW x \in All
      PROVE  /\ Rank(All, x) \in Nat
             /\ Before(x, r) <=> Rank(All, x) < n
             /\ Rank(All, x) < n + 1 <=> (Rank(All, x) < n \/ x = r)
  <2>1. Rank(All, x) \in 0..(Cardinality(All) - 1)
    BY RowsKeyed, RankOrders
  <2>2. Before(x, r) <=> Rank(All, x) < Rank(All, r)
    BY RowsKeyed, RankOrders
  <2>3. Rank(All, x) = Rank(All, r) => x = r
    BY RowsKeyed, RankOrders
  <2>4. Rank(All, x) < n + 1 <=> (Rank(All, x) < n \/ x = r)
    BY <2>1, <2>3
  <2> QED
    BY <2>1, <2>2, <2>4
<1>3. {x \in T : Before(x, r)} = Below(All, T, n)
  BY <1>1 DEF Below
<1>4. r \in T => Below(All, T, n + 1) = Below(All, T, n) \cup {r}
  BY <1>1 DEF Below
<1>5. r \notin T => Below(All, T, n + 1) = Below(All, T, n)
  BY <1>1 DEF Below
<1>6. r \notin Below(All, T, n)
  BY DEF Below
<1>7. IsFiniteSet(Below(All, T, n))
  BY CountBelowType
<1> QED
  BY <1>3, <1>4, <1>5, <1>6, <1>7, FS_AddElement DEF CountBelow, Rank

(* If that row is in the set, Ordered lists it next.                        *)
LEMMA OrderedNext ==
    ASSUME RowsInv, NEW T \in SUBSET All, NEW n \in Nat, NEW r \in T, Rank(All, r) = n
    PROVE  /\ CountBelow(All, T, n) + 1 \in 1..Cardinality(T)
           /\ Ordered(T)[CountBelow(All, T, n) + 1] = r
<1>1. Rank(T, r) = CountBelow(All, T, n)
  BY CountNext
<1> QED
  BY <1>1, PartKeyed, OrderedPlace

(* The page behind the first n rows.                                        *)
LEMMA PageBehind ==
    ASSUME RowsInv, NEW k \in All \cup {None}
    PROVE  /\ NextPage(k) \in Seq(All)
           /\ \A i \in DOMAIN NextPage(k) : k # None => Before(k, NextPage(k)[i])
           /\ \A i, j \in DOMAIN NextPage(k) : i < j => Before(NextPage(k)[i], NextPage(k)[j])
           /\ \A n \in Nat : (IF k = None THEN n = 0 ELSE Rank(All, k) = n - 1) =>
                /\ n + Len(NextPage(k)) <= Len(rows)
                /\ NextPage(k) = <<>> => n = Len(rows)
                /\ \A i \in DOMAIN NextPage(k) : Rank(All, NextPage(k)[i]) = n + i - 1
<1> DEFINE T == {r \in All : After(k, r)}
           left == Ordered(T)
           p == NextPage(k)
           m == AtMost(PageSize, Len(left))
<1>1. T \in SUBSET All /\ Keyed(T) /\ IsFiniteSet(T) /\ Cardinality(T) \in Nat
  <2>1. T \in SUBSET All
    OBVIOUS
  <2> QED
    BY <2>1, PartKeyed
<1>2. left \in Seq(T) /\ Len(left) = Cardinality(T)
  BY <1>1, OrderedIsSeq
<1>3. m \in Nat /\ m <= Len(left) /\ (m = 0 => Len(left) = 0)
  BY <1>1, <1>2, OutAssumption DEF AtMost
<1>4. p = SubSeq(left, 1, m)
  BY DEF NextPage, All
<1> HIDE DEF T, left, p, m
<1>5. /\ p \in Seq(T) /\ Len(p) = m /\ DOMAIN p = 1..m
      /\ \A i \in 1..m : p[i] = left[i]
  BY <1>2, <1>3, <1>4
<1>6. \A i \in 1..m : p[i] \in T /\ Rank(T, p[i]) = i - 1
  <2>1. ASSUME NEW i \in 1..m PROVE p[i] \in T /\ Rank(T, p[i]) = i - 1
    <3>1. i \in 1..Cardinality(T)
      BY <1>2, <1>3
    <3> QED
      BY <1>1, <1>5, <3>1, OrderedAt DEF left
  <2> QED
    BY <2>1
<1>7. p \in Seq(All)
  BY <1>1, <1>5
<1>8. ASSUME NEW i \in DOMAIN p, k # None PROVE Before(k, p[i])
  BY <1>5, <1>6, <1>8 DEF T, After
<1>9. ASSUME NEW i \in DOMAIN p, NEW j \in DOMAIN p, i < j PROVE Before(p[i], p[j])
  <2>1. /\ p[i] \in T /\ p[j] \in T
        /\ Rank(T, p[i]) = i - 1 /\ Rank(T, p[j]) = j - 1 /\ i \in Nat /\ j \in Nat
    BY <1>3, <1>5, <1>6
  <2>2. Rank(T, p[i]) < Rank(T, p[j])
    BY <1>9, <2>1
  <2> QED
    BY <1>1, <2>1, <2>2, RankOrders
<1>10. ASSUME NEW n \in Nat, IF k = None THEN n = 0 ELSE Rank(All, k) = n - 1
       PROVE  /\ Cardinality(T) = Len(rows) - n
              /\ \A x \in T : Rank(T, x) = Rank(All, x) - n /\ Rank(All, x) \in Nat
  <2>1. \A x \in T : Rank(All, x) \in Nat
    BY <1>1, RowsKeyed, RankType
  <2>2. CASE k = None
    <3>1. T = All
      BY <2>2 DEF T, After
    <3> QED
      BY <1>10, <2>1, <2>2, <3>1, RowsKeyed
  <2>3. CASE k # None
    <3>1. k \in All /\ T = {x \in All : Before(k, x)}
      BY <2>3 DEF T, After
    <3>2. /\ Cardinality(T) = Cardinality(All) - Rank(All, k) - 1
          /\ \A x \in T : Rank(T, x) = Rank(All, x) - Rank(All, k) - 1
      BY <3>1, RowsKeyed, RankBehind
    <3> QED
      BY <1>10, <2>1, <2>3, <3>2, RowsKeyed
  <2> QED
    BY <2>2, <2>3
<1>11. ASSUME NEW n \in Nat, IF k = None THEN n = 0 ELSE Rank(All, k) = n - 1
       PROVE  /\ n + Len(p) <= Len(rows)
              /\ p = <<>> => n = Len(rows)
              /\ \A i \in DOMAIN p : Rank(All, p[i]) = n + i - 1
  <2>1. /\ Cardinality(T) = Len(rows) - n
        /\ \A x \in T : Rank(T, x) = Rank(All, x) - n /\ Rank(All, x) \in Nat
    BY <1>10, <1>11
  <2>2. n + Len(p) <= Len(rows)
    BY <1>2, <1>3, <1>5, <2>1, RowsKeyed
  <2>3. p = <<>> => n = Len(rows)
    BY <1>2, <1>3, <1>5, <2>1, RowsKeyed
  <2>4. ASSUME NEW i \in DOMAIN p PROVE Rank(All, p[i]) = n + i - 1
    <3>1. i \in Nat /\ p[i] \in T /\ Rank(T, p[i]) = i - 1
      BY <1>3, <1>5, <1>6
    <3> QED
      BY <2>1, <3>1
  <2> QED
    BY <2>2, <2>3, <2>4
<1> QED
  BY <1>7, <1>8, <1>9, <1>11 DEF p

-----------------------------------------------------------------------------
(* The inductive invariant.                                                 *)

Looked == status.packets + status.skipped + status.failed

OptsInv ==
    /\ opts.mode \in {"story", "faithful"} /\ opts.speed \in Nat \ {0}
    /\ opts.maxGap \in Nat /\ opts.offset \in Nat /\ opts.limit \in Nat \cup {None}

Sendable == [row : All, frame : {Prepare(r.frame) : r \in All}]

ReplayTyped ==
    /\ RowsInv /\ OptsInv /\ ReplayTypeOK
    /\ wire \in Seq(Sendable) /\ waits \in Seq(Nat)
    /\ prev \in Nat \cup {None}
    /\ pc \in {"asleep", "prepare"} => page # <<>>
    /\ ~Alive => published = status
    /\ SentFramesValid

(* What is on the wire, what is in the page and what is still in the file   *)
(* follow each other in capture order, whatever is committed meanwhile.     *)
PagesInv ==
    /\ \A i, j \in DOMAIN page : i < j => Before(page[i], page[j])
    /\ \A i \in DOMAIN wire, j \in DOMAIN page : Before(wire[i].row, page[j])
    /\ WireInOrder
    /\ key = None => wire = <<>> /\ page = <<>>
    /\ key # None => \A i \in DOMAIN wire : ~Before(key, wire[i].row)
    /\ page # <<>> => key = page[Len(page)]

(* In a session that does not grow the page holds the rows behind those     *)
(* looked at, and the offset has let through what it should.                *)
PlanInv ==
    /\ \A i \in DOMAIN page : Rank(All, page[i]) = Looked + i - 1
    /\ Looked + Len(page) <= Len(rows)
    /\ key = None => Looked + Len(page) = 0
    /\ key # None => Rank(All, key) = Looked + Len(page) - 1
    /\ sent <= Looked /\ (sent < opts.offset => sent = Looked)
    /\ pc \in {"asleep", "prepare"} => page[1] \in Selected /\ ~LimitReached

(* The packets counted are the rows to be sent among those looked at.       *)
ProgressInv ==
    /\ status.packets = CountBelow(All, Chosen, Looked)
    /\ opts.limit # None => status.packets <= opts.limit
    /\ ~opts.dryRun =>
         /\ Len(wire) = status.packets
         /\ \A i \in DOMAIN wire : wire[i] = [row |-> Ordered(Chosen)[i],
                                          frame |-> Prepare(Ordered(Chosen)[i].frame)]
    /\ pc \in {"finish", "dead"} /\ ~status.stopped /\ ~status.error =>
         LimitReached \/ Looked = Len(rows)

(* The waits so far are those in front of the first selected rows.          *)
PaceInv ==
    /\ prev = IF waits = <<>> THEN None ELSE Ordered(Selected)[Len(waits)].ts
    /\ Len(waits) <= Cardinality(Selected)
    /\ pc = "next" => Len(waits) = CountBelow(All, Selected, Looked)
    /\ pc \in {"asleep", "prepare"} => Len(waits) = CountBelow(All, Selected, Looked) + 1
    /\ PaceMatchesSchedule

ReplayInv ==
    /\ ReplayTyped /\ PagesInv
    /\ ~grew => PlanInv /\ ProgressInv /\ PaceInv

-----------------------------------------------------------------------------
(* Steps that leave the session and the request as they are.                *)

LEMMA SameSession ==
    ASSUME rows' = rows, opts' = opts
    PROVE  /\ All' = All /\ (RowsInv => RowsInv') /\ (OptsInv => OptsInv')
           /\ \A f : Prepare(f)' = Prepare(f)
           /\ Sendable' = Sendable
           /\ Selected' = Selected /\ Chosen' = Chosen
<1>1. All' = All /\ (RowsInv => RowsInv') /\ (OptsInv => OptsInv')
  BY DEF All, RowsInv, OptsInv
<1>2. \A f : Transformed(f)' = Transformed(f)
  BY DEF Transformed
<1>3. \A f : Prepare(f)' = Prepare(f)
  BY <1>2 DEF Prepare
<1>4. Sendable' = Sendable
  BY <1>1, <1>3 DEF Sendable
<1>5. Selected' = Selected
  BY DEF Selected, Behind
<1>6. Chosen' = Chosen
  BY <1>3, <1>5 DEF Chosen
<1> QED
  BY <1>1, <1>3, <1>4, <1>5, <1>6

Status == [packets : Nat, skipped : Nat, failed : Nat, bytes : Nat,
           stopped : BOOLEAN, error : BOOLEAN]

LEMMA StatusType ==
    ASSUME status \in Status, NEW n \in Nat
    PROVE  /\ [status EXCEPT !.skipped = @ + 1] \in Status
           /\ [status EXCEPT !.failed = @ + 1] \in Status
           /\ [status EXCEPT !.packets = @ + 1, !.bytes = @ + n] \in Status
<1>1. [status EXCEPT !.skipped = @ + 1] \in Status /\ [status EXCEPT !.failed = @ + 1] \in Status
  BY DEF Status
<1> DEFINE s == [status EXCEPT !.packets = @ + 1]
<1>2. s \in Status
  BY DEF Status
<1> HIDE DEF s
<1>3. [s EXCEPT !.bytes = s.bytes + n] \in Status
  BY <1>2 DEF Status
<1>4. [status EXCEPT !.packets = @ + 1, !.bytes = @ + n] = [s EXCEPT !.bytes = s.bytes + n]
  BY DEF Status, s
<1> QED
  BY <1>1, <1>3, <1>4

(* The first row of a page, and the page without it.                        *)
LEMMA PageTail ==
    ASSUME page \in Seq(All), page # <<>>
    PROVE  /\ Len(page) \in Nat \ {0} /\ DOMAIN page = 1..Len(page)
           /\ Row = page[1] /\ Row \in All
           /\ Tail(page) \in Seq(All) /\ Len(Tail(page)) = Len(page) - 1
           /\ DOMAIN Tail(page) = 1..(Len(page) - 1)
           /\ \A i \in 1..(Len(page) - 1) : Tail(page)[i] = page[i + 1]
  BY DEF Row

LEMMA ScaleType ==
    ASSUME NEW s \in Nat \ {0}, NEW x \in Nat
    PROVE  Scale(s, x) \in Nat
  BY DEF Scale

LEMMA RunGapType ==
    ASSUME ReplayTyped, page # <<>>
    PROVE  RunGap(Row) \in Nat /\ Row.ts \in Nat
<1>1. Row \in All /\ RowsInv
  BY PageTail DEF ReplayTyped, ReplayTypeOK, All
<1>2. Row.ts \in Nat
  BY <1>1, RowsKeyed
<1>3. prev # None => PositiveGap(prev, Row.ts) \in Nat
  BY <1>2 DEF ReplayTyped, PositiveGap
<1>4. prev # None => Scale(opts.speed, PositiveGap(prev, Row.ts)) \in Nat
  BY <1>3, ScaleType DEF ReplayTyped, OptsInv
<1> QED
  BY <1>2, <1>4 DEF RunGap, AtMost, ReplayTyped, OptsInv

LEMMA SelectedRows ==
    /\ Selected \in SUBSET All /\ Chosen \in SUBSET All /\ Chosen \in SUBSET Selected
    /\ \A r \in All : r \in Selected <=> Rank(All, r) >= opts.offset /\ Matches(opts.selection, r)
    /\ \A r \in All : r \in Chosen <=> r \in Selected /\ Prepare(r.frame) # None
  BY DEF Selected, Chosen, Behind, All

(* One more row, with an id of its own.                                     *)
LEMMA SessionGrows ==
    ASSUME RowsInv, opts' = opts, CaptureCommits
    PROVE  RowsInv' /\ All \in SUBSET All' /\ Sendable \in SUBSET Sendable'
<1>1. PICK late \in LateRows : rows' = Append(rows, [late EXCEPT !.id = Len(rows) + 1])
  BY DEF CaptureCommits
<1> DEFINE r == [late EXCEPT !.id = Len(rows) + 1]
<1>2. Len(rows) \in Nat /\ Len(rows) + 1 \in 1..MaxRows
  BY OutAssumption DEF CaptureCommits, RowsInv
<1>3. IsRow(r) /\ r.id = Len(rows) + 1
  <2>1. IsRow(r) /\ IsRow(late)
    BY <1>2, OutAssumption
  <2> QED
    BY <2>1 DEF IsRow
<1> HIDE DEF r
<1>4. /\ rows' = Append(rows, r) /\ Len(rows') = Len(rows) + 1 /\ DOMAIN rows' = 1..(Len(rows) + 1)
      /\ DOMAIN rows = 1..Len(rows)
      /\ \A i \in 1..Len(rows) : rows'[i] = rows[i]
      /\ rows'[Len(rows) + 1] = r
  BY <1>1 DEF RowsInv, r
<1>5. All \in SUBSET All'
  BY <1>4 DEF All, ToSet
<1>6. rows' \in Seq(All')
  <2>1. rows \in Seq(All')
    BY <1>5 DEF RowsInv
  <2>2. r \in All'
    BY <1>2, <1>4 DEF All, ToSet
  <2> QED
    BY <1>4, <2>1, <2>2
<1>7. \A i \in DOMAIN rows' : IsRow(rows'[i]) /\ rows'[i].id = i
  BY <1>2, <1>3, <1>4 DEF RowsInv
<1>8. RowsInv'
  BY <1>6, <1>7 DEF RowsInv, All, IsRow
<1>9. \A f : Prepare(f)' = Prepare(f)
  BY DEF Prepare, Transformed
<1>10. Sendable \in SUBSET Sendable'
  BY <1>5, <1>9 DEF Sendable
<1> QED
  BY <1>5, <1>8, <1>10

-----------------------------------------------------------------------------
(* Each step keeps the types.                                               *)

LEMMA ReplayTypeStep ==
    ASSUME ReplayInv, ReplayNext
    PROVE  ReplayTyped'
<1> USE DEF Alive
<1>t. /\ ReplayTyped /\ RowsInv /\ OptsInv /\ page \in Seq(All) /\ key \in All \cup {None}
      /\ wire \in Seq(Sendable) /\ waits \in Seq(Nat)
  BY DEF ReplayInv, ReplayTyped, ReplayTypeOK, All
<1>a. ReplayTypeOK' <=>
        /\ page' \in Seq(All') /\ key' \in All' \cup {None}
        /\ pc' \in {"idle", "next", "asleep", "prepare", "finish", "dead"}
        /\ status' \in [packets : Nat, skipped : Nat, failed : Nat, bytes : Nat,
                        stopped : BOOLEAN, error : BOOLEAN]
        /\ caller' \in {"idle", "joining", "joined", "timedout"}
        /\ sent' \in Nat /\ gap' \in Nat /\ starts' \in 0..MaxStarts
        /\ {stopFlag', grew', owed'} \subseteq BOOLEAN
  BY DEF ReplayTypeOK, All
<1>s. ASSUME UNCHANGED <<rows, opts>>
      PROVE  RowsInv' /\ OptsInv' /\ All' = All /\ Sendable' = Sendable
             /\ \A f : Prepare(f)' = Prepare(f)
  BY <1>t, <1>s, SameSession
<1>v. ASSUME UNCHANGED <<opts, wire>>
      PROVE  SentFramesValid'
  BY <1>t, <1>v DEF SentFramesValid, ReplayTyped
<1>1. CASE Start
  <2>1. /\ page' \in Seq(All) /\ key' = None /\ pc' = "next" /\ sent' = 0 /\ gap' = 0
        /\ prev' = None /\ wire' \in Seq(Sendable) /\ waits' \in Seq(Nat)
        /\ caller' = caller /\ stopFlag' = stopFlag /\ grew' = FALSE /\ owed' = FALSE
    BY <1>1, ElementOfSeq, EmptySeq DEF Start
  <2>2. status' \in [packets : Nat, skipped : Nat, failed : Nat, bytes : Nat,
                    stopped : BOOLEAN, error : BOOLEAN]
    BY <1>1 DEF Start, NewStatus
  <2>3. starts' \in 0..MaxStarts
    BY <1>1, <1>t, OutAssumption DEF Start, ReplayTyped, ReplayTypeOK
  <2>4. SentFramesValid'
    BY <1>1 DEF Start, SentFramesValid
  <2>5. UNCHANGED <<rows, opts>>
    BY <1>1 DEF Start
  <2>6. ReplayTypeOK'
    BY <1>t, <1>a, <1>s, <2>1, <2>2, <2>3, <2>5 DEF ReplayTyped, ReplayTypeOK
  <2> QED
    BY <1>s, <2>1, <2>4, <2>5, <2>6 DEF ReplayTyped
<1>2. CASE FetchPage
  <2>1. NextPage(key) \in Seq(All)
    BY <1>t, PageBehind
  <2>2. NextPage(key) # <<>> => Last(NextPage(key)) \in All
    BY <2>1 DEF Last
  <2> QED
    BY <1>2, <1>t, <1>a, <1>s, <1>v, <2>1, <2>2
       DEF FetchPage, ReplayTyped, ReplayTypeOK
<1>3. CASE StopSeen
  BY <1>3, <1>t, <1>a, <1>s, <1>v DEF StopSeen, ReplayTyped, ReplayTypeOK
<1>4. CASE StopAtLimit
  BY <1>4, <1>t, <1>a, <1>s, <1>v DEF StopAtLimit, ReplayTyped, ReplayTypeOK
<1>5. CASE SkipRow
  <2>1. page' \in Seq(All)
    BY <1>5, <1>t, PageTail DEF SkipRow
  <2>2. status' \in Status
    <3>1. status' = [status EXCEPT !.skipped = @ + 1]
      BY <1>5 DEF SkipRow
    <3>2. status \in Status
      BY <1>t DEF Status, ReplayTyped, ReplayTypeOK
    <3> QED
      BY <3>1, <3>2, StatusType
  <2>3. sent' \in Nat
    BY <1>5, <1>t DEF SkipRow, ReplayTyped, ReplayTypeOK
  <2>4. /\ pc' = "next" /\ pc = "next"
        /\ UNCHANGED <<rows, opts, key, prev, gap, published, stopFlag, caller, starts, wire, waits, grew, owed>>
    BY <1>5 DEF SkipRow
  <2>5. ReplayTypeOK'
    BY <1>t, <1>a, <1>s, <2>1, <2>2, <2>3, <2>4 DEF ReplayTyped, ReplayTypeOK, Status
  <2> QED
    BY <1>t, <1>s, <1>v, <2>4, <2>5 DEF ReplayTyped
<1>6. CASE PaceRow
  <2>1. RunGap(Row) \in Nat /\ Row.ts \in Nat
    BY <1>6, <1>t, RunGapType DEF PaceRow
  <2> QED
    BY <1>6, <1>t, <1>a, <1>s, <1>v, <2>1 DEF PaceRow, ReplayTyped, ReplayTypeOK
<1>7. CASE Wake
  <2>1. status' \in [packets : Nat, skipped : Nat, failed : Nat, bytes : Nat,
                    stopped : BOOLEAN, error : BOOLEAN]
    <3>1. stopFlag \in BOOLEAN
      BY <1>t DEF ReplayTyped, ReplayTypeOK
    <3> QED
      BY <1>7, <1>t, <3>1 DEF Wake, ReplayTyped, ReplayTypeOK
  <2>2. /\ pc' \in {"finish", "prepare"} /\ pc = "asleep" /\ gap' = 0 /\ page' = page
        /\ UNCHANGED <<rows, opts, page, key, prev, sent, published, stopFlag, caller, starts, wire, waits,
                      grew, owed>>
    BY <1>7 DEF Wake, AfterSleep
  <2>3. ReplayTypeOK'
    BY <1>t, <1>a, <1>s, <2>1, <2>2 DEF ReplayTyped, ReplayTypeOK
  <2>4. page' # <<>> /\ Alive'
    BY <1>t, <2>2 DEF ReplayTyped
  <2>5. RowsInv' /\ OptsInv' /\ SentFramesValid' /\ wire' \in Seq(Sendable')
    BY <1>t, <1>s, <1>v, <2>2
  <2>6. prev' \in Nat \cup {None} /\ waits' \in Seq(Nat)
    BY <1>t, <2>2 DEF ReplayTyped
  <2> QED
    BY <2>3, <2>4, <2>5, <2>6 DEF ReplayTyped
<1>8. CASE FailRow
  <2>1. page' \in Seq(All)
    BY <1>8, <1>t, PageTail DEF FailRow, ReplayTyped
  <2>2. status' \in Status
    <3>1. status' = [status EXCEPT !.failed = @ + 1]
      BY <1>8 DEF FailRow
    <3>2. status \in Status
      BY <1>t DEF Status, ReplayTyped, ReplayTypeOK
    <3> QED
      BY <3>1, <3>2, StatusType
  <2>3. /\ pc' = "next" /\ pc = "prepare"
        /\ UNCHANGED <<rows, opts, key, prev, sent, gap, published, stopFlag, caller, starts, wire, waits, grew, owed>>
    BY <1>8 DEF FailRow
  <2>4. ReplayTypeOK'
    BY <1>t, <1>a, <1>s, <2>1, <2>2, <2>3 DEF ReplayTyped, ReplayTypeOK, Status
  <2> QED
    BY <1>t, <1>s, <1>v, <2>3, <2>4 DEF ReplayTyped
<1>9. CASE SendRow
  <2>1. page # <<>> /\ Row \in All /\ Tail(page) \in Seq(All) /\ Row.length \in Nat
    BY <1>9, <1>t, PageTail, RowsKeyed DEF SendRow, ReplayTyped
  <2> DEFINE e == [row |-> Row, frame |-> Prepare(Row.frame)]
  <2>2. e \in Sendable /\ Append(wire, e) \in Seq(Sendable)
    BY <1>t, <2>1 DEF Sendable
  <2>3. opts.validate => FrameValid(e.frame)
    BY <1>9 DEF SendRow, Prepare
  <2>4. wire' = wire \/ wire' = Append(wire, e)
    BY <1>9 DEF SendRow
  <2> HIDE DEF e
  <2>5. wire' \in Seq(Sendable)
    BY <1>t, <2>2, <2>4, Zenon
  <2>6. \A i \in DOMAIN wire' : wire'[i] = e \/ (i \in DOMAIN wire /\ wire'[i] = wire[i])
    BY <1>t, <2>2, <2>4
  <2>7. SentFramesValid'
    BY <1>9, <1>t, <2>3, <2>6 DEF SentFramesValid, ReplayTyped, SendRow
  <2> QED
    <3>1. status' \in Status
      <4>1. status' = [status EXCEPT !.packets = @ + 1, !.bytes = @ + Row.length]
        BY <1>9 DEF SendRow
      <4>2. status \in Status
        BY <1>t DEF Status, ReplayTyped, ReplayTypeOK
      <4> QED
        BY <2>1, <4>1, <4>2, StatusType
    <3>2. /\ page' = Tail(page) /\ pc' = "next" /\ pc = "prepare" /\ sent' = sent + 1 /\ owed' = FALSE
          /\ UNCHANGED <<rows, opts, key, prev, gap, stopFlag, caller, starts, waits, grew>>
      BY <1>9 DEF SendRow
    <3>6. sent \in Nat /\ stopFlag \in BOOLEAN /\ grew \in BOOLEAN
      BY <1>t DEF ReplayTyped, ReplayTypeOK
    <3>7. sent' \in Nat
      BY <3>2, <3>6
    <3>4. sent' \in Nat /\ {stopFlag', grew', owed'} \subseteq BOOLEAN
      BY <3>2, <3>6, <3>7, Zenon
    <3>5. page' \in Seq(All') /\ key' \in All' \cup {None}
      BY <1>t, <1>s, <2>1, <3>2
    <3>3. ReplayTypeOK'
      BY <1>t, <1>a, <3>1, <3>2, <3>4, <3>5 DEF ReplayTyped, ReplayTypeOK, Status
    <3> QED
      BY <1>t, <1>s, <2>5, <2>7, <3>2, <3>3 DEF ReplayTyped
<1>10. CASE SenderRaises
  BY <1>10, <1>t, <1>a, <1>s, <1>v DEF SenderRaises, ReplayTyped, ReplayTypeOK
<1>11. CASE Finish
  BY <1>11, <1>t, <1>a, <1>s, <1>v DEF Finish, ReplayTyped, ReplayTypeOK
<1>12. CASE StopCall
  BY <1>12, <1>t, <1>a, <1>s, <1>v DEF StopCall, ReplayTyped, ReplayTypeOK
<1>13. CASE StopReturns
  BY <1>13, <1>t, <1>a, <1>s, <1>v DEF StopReturns, ReplayTyped, ReplayTypeOK
<1>14. CASE CaptureCommits
  <2>1. RowsInv' /\ All \in SUBSET All' /\ Sendable \in SUBSET Sendable'
    BY <1>14, <1>t, SessionGrows DEF CaptureCommits
  <2>2. page \in Seq(All') /\ key \in All' \cup {None} /\ wire \in Seq(Sendable') /\ OptsInv'
    BY <1>14, <1>t, <2>1 DEF CaptureCommits, OptsInv
  <2> QED
    BY <1>14, <1>t, <1>a, <1>v, <2>1, <2>2 DEF CaptureCommits, ReplayTyped, ReplayTypeOK
<1> QED
  BY <1>1, <1>2, <1>3, <1>4, <1>5, <1>6, <1>7, <1>8, <1>9, <1>10, <1>11, <1>12, <1>13, <1>14
     DEF ReplayNext, ReplayThread

-----------------------------------------------------------------------------
(* Each step keeps the capture order of wire, page and file.                *)

(* All rows on the wire, in the page and the last one fetched are rows of   *)
(* the session, so Before orders them.                                      *)
LEMMA WireRows ==
    ASSUME ReplayTyped
    PROVE  /\ wire \in Seq(Sendable) /\ \A i \in DOMAIN wire : wire[i].row \in All
           /\ page \in Seq(All) /\ key \in All \cup {None}
           /\ Keyed(All) /\ None \notin All
<1>1. Keyed(All) /\ None \notin All
  BY RowsKeyed DEF ReplayTyped
<1>2. wire \in Seq(Sendable) /\ page \in Seq(All) /\ key \in All \cup {None}
  BY DEF ReplayTyped, ReplayTypeOK, All
<1>3. \A i \in DOMAIN wire : wire[i] \in Sendable
  BY <1>2
<1>4. \A e \in Sendable : e.row \in All
  BY DEF Sendable
<1> QED
  BY <1>1, <1>2, <1>3, <1>4

(* A row leaves the page.                                                   *)
LEMMA PagesTail ==
    ASSUME ReplayInv, page # <<>>, page' = Tail(page), wire' = wire, key' = key
    PROVE  PagesInv'
<1>1. /\ Len(page) \in Nat \ {0} /\ DOMAIN page = 1..Len(page)
      /\ Len(page') = Len(page) - 1 /\ DOMAIN page' = 1..(Len(page) - 1)
      /\ \A i \in 1..(Len(page) - 1) : page'[i] = page[i + 1]
  BY WireRows, PageTail DEF ReplayInv
<1>2. \A i, j \in DOMAIN page' : i < j => Before(page'[i], page'[j])
  BY <1>1 DEF ReplayInv, PagesInv
<1>3. \A i \in DOMAIN wire', j \in DOMAIN page' : Before(wire'[i].row, page'[j])
  BY <1>1 DEF ReplayInv, PagesInv
<1>4. page' # <<>> => key' = page'[Len(page')]
  BY <1>1 DEF ReplayInv, PagesInv
<1>5. key' # None
  BY DEF ReplayInv, PagesInv
<1>6. WireInOrder'
  BY DEF ReplayInv, PagesInv, WireInOrder
<1>7. \A i \in DOMAIN wire' : ~Before(key', wire'[i].row)
  BY <1>5 DEF ReplayInv, PagesInv
<1> QED
  BY <1>2, <1>3, <1>4, <1>5, <1>6, <1>7 DEF PagesInv

LEMMA PagesSend ==
    ASSUME ReplayInv, SendRow
    PROVE  PagesInv'
<1>1. /\ Len(page) \in Nat \ {0} /\ DOMAIN page = 1..Len(page)
      /\ Len(page') = Len(page) - 1 /\ DOMAIN page' = 1..(Len(page) - 1)
      /\ \A i \in 1..(Len(page) - 1) : page'[i] = page[i + 1]
      /\ Row = page[1] /\ Row \in All /\ page # <<>>
  BY WireRows, PageTail DEF ReplayInv, ReplayTyped, SendRow
<1>2. CASE wire' = wire
  BY <1>1, <1>2, PagesTail DEF SendRow
<1>3. CASE wire' = Append(wire, [row |-> Row, frame |-> Prepare(Row.frame)])
  <2> DEFINE e == [row |-> Row, frame |-> Prepare(Row.frame)]
  <2>1. e \in Sendable
    BY <1>1 DEF Sendable
  <2>2. /\ Len(wire) \in Nat /\ DOMAIN wire = 1..Len(wire) /\ DOMAIN wire' = 1..(Len(wire) + 1)
        /\ \A i \in DOMAIN wire : wire'[i] = wire[i]
        /\ wire'[Len(wire) + 1] = e
    BY <1>3, <2>1, WireRows DEF ReplayInv
  <2>3. e.row = page[1]
    BY <1>1
  <2> HIDE DEF e
  <2>4. \A i \in DOMAIN wire' : /\ i \in DOMAIN wire => wire'[i] = wire[i]
                               /\ i \notin DOMAIN wire => i = Len(wire) + 1 /\ wire'[i] = e
    BY <2>2
  <2>5. \A j \in DOMAIN page : j # 1 => Before(page[1], page[j])
    BY <1>1 DEF ReplayInv, PagesInv
  <2>6. \A i, j \in DOMAIN page' : i < j => Before(page'[i], page'[j])
    BY <1>1 DEF ReplayInv, PagesInv
  <2>7. \A i \in DOMAIN wire', j \in DOMAIN page' : Before(wire'[i].row, page'[j])
    <3>1. SUFFICES ASSUME NEW i \in DOMAIN wire', NEW j \in DOMAIN page'
                   PROVE  Before(wire'[i].row, page'[j])
      OBVIOUS
    <3>2. j + 1 \in DOMAIN page /\ j + 1 # 1 /\ page'[j] = page[j + 1]
      BY <1>1
    <3>3. CASE i \in DOMAIN wire
      <4>1. Before(wire[i].row, page[j + 1])
        BY <3>2, <3>3 DEF ReplayInv, PagesInv
      <4>2. wire'[i] = wire[i]
        BY <2>2, <3>3, Zenon
      <4> QED
        BY <3>2, <4>1, <4>2
    <3>4. CASE i \notin DOMAIN wire
      BY <2>3, <2>4, <2>5, <3>2, <3>4
    <3> QED
      BY <3>3, <3>4
  <2>8. \A i \in DOMAIN wire : Before(wire[i].row, page[1])
    BY <1>1 DEF ReplayInv, PagesInv
  <2>9. WireInOrder'
    <3>1. \A i, j \in DOMAIN wire : i < j => Before(wire[i].row, wire[j].row)
      BY DEF ReplayInv, PagesInv, WireInOrder
    <3>2. \A i, j \in DOMAIN wire' : i < j => Before(wire'[i].row, wire'[j].row)
      BY <2>2, <2>3, <2>4, <2>8, <3>1
    <3> QED
      BY <3>2 DEF WireInOrder
  <2>10. key' = key /\ key # None /\ key = page[Len(page)]
    BY <1>1 DEF ReplayInv, PagesInv, SendRow
  <2>11. ~Before(key, page[1])
    <3>1. key \in All /\ page[1] \in All /\ Keyed(All)
      BY <1>1, <2>10, WireRows DEF ReplayInv
    <3>2. key = page[1] \/ Before(page[1], key)
      BY <1>1, <2>5, <2>10
    <3>3. \A x, y \in All : x = y \/ Before(y, x) => ~Before(x, y)
      BY <3>1, BeforeOrder
    <3> QED
      BY <3>1, <3>2, <3>3
  <2>12. \A i \in DOMAIN wire' : ~Before(key', wire'[i].row)
    <3>1. \A i \in DOMAIN wire : ~Before(key, wire[i].row)
      BY <2>10 DEF ReplayInv, PagesInv
    <3>2. ASSUME NEW i \in DOMAIN wire' PROVE ~Before(key, wire'[i].row)
      <4>1. CASE i \in DOMAIN wire
        <5>1. wire'[i] = wire[i]
          BY <2>2, <4>1, Zenon
        <5> QED
          BY <3>1, <4>1, <5>1
      <4>2. CASE i \notin DOMAIN wire
        BY <2>3, <2>4, <2>11, <4>2
      <4> QED
        BY <4>1, <4>2
    <3> QED
      BY <2>10, <3>2
  <2>13. page' # <<>> => key' = page'[Len(page')]
    BY <1>1, <2>10
  <2> QED
    BY <2>6, <2>7, <2>9, <2>10, <2>12, <2>13 DEF PagesInv
<1> QED
  BY <1>2, <1>3 DEF SendRow

LEMMA PagesFetch ==
    ASSUME ReplayInv, FetchPage
    PROVE  PagesInv'
<1> DEFINE p == NextPage(key)
<1>1. /\ p \in Seq(All)
      /\ \A i \in DOMAIN p : key # None => Before(key, p[i])
      /\ \A i, j \in DOMAIN p : i < j => Before(p[i], p[j])
  BY WireRows, PageBehind DEF ReplayInv, ReplayTyped
<1>2. page' = p /\ wire' = wire /\ key' = (IF p = <<>> THEN key ELSE p[Len(p)]) /\ page = <<>>
  BY DEF FetchPage, Last
<1> HIDE DEF p
<1>3. WireInOrder'
  BY <1>2 DEF ReplayInv, PagesInv, WireInOrder
<1>4. ASSUME NEW i \in DOMAIN wire, NEW j \in DOMAIN p
      PROVE  Before(wire[i].row, p[j])
  <2>1. key # None
    BY <1>4 DEF ReplayInv, PagesInv
  <2>2. key \in All /\ wire[i].row \in All /\ p[j] \in All /\ Keyed(All)
    BY <1>1, <2>1, WireRows DEF ReplayInv
  <2>3. ~Before(key, wire[i].row) /\ Before(key, p[j])
    BY <1>1, <2>1 DEF ReplayInv, PagesInv
  <2> QED
    BY <2>2, <2>3, BeforeOrder
<1>5. CASE p = <<>>
  BY <1>1, <1>2, <1>3, <1>5 DEF ReplayInv, PagesInv
<1>6. CASE p # <<>>
  <2>1. Len(p) \in DOMAIN p /\ p[Len(p)] \in All
    BY <1>1, <1>6
  <2>2. key' = p[Len(p)] /\ key' # None
    BY <1>2, <1>6, <2>1, WireRows DEF ReplayInv
  <2>3. \A i \in DOMAIN wire' : ~Before(key', wire'[i].row)
    <3>1. SUFFICES ASSUME NEW i \in DOMAIN wire PROVE ~Before(p[Len(p)], wire[i].row)
      BY <1>2, <2>2
    <3>2. Before(wire[i].row, p[Len(p)]) /\ wire[i].row \in All /\ Keyed(All)
      BY <1>4, <2>1, WireRows DEF ReplayInv
    <3> QED
      BY <2>1, <3>2, BeforeOrder
  <2> QED
    BY <1>1, <1>2, <1>3, <1>4, <2>2, <2>3 DEF PagesInv
<1> QED
  BY <1>5, <1>6

LEMMA PagesStep ==
    ASSUME ReplayInv, ReplayNext
    PROVE  PagesInv'
<1>1. CASE Start
  BY <1>1 DEF Start, PagesInv, WireInOrder
<1>2. ASSUME UNCHANGED <<page, wire, key>>
      PROVE  PagesInv'
  BY <1>2 DEF ReplayInv, PagesInv, WireInOrder
<1>3. CASE StopSeen \/ StopAtLimit \/ PaceRow \/ Wake \/ SenderRaises \/ Finish
  BY <1>2, <1>3 DEF StopSeen, StopAtLimit, PaceRow, Wake, SenderRaises, Finish
<1>4. CASE StopCall \/ StopReturns \/ CaptureCommits
  BY <1>2, <1>4 DEF StopCall, StopReturns, CaptureCommits
<1>5. CASE SkipRow \/ FailRow
  BY <1>5, PagesTail DEF SkipRow, FailRow, ReplayInv, ReplayTyped
<1> QED
  BY <1>1, <1>3, <1>4, <1>5, PagesSend, PagesFetch DEF ReplayNext, ReplayThread

-----------------------------------------------------------------------------
(* Each step keeps the place in a session that does not grow.               *)

LEMMA StatusFields ==
    ASSUME ReplayTyped
    PROVE  /\ status.packets \in Nat /\ status.skipped \in Nat /\ status.failed \in Nat
           /\ Looked \in Nat /\ sent \in Nat
           /\ opts.offset \in Nat /\ opts.limit \in Nat \cup {None}
  BY DEF ReplayTyped, ReplayTypeOK, OptsInv, Looked

(* What the counters become.                                                *)
LEMMA LookedStep ==
    ASSUME ReplayTyped
    PROVE  /\ SkipRow \/ FailRow => status'.packets = status.packets /\ Looked' = Looked + 1
           /\ SendRow => status'.packets = status.packets + 1 /\ Looked' = Looked + 1
           /\ StopSeen \/ Wake \/ SenderRaises =>
                status'.packets = status.packets /\ Looked' = Looked
<1>1. status \in Status
  BY DEF ReplayTyped, ReplayTypeOK, Status
<1>3. ASSUME SkipRow
      PROVE  status'.packets = status.packets /\ Looked' = Looked + 1
  <2>1. status' = [status EXCEPT !.skipped = @ + 1]
    BY <1>3 DEF SkipRow
  <2> QED
    BY <1>1, <2>1 DEF Status, Looked
<1>4. ASSUME FailRow
      PROVE  status'.packets = status.packets /\ Looked' = Looked + 1
  <2>1. status' = [status EXCEPT !.failed = @ + 1]
    BY <1>4 DEF FailRow
  <2> QED
    BY <1>1, <2>1 DEF Status, Looked
<1>5. ASSUME SendRow
      PROVE  status'.packets = status.packets + 1 /\ Looked' = Looked + 1
  <2>1. status' = [status EXCEPT !.packets = @ + 1, !.bytes = @ + Row.length]
    BY <1>5 DEF SendRow
  <2>2. /\ status'.packets = status.packets + 1
        /\ status'.skipped = status.skipped /\ status'.failed = status.failed
    BY <1>1, <2>1 DEF Status
  <2> QED
    BY <1>1, <2>2 DEF Status, Looked
<1>6. ASSUME StopSeen \/ Wake \/ SenderRaises
      PROVE  status'.packets = status.packets /\ Looked' = Looked
  <2>1. \/ status' = [status EXCEPT !.stopped = TRUE]
        \/ status' = [status EXCEPT !.stopped = stopFlag]
        \/ status' = [status EXCEPT !.error = TRUE]
    BY <1>6 DEF StopSeen, Wake, SenderRaises
  <2> QED
    BY <1>1, <2>1 DEF Status, Looked
<1> QED
  BY <1>3, <1>4, <1>5, <1>6

LEMMA PlaceTail ==
    ASSUME ReplayInv, PlanInv, page # <<>>, page' = Tail(page), key' = key, rows' = rows, opts' = opts,
           pc' = "next", Looked' = Looked + 1,
           sent' <= Looked + 1, sent' < opts.offset => sent' = Looked + 1
    PROVE  PlanInv'
<1>1. /\ Len(page) \in Nat \ {0} /\ DOMAIN page = 1..Len(page)
      /\ Len(page') = Len(page) - 1 /\ DOMAIN page' = 1..(Len(page) - 1)
      /\ \A i \in 1..(Len(page) - 1) : page'[i] = page[i + 1]
  BY WireRows, PageTail DEF ReplayInv
<1>2. Looked \in Nat /\ All' = All /\ key # None
  BY StatusFields, SameSession DEF ReplayInv, PagesInv
<1>3. \A i \in DOMAIN page' : Rank(All', page'[i]) = Looked' + i - 1
  <2>1. SUFFICES ASSUME NEW i \in 1..(Len(page) - 1)
                 PROVE  Rank(All, page[i + 1]) = Looked + 1 + i - 1
    BY <1>1, <1>2
  <2>2. i + 1 \in DOMAIN page
    BY <1>1
  <2>3. Rank(All, page[i + 1]) = Looked + (i + 1) - 1
    BY <2>2 DEF PlanInv
  <2> QED
    BY <1>2, <2>3
<1>4. Looked' + Len(page') = Looked + Len(page)
  BY <1>1, <1>2
<1> QED
  BY <1>2, <1>3, <1>4 DEF PlanInv

LEMMA PlaceSame ==
    ASSUME PlanInv, UNCHANGED <<rows, opts, page, key, sent>>, Looked' = Looked,
           pc' \in {"asleep", "prepare"} =>
             page[1] \in Selected /\ ~LimitReached /\ status'.packets = status.packets
    PROVE  PlanInv'
<1>1. All' = All /\ Selected' = Selected
  BY SameSession
<1> QED
  BY <1>1 DEF PlanInv, LimitReached

LEMMA PlanStep ==
    ASSUME ReplayInv, ReplayNext, ~grew'
    PROVE  PlanInv'
<1>t. ReplayTyped /\ PagesInv
  BY DEF ReplayInv
<1>1. CASE Start
  <2>1. /\ page' = <<>> /\ key' = None /\ pc' = "next" /\ sent' = 0 /\ rows' = rows /\ opts' = opts
        /\ status' = NewStatus
    BY <1>1 DEF Start
  <2>2. Looked' = 0
    BY <2>1 DEF Looked, NewStatus
  <2>3. Len(rows') \in Nat
    BY <1>t, <2>1, RowsKeyed DEF ReplayTyped
  <2>4. opts'.offset \in Nat
    BY <1>t, <2>1, StatusFields
  <2> QED
    BY <2>1, <2>2, <2>3, <2>4 DEF PlanInv
<1>g. ASSUME grew' = grew
      PROVE  PlanInv /\ ProgressInv /\ PaceInv
  BY <1>g DEF ReplayInv
<1>2. CASE FetchPage
  <2> DEFINE p == NextPage(key)
  <2>1. /\ page = <<>> /\ page' = p /\ key' = (IF p = <<>> THEN key ELSE p[Len(p)])
        /\ pc' \in {"next", "finish"} /\ UNCHANGED <<rows, opts, status, sent, grew>>
    BY <1>2 DEF FetchPage, Last
  <2>2. PlanInv /\ Looked \in Nat /\ Len(page) = 0
    BY <1>t, <1>g, <2>1, StatusFields
  <2>3. IF key = None THEN Looked = 0 ELSE Rank(All, key) = Looked - 1
    BY <2>2 DEF PlanInv
  <2>4. /\ p \in Seq(All)
        /\ Looked + Len(p) <= Len(rows)
        /\ \A i \in DOMAIN p : Rank(All, p[i]) = Looked + i - 1
    BY <1>t, <2>2, <2>3, WireRows, PageBehind DEF ReplayTyped
  <2> HIDE DEF p
  <2>5. All' = All /\ Looked' = Looked
    BY <2>1, SameSession DEF Looked
  <2>6. CASE p = <<>>
    BY <2>1, <2>2, <2>5, <2>6 DEF PlanInv
  <2>7. CASE p # <<>>
    <3>1. Len(p) \in DOMAIN p /\ Len(p) \in Nat /\ p[Len(p)] \in All
      BY <2>4, <2>7
    <3>2. key' = p[Len(p)] /\ key' # None /\ Rank(All', key') = Looked' + Len(page') - 1
      BY <1>t, <2>1, <2>4, <2>5, <2>7, <3>1, WireRows
    <3> QED
      BY <2>1, <2>2, <2>4, <2>5, <3>2 DEF PlanInv
  <2> QED
    BY <2>6, <2>7
<1>3. CASE StopSeen \/ SenderRaises
  <2>1. UNCHANGED <<rows, opts, page, key, sent, grew>> /\ pc' = "finish" /\ Looked' = Looked
    BY <1>3, <1>t, LookedStep DEF StopSeen, SenderRaises
  <2> QED
    BY <1>g, <2>1, PlaceSame
<1>4. CASE StopAtLimit \/ Finish \/ StopCall \/ StopReturns
  <2>1. UNCHANGED <<rows, opts, page, key, sent, grew, status>> /\ pc' \in {pc, "finish", "dead"}
    BY <1>4 DEF StopAtLimit, Finish, StopCall, StopReturns
  <2>2. Looked' = Looked
    BY <2>1 DEF Looked
  <2>3. pc' \in {"asleep", "prepare"} => pc \in {"asleep", "prepare"}
    BY <2>1
  <2> QED
    BY <1>g, <2>1, <2>2, <2>3, PlaceSame DEF PlanInv
<1>5. CASE SkipRow
  <2>1. /\ page # <<>> /\ page' = Tail(page) /\ key' = key /\ rows' = rows /\ opts' = opts
        /\ pc' = "next" /\ grew' = grew /\ Looked' = Looked + 1
        /\ \/ sent < opts.offset /\ sent' = sent + 1
           \/ sent >= opts.offset /\ sent' = sent
    BY <1>5, <1>t, LookedStep DEF SkipRow
  <2>2. sent' <= Looked + 1 /\ (sent' < opts.offset => sent' = Looked + 1)
    BY <1>t, <1>g, <2>1, StatusFields DEF PlanInv
  <2> QED
    BY <1>g, <2>1, <2>2, PlaceTail
<1>6. CASE PaceRow
  <2>1. /\ UNCHANGED <<rows, opts, page, key, sent, grew, status>> /\ page # <<>>
        /\ sent >= opts.offset /\ ~LimitReached /\ Matches(opts.selection, Row)
    BY <1>6 DEF PaceRow
  <2>2. Looked' = Looked
    BY <2>1 DEF Looked
  <2>3. /\ Row = page[1] /\ Row \in All /\ 1 \in DOMAIN page
    BY <1>t, <2>1, WireRows, PageTail
  <2>4. Rank(All, Row) >= opts.offset
    BY <1>t, <1>g, <2>1, <2>3, StatusFields DEF PlanInv
  <2>5. Row \in Selected
    BY <2>1, <2>3, <2>4, SelectedRows
  <2> QED
    BY <1>g, <2>1, <2>2, <2>3, <2>5, PlaceSame
<1>7. CASE Wake
  <2>1. /\ UNCHANGED <<rows, opts, page, key, sent, grew>> /\ pc = "asleep"
        /\ status'.packets = status.packets /\ Looked' = Looked
    BY <1>7, <1>t, LookedStep DEF Wake
  <2> QED
    BY <1>g, <2>1, PlaceSame DEF PlanInv
<1>8. CASE FailRow \/ SendRow
  <2>1. /\ page' = Tail(page) /\ key' = key /\ rows' = rows /\ opts' = opts
        /\ pc = "prepare" /\ pc' = "next" /\ grew' = grew /\ Looked' = Looked + 1
        /\ sent' \in {sent, sent + 1}
    BY <1>8, <1>t, LookedStep DEF FailRow, SendRow
  <2>2. page # <<>> /\ Row = page[1] /\ Row \in All /\ 1 \in DOMAIN page
    BY <1>t, <2>1, WireRows, PageTail DEF ReplayTyped
  <2>3. Row \in Selected /\ Rank(All, Row) = Looked
    BY <1>t, <1>g, <2>1, <2>2, StatusFields DEF PlanInv
  <2>4. Looked >= opts.offset
    BY <2>2, <2>3, SelectedRows
  <2>5. sent' <= Looked + 1 /\ (sent' < opts.offset => sent' = Looked + 1)
    BY <1>t, <1>g, <2>1, <2>4, StatusFields DEF PlanInv
  <2> QED
    BY <1>g, <2>1, <2>2, <2>5, PlaceTail
<1>9. CASE CaptureCommits
  BY <1>9 DEF CaptureCommits
<1> QED
  BY <1>1, <1>2, <1>3, <1>4, <1>5, <1>6, <1>7, <1>8, <1>9 DEF ReplayNext, ReplayThread

-----------------------------------------------------------------------------
(* Each step keeps the count of what was sent.                              *)

(* The row looked at and its rank.                                          *)
LEMMA RowPlace ==
    ASSUME ReplayInv, PlanInv, page # <<>>
    PROVE  Row \in All /\ Row = page[1] /\ Rank(All, Row) = Looked /\ Looked \in Nat
<1>1. Row = page[1] /\ Row \in All /\ 1 \in DOMAIN page
  BY WireRows, PageTail DEF ReplayInv
<1>2. Looked \in Nat
  BY StatusFields DEF ReplayInv
<1> QED
  BY <1>1, <1>2 DEF PlanInv

(* A skipped row is not among the selected ones.                            *)
LEMMA SkippedRow ==
    ASSUME ReplayInv, PlanInv, SkipRow
    PROVE  page # <<>> /\ Row \notin Selected
<1>1. /\ page # <<>>
      /\ sent < opts.offset \/ ~Matches(opts.selection, Row)
  BY DEF SkipRow
<1>2. sent < opts.offset => Looked < opts.offset
  BY DEF PlanInv
<1>3. Row \in All /\ Rank(All, Row) = Looked /\ Looked \in Nat /\ opts.offset \in Nat
  BY <1>1, RowPlace, StatusFields DEF ReplayInv
<1> QED
  BY <1>1, <1>2, <1>3, SelectedRows

(* Steps after which nothing was counted or sent.                           *)
LEMMA ProgressSame ==
    ASSUME ProgressInv, UNCHANGED <<rows, opts, wire>>, Looked' = Looked,
           status'.packets = status.packets,
           pc' \in {"finish", "dead"} /\ ~status'.stopped /\ ~status'.error =>
             LimitReached \/ Looked = Len(rows)
    PROVE  ProgressInv'
<1>1. All' = All /\ Chosen' = Chosen /\ \A f : Prepare(f)' = Prepare(f)
  BY SameSession
<1> QED
  BY <1>1 DEF ProgressInv, LimitReached

(* A row passed without being sent.                                         *)
LEMMA ProgressPass ==
    ASSUME ReplayInv, PlanInv, ProgressInv, page # <<>>, Row \notin Chosen,
           UNCHANGED <<rows, opts, wire>>, Looked' = Looked + 1,
           status'.packets = status.packets, pc' = "next"
    PROVE  ProgressInv'
<1>1. All' = All /\ Chosen' = Chosen /\ \A f : Prepare(f)' = Prepare(f)
  BY SameSession
<1>2. Row \in All /\ Rank(All, Row) = Looked /\ Looked \in Nat
  BY RowPlace
<1>3. CountBelow(All, Chosen, Looked + 1) = CountBelow(All, Chosen, Looked)
  BY <1>2, CountNext, SelectedRows DEF ReplayInv, ReplayTyped
<1> QED
  BY <1>1, <1>3 DEF ProgressInv

LEMMA ProgressSend ==
    ASSUME ReplayInv, PlanInv, ProgressInv, SendRow
    PROVE  ProgressInv'
<1>1. /\ UNCHANGED <<rows, opts>> /\ pc = "prepare" /\ pc' = "next"
      /\ Prepare(Row.frame) # None
      /\ wire' = IF opts.dryRun THEN wire
                 ELSE Append(wire, [row |-> Row, frame |-> Prepare(Row.frame)])
      /\ status'.packets = status.packets + 1 /\ Looked' = Looked + 1
  BY LookedStep DEF SendRow, ReplayInv
<1>2. All' = All /\ Chosen' = Chosen /\ \A f : Prepare(f)' = Prepare(f)
  BY <1>1, SameSession
<1>3. page # <<>> /\ Row \in All /\ Row = page[1] /\ Rank(All, Row) = Looked /\ Looked \in Nat
  BY <1>1, RowPlace DEF ReplayInv, ReplayTyped
<1>4. Row \in Chosen /\ ~LimitReached
  BY <1>1, <1>3, SelectedRows DEF PlanInv
<1>5. /\ CountBelow(All, Chosen, Looked + 1) = CountBelow(All, Chosen, Looked) + 1
      /\ Ordered(Chosen)[CountBelow(All, Chosen, Looked) + 1] = Row
  BY <1>3, <1>4, CountNext, OrderedNext, SelectedRows DEF ReplayInv, ReplayTyped
<1>6. status'.packets = CountBelow(All', Chosen', Looked')
  BY <1>1, <1>2, <1>5 DEF ProgressInv
<1>7. opts'.limit # None => status'.packets <= opts'.limit
  BY <1>1, <1>4, StatusFields DEF LimitReached, ReplayInv
<1>8. ASSUME ~opts.dryRun
      PROVE  /\ Len(wire') = status'.packets
             /\ \A i \in DOMAIN wire' : wire'[i] = [row |-> Ordered(Chosen)[i],
                                               frame |-> Prepare(Ordered(Chosen)[i].frame)]
  <2> DEFINE e == [row |-> Row, frame |-> Prepare(Row.frame)]
  <2>1. wire' = Append(wire, e) /\ wire \in Seq(Sendable) /\ e \in Sendable
    BY <1>1, <1>3, <1>8, WireRows DEF ReplayInv, Sendable
  <2>2. Len(wire) = status.packets /\ Len(wire) = CountBelow(All, Chosen, Looked)
    BY <1>8 DEF ProgressInv
  <2>3. e = [row |-> Ordered(Chosen)[Len(wire) + 1],
             frame |-> Prepare(Ordered(Chosen)[Len(wire) + 1].frame)]
    BY <1>5, <2>2
  <2> HIDE DEF e
  <2>4. /\ Len(wire) \in Nat /\ Len(wire') = Len(wire) + 1
        /\ DOMAIN wire = 1..Len(wire) /\ DOMAIN wire' = 1..(Len(wire) + 1)
        /\ \A i \in DOMAIN wire : wire'[i] = wire[i]
        /\ wire'[Len(wire) + 1] = e
    BY <2>1
  <2>5. ASSUME NEW i \in DOMAIN wire'
        PROVE  wire'[i] = [row |-> Ordered(Chosen)[i], frame |-> Prepare(Ordered(Chosen)[i].frame)]
    <3>1. CASE i \in DOMAIN wire
      <4>1. wire'[i] = wire[i]
        BY <2>4, <3>1, Zenon
      <4> QED
        BY <1>8, <3>1, <4>1 DEF ProgressInv
    <3>2. CASE i \notin DOMAIN wire
      <4>1. i = Len(wire) + 1
        BY <2>4, <3>2
      <4> QED
        BY <2>3, <2>4, <4>1
    <3> QED
      BY <3>1, <3>2
  <2>6. Len(wire') = status'.packets
    BY <1>1, <2>2, <2>4
  <2> QED
    BY <2>5, <2>6
<1>9. \A i : Prepare(Ordered(Chosen)[i].frame)' = Prepare(Ordered(Chosen)[i].frame)
  BY <1>1, <1>2 DEF Prepare, Transformed
<1> QED
  BY <1>1, <1>2, <1>6, <1>7, <1>8, <1>9 DEF ProgressInv

LEMMA ProgressStep ==
    ASSUME ReplayInv, ReplayNext, ~grew'
    PROVE  ProgressInv'
<1>t. ReplayTyped /\ PagesInv /\ RowsInv
  BY DEF ReplayInv, ReplayTyped
<1>g. ASSUME grew' = grew
      PROVE  PlanInv /\ ProgressInv
  BY <1>g DEF ReplayInv
<1>1. CASE Start
  <2>1. /\ rows' = rows /\ opts' = opts /\ pc' = "next" /\ wire' = <<>> /\ status' = NewStatus
    BY <1>1 DEF Start
  <2>2. Looked' = 0 /\ status'.packets = 0
    BY <2>1 DEF Looked, NewStatus
  <2>3. All' = All /\ Chosen' = Chosen
    BY <2>1, SameSession
  <2>4. CountBelow(All, Chosen, 0) = 0
    BY <1>t, CountBelowType, SelectedRows
  <2>5. opts.limit # None => opts.limit \in Nat
    BY <1>t, StatusFields
  <2> QED
    BY <2>1, <2>2, <2>3, <2>4, <2>5 DEF ProgressInv
<1>2. CASE FetchPage
  <2>1. /\ page = <<>> /\ UNCHANGED <<rows, opts, status, wire, grew>>
        /\ pc' = IF NextPage(key) = <<>> THEN "finish" ELSE "next"
    BY <1>2 DEF FetchPage
  <2>2. PlanInv /\ ProgressInv /\ Looked \in Nat /\ Len(page) = 0
    BY <1>t, <1>g, <2>1, StatusFields
  <2>3. IF key = None THEN Looked = 0 ELSE Rank(All, key) = Looked - 1
    BY <2>2 DEF PlanInv
  <2>4. NextPage(key) = <<>> => Looked = Len(rows)
    BY <1>t, <2>2, <2>3, WireRows, PageBehind
  <2>5. Looked' = Looked
    BY <2>1 DEF Looked
  <2> QED
    BY <2>1, <2>2, <2>4, <2>5, ProgressSame
<1>3. CASE StopSeen \/ SenderRaises
  <2>1. /\ UNCHANGED <<rows, opts, wire, grew>> /\ Looked' = Looked /\ status'.packets = status.packets
    BY <1>3, <1>t, LookedStep DEF StopSeen, SenderRaises
  <2>2. status'.stopped \/ status'.error
    BY <1>3, <1>t DEF StopSeen, SenderRaises, ReplayTyped, ReplayTypeOK
  <2> QED
    BY <1>g, <2>1, <2>2, ProgressSame
<1>4. CASE StopAtLimit
  <2>1. /\ UNCHANGED <<rows, opts, wire, grew, status>> /\ LimitReached
    BY <1>4 DEF StopAtLimit
  <2>2. Looked' = Looked
    BY <2>1 DEF Looked
  <2> QED
    BY <1>g, <2>1, <2>2, ProgressSame
<1>5. CASE Finish \/ StopCall \/ StopReturns
  <2>1. /\ UNCHANGED <<rows, opts, wire, grew, status>>
        /\ pc' = pc \/ (pc = "finish" /\ pc' = "dead")
    BY <1>5 DEF Finish, StopCall, StopReturns
  <2>2. Looked' = Looked
    BY <2>1 DEF Looked
  <2>3. pc' \in {"finish", "dead"} => pc \in {"finish", "dead"}
    BY <2>1
  <2>4. pc' \in {"finish", "dead"} /\ ~status'.stopped /\ ~status'.error =>
          LimitReached \/ Looked = Len(rows)
    BY <1>g, <2>1, <2>3 DEF ProgressInv
  <2> QED
    BY <1>g, <2>1, <2>2, <2>4, ProgressSame
<1>6. CASE SkipRow
  <2>1. /\ UNCHANGED <<rows, opts, wire, grew>> /\ pc' = "next"
        /\ status'.packets = status.packets /\ Looked' = Looked + 1
    BY <1>6, <1>t, LookedStep DEF SkipRow
  <2>2. page # <<>> /\ Row \notin Chosen
    BY <1>6, <1>g, <2>1, SkippedRow, SelectedRows
  <2> QED
    BY <1>g, <2>1, <2>2, ProgressPass
<1>7. CASE PaceRow
  <2>1. UNCHANGED <<rows, opts, wire, grew, status>> /\ pc' \in {"asleep", "prepare"}
    BY <1>7 DEF PaceRow
  <2>2. Looked' = Looked
    BY <2>1 DEF Looked
  <2> QED
    BY <1>g, <2>1, <2>2, ProgressSame
<1>8. CASE Wake
  <2>1. /\ UNCHANGED <<rows, opts, wire, grew>> /\ Looked' = Looked /\ status'.packets = status.packets
    BY <1>8, <1>t, LookedStep DEF Wake
  <2>2. status'.stopped = stopFlag
    BY <1>8, <1>t DEF Wake, ReplayTyped, ReplayTypeOK
  <2>3. pc' = IF stopFlag THEN "finish" ELSE "prepare"
    BY <1>8 DEF Wake, AfterSleep
  <2> QED
    BY <1>g, <2>1, <2>2, <2>3, ProgressSame
<1>9. CASE FailRow
  <2>1. /\ UNCHANGED <<rows, opts, wire, grew>> /\ pc' = "next" /\ pc = "prepare"
        /\ Prepare(Row.frame) = None
        /\ status'.packets = status.packets /\ Looked' = Looked + 1
    BY <1>9, <1>t, LookedStep DEF FailRow
  <2>2. page # <<>>
    BY <1>t, <2>1 DEF ReplayTyped
  <2>3. Row \notin Chosen
    BY <2>1 DEF Chosen
  <2> QED
    BY <1>g, <2>1, <2>2, <2>3, ProgressPass
<1>10. CASE SendRow
  BY <1>10, <1>g, ProgressSend DEF SendRow
<1>11. CASE CaptureCommits
  BY <1>11 DEF CaptureCommits
<1> QED
  BY <1>1, <1>2, <1>3, <1>4, <1>5, <1>6, <1>7, <1>8, <1>9, <1>10, <1>11 DEF ReplayNext, ReplayThread

-----------------------------------------------------------------------------
(* Each step keeps the waits.                                               *)

(* Steps that pace nothing.                                                 *)
LEMMA PaceSame ==
    ASSUME PaceInv, UNCHANGED <<rows, opts, waits, prev>>, ~grew,
           pc' = "next" => Len(waits) = CountBelow(All, Selected, Looked'),
           pc' \in {"asleep", "prepare"} => Len(waits) = CountBelow(All, Selected, Looked') + 1
    PROVE  PaceInv'
<1>1. All' = All /\ Selected' = Selected
  BY SameSession
<1>2. PacedTimestamps' = PacedTimestamps
  BY <1>1 DEF PacedTimestamps
<1>3. PaceMatchesSchedule'
  BY <1>2 DEF PaceInv, PaceMatchesSchedule
<1> QED
  BY <1>1, <1>3 DEF PaceInv

(* One entry of the schedule; and the schedule is made of such entries.     *)
Entry(from, to, mode, speed) == Scale(speed, GapPolicyApply(mode, DefaultMaxGap, PositiveGap(from, to)))

LEMMA ScheduleEntries ==
    ASSUME NEW n \in Nat, NEW f, NEW mode, NEW speed
    PROVE  BuildSchedule([i \in 1..n |-> f[i]], mode, speed)
             = [i \in 1..n |-> IF i = 1 THEN 0 ELSE Entry(f[i - 1], f[i], mode, speed)]
<1> DEFINE t == [i \in 1..n |-> f[i]]
<1>1. Len(t) = n
  OBVIOUS
<1>2. \A i \in 1..n : t[i] = f[i] /\ (i # 1 => t[i - 1] = f[i - 1])
  OBVIOUS
<1> HIDE DEF t
<1>3. BuildSchedule(t, mode, speed)
        = [i \in 1..n |-> IF i = 1 THEN 0 ELSE Entry(t[i - 1], t[i], mode, speed)]
  BY <1>1, Zenon DEF BuildSchedule, Entry
<1>4. [i \in 1..n |-> IF i = 1 THEN 0 ELSE Entry(t[i - 1], t[i], mode, speed)]
        = [i \in 1..n |-> IF i = 1 THEN 0 ELSE Entry(f[i - 1], f[i], mode, speed)]
  BY <1>2
<1> QED
  BY <1>3, <1>4 DEF t

(* Where the two ways to compute a wait agree.                              *)
LEMMA RunGapIsEntry ==
    ASSUME ReplayTyped, page # <<>>,
           opts.mode = "faithful" \/ (opts.speed = 2 /\ opts.maxGap = DefaultMaxGap)
    PROVE  RunGap(Row) = IF prev = None THEN 0 ELSE Entry(prev, Row.ts, opts.mode, opts.speed)
<1>1. SUFFICES ASSUME prev # None
               PROVE  RunGap(Row) = Entry(prev, Row.ts, opts.mode, opts.speed)
  BY DEF RunGap
<1>2. prev \in Nat /\ Row.ts \in Nat /\ opts.speed \in Nat \ {0} /\ opts.maxGap \in Nat
      /\ opts.mode \in {"story", "faithful"}
  BY <1>1, RunGapType DEF ReplayTyped, OptsInv
<1> DEFINE x == PositiveGap(prev, Row.ts)
<1>3. x \in Nat
  BY <1>2 DEF PositiveGap
<1>4. RunGap(Row) = IF opts.mode = "story" THEN AtMost(Scale(opts.speed, x), opts.maxGap)
                    ELSE Scale(opts.speed, x)
  BY <1>1 DEF RunGap
<1>5. Entry(prev, Row.ts, opts.mode, opts.speed)
        = Scale(opts.speed, IF opts.mode = "story" THEN AtMost(x, DefaultMaxGap) ELSE x)
  BY DEF Entry, GapPolicyApply
<1> HIDE DEF x
<1>6. CASE opts.mode = "faithful"
  BY <1>4, <1>5, <1>6
<1>7. CASE opts.mode = "story"
  <2>1. opts.speed = 2 /\ opts.maxGap = DefaultMaxGap
    BY <1>7
  <2>2. \A y \in Nat : Scale(2, y) = y
    BY DEF Scale
  <2>3. AtMost(x, DefaultMaxGap) \in Nat
    BY <1>2, <1>3, <2>1 DEF AtMost
  <2>4. RunGap(Row) = AtMost(x, DefaultMaxGap)
    BY <1>3, <1>4, <1>7, <2>1, <2>2
  <2>5. Entry(prev, Row.ts, opts.mode, opts.speed) = AtMost(x, DefaultMaxGap)
    BY <1>5, <1>7, <2>1, <2>2, <2>3
  <2> QED
    BY <2>4, <2>5
<1> QED
  BY <1>2, <1>6, <1>7

LEMMA PaceOne ==
    ASSUME ReplayInv, PlanInv, PaceInv, PaceRow, ~grew
    PROVE  PaceInv'
<1> DEFINE n == Len(waits)
           ts == [i \in 1..(n + 1) |-> Ordered(Selected)[i].ts]
<1>1. /\ UNCHANGED <<rows, opts, page, status, grew>> /\ page # <<>> /\ pc = "next"
      /\ pc' \in {"asleep", "prepare"}
      /\ waits' = Append(waits, RunGap(Row)) /\ prev' = Row.ts
      /\ sent >= opts.offset /\ Matches(opts.selection, Row)
  BY DEF PaceRow
<1>2. All' = All /\ Selected' = Selected /\ Looked' = Looked
  BY <1>1, SameSession DEF Looked
<1>3. /\ Row \in All /\ Rank(All, Row) = Looked /\ Looked \in Nat
      /\ RowsInv /\ waits \in Seq(Nat) /\ n \in Nat /\ RunGap(Row) \in Nat
  BY <1>1, RowPlace, RunGapType DEF ReplayInv, ReplayTyped
<1>4. Row \in Selected
  <2>1. Looked >= opts.offset
    BY <1>1, <1>3, StatusFields DEF PlanInv, ReplayInv
  <2> QED
    BY <1>1, <1>3, <2>1, SelectedRows
<1>5. n = CountBelow(All, Selected, Looked)
  BY <1>1 DEF PaceInv
<1>6. n + 1 \in 1..Cardinality(Selected) /\ Ordered(Selected)[n + 1] = Row
  BY <1>3, <1>4, <1>5, OrderedNext, SelectedRows
<1>7. /\ Len(waits') = n + 1 /\ DOMAIN waits' = 1..(n + 1) /\ waits' # <<>>
      /\ \A i \in 1..n : waits'[i] = waits[i]
      /\ waits'[n + 1] = RunGap(Row)
      /\ waits' = [i \in 1..(n + 1) |-> waits'[i]]
  <2> DEFINE g == RunGap(Row)
  <2>1. waits' = Append(waits, g) /\ g \in Nat /\ waits \in Seq(Nat)
    BY <1>1, <1>3
  <2> HIDE DEF g
  <2>2. /\ Len(waits') = n + 1 /\ DOMAIN waits' = 1..(n + 1) /\ waits' # <<>>
        /\ \A i \in 1..n : waits'[i] = waits[i]
        /\ waits'[n + 1] = g
    BY <2>1
  <2>3. waits' \in Seq(Nat)
    BY <2>1
  <2>4. waits' = [i \in 1..(n + 1) |-> waits'[i]]
    BY <2>2, <2>3
  <2> QED
    BY <2>2, <2>4 DEF g
<1> HIDE DEF n
<1>8. ASSUME opts.mode = "faithful" \/ (opts.speed = 2 /\ opts.maxGap = DefaultMaxGap)
      PROVE  waits' = BuildSchedule(PacedTimestamps', opts.mode, opts.speed)
  <2> DEFINE f == [i \in Nat |-> Ordered(Selected)[i].ts]
             E(i) == IF i = 1 THEN 0 ELSE Entry(f[i - 1], f[i], opts.mode, opts.speed)
  <2>a. \A m \in Nat : BuildSchedule([i \in 1..m |-> f[i]], opts.mode, opts.speed)
                         = [i \in 1..m |-> IF i = 1 THEN 0
                                          ELSE Entry(f[i - 1], f[i], opts.mode, opts.speed)]
    <3> HIDE DEF f
    <3> QED
      BY ScheduleEntries
  <2>b. \A m \in Nat : BuildSchedule([i \in 1..m |-> f[i]], opts.mode, opts.speed) = [i \in 1..m |-> E(i)]
    BY <2>a, Zenon
  <2>1. PacedTimestamps = [i \in 1..n |-> f[i]] /\ PacedTimestamps' = [i \in 1..(n + 1) |-> f[i]]
    BY <1>2, <1>3, <1>7 DEF PacedTimestamps, n
  <2>2. waits = BuildSchedule(PacedTimestamps, opts.mode, opts.speed)
    BY <1>8 DEF PaceInv, PaceMatchesSchedule
  <2>3. waits = [i \in 1..n |-> E(i)]
    <3> HIDE DEF E, f
    <3> QED
      BY <1>3, <2>1, <2>2, <2>b
  <2>4. BuildSchedule(PacedTimestamps', opts.mode, opts.speed) = [i \in 1..(n + 1) |-> E(i)]
    <3>1. n + 1 \in Nat
      BY <1>3
    <3> HIDE DEF E, f
    <3> QED
      BY <2>1, <2>b, <3>1, Zenon
  <2>5. f[n + 1] = Row.ts
    BY <1>3, <1>6
  <2>6. prev = IF n = 0 THEN None ELSE f[n]
    BY <1>3 DEF PaceInv, n
  <2>7. n # 0 => prev # None
    <3>1. n # 0 => n \in 1..Cardinality(Selected) /\ Keyed(Selected) /\ IsFiniteSet(Selected)
      BY <1>3, <1>6, PartKeyed, SelectedRows
    <3>2. n # 0 => Ordered(Selected)[n] \in All
      BY <3>1, OrderedAt, SelectedRows
    <3>3. n # 0 => f[n] \in Nat
      BY <1>3, <3>2, RowsKeyed
    <3> QED
      BY <2>6, <3>3, OutAssumption
  <2>8. RunGap(Row) = IF prev = None THEN 0 ELSE Entry(prev, Row.ts, opts.mode, opts.speed)
    BY <1>1, <1>8, RunGapIsEntry DEF ReplayInv
  <2>9. RunGap(Row) = E(n + 1)
    BY <1>3, <2>5, <2>6, <2>7, <2>8
  <2>10. \A i \in 1..n : waits[i] = E(i)
    BY <2>3
  <2> HIDE DEF E, f
  <2>11. \A i \in 1..(n + 1) : waits'[i] = E(i)
    <3>1. ASSUME NEW i \in 1..(n + 1) PROVE waits'[i] = E(i)
      <4>1. CASE i \in 1..n
        BY <1>7, <2>10, <4>1
      <4>2. CASE i = n + 1
        BY <1>7, <2>9, <4>2
      <4> QED
        BY <1>3, <4>1, <4>2
    <3> QED
      BY <3>1
  <2> QED
    BY <1>7, <2>4, <2>11
<1>9. PaceMatchesSchedule'
  BY <1>1, <1>8 DEF PaceMatchesSchedule
<1>10. prev' = Ordered(Selected')[Len(waits')].ts
  BY <1>1, <1>2, <1>6, <1>7
<1>11. Len(waits') <= Cardinality(Selected')
  BY <1>2, <1>6, <1>7
<1>12. Len(waits') = CountBelow(All', Selected', Looked') + 1
  BY <1>2, <1>5, <1>7
<1> QED
  BY <1>1, <1>7, <1>9, <1>10, <1>11, <1>12 DEF PaceInv

LEMMA PaceStep ==
    ASSUME ReplayInv, ReplayNext, ~grew'
    PROVE  PaceInv'
<1>t. ReplayTyped /\ PagesInv /\ RowsInv
  BY DEF ReplayInv, ReplayTyped
<1>g. ASSUME grew' = grew
      PROVE  PlanInv /\ PaceInv /\ ~grew
  BY <1>g DEF ReplayInv
<1>1. CASE Start
  <2>1. /\ rows' = rows /\ opts' = opts /\ pc' = "next" /\ waits' = <<>> /\ prev' = None
        /\ status' = NewStatus
    BY <1>1 DEF Start
  <2>2. Looked' = 0
    BY <2>1 DEF Looked, NewStatus
  <2>3. All' = All /\ Selected' = Selected
    BY <2>1, SameSession
  <2>4. CountBelow(All, Selected, 0) = 0 /\ Cardinality(Selected) \in Nat
    BY <1>t, CountBelowType, SelectedRows, PartKeyed
  <2>5. Len(waits') = 0 /\ Len(waits') <= Cardinality(Selected')
    BY <2>1, <2>3, <2>4
  <2>6. PaceMatchesSchedule'
    <3>1. PacedTimestamps' = [i \in 1..0 |-> Ordered(Selected')[i]]
      BY <2>5 DEF PacedTimestamps
    <3>2. \A m, s : BuildSchedule(PacedTimestamps', m, s) = <<>>
      BY <3>1 DEF BuildSchedule
    <3> QED
      BY <2>1, <3>2 DEF PaceMatchesSchedule
  <2> QED
    BY <2>1, <2>2, <2>3, <2>4, <2>5, <2>6 DEF PaceInv
<1>2. CASE FetchPage
  <2>1. UNCHANGED <<rows, opts, waits, prev, grew, status>> /\ pc = "next" /\ pc' \in {"next", "finish"}
    BY <1>2 DEF FetchPage
  <2>2. Looked' = Looked
    BY <2>1 DEF Looked
  <2>3. Len(waits) = CountBelow(All, Selected, Looked)
    BY <1>g, <2>1 DEF PaceInv
  <2> QED
    BY <1>g, <2>1, <2>2, <2>3, PaceSame
<1>3. CASE StopSeen \/ StopAtLimit \/ SenderRaises \/ Finish
  <2>1. UNCHANGED <<rows, opts, waits, prev, grew>> /\ pc' \in {"finish", "dead"}
    BY <1>3 DEF StopSeen, StopAtLimit, SenderRaises, Finish
  <2> QED
    BY <1>g, <2>1, PaceSame
<1>4. CASE StopCall \/ StopReturns
  <2>1. UNCHANGED <<rows, opts, waits, prev, grew, pc, status>>
    BY <1>4 DEF StopCall, StopReturns
  <2>2. Looked' = Looked
    BY <2>1 DEF Looked
  <2> QED
    BY <1>g, <2>1, <2>2, PaceSame DEF PaceInv
<1>5. CASE SkipRow
  <2>1. /\ UNCHANGED <<rows, opts, waits, prev, grew>> /\ pc = "next" /\ pc' = "next"
        /\ Looked' = Looked + 1
    BY <1>5, <1>t, LookedStep DEF SkipRow
  <2>2. page # <<>> /\ Row \notin Selected
    BY <1>5, <1>g, <2>1, SkippedRow
  <2>3. CountBelow(All, Selected, Looked + 1) = CountBelow(All, Selected, Looked)
    BY <1>t, <1>g, <2>1, <2>2, RowPlace, CountNext, SelectedRows
  <2>4. Len(waits) = CountBelow(All, Selected, Looked')
    BY <1>g, <2>1, <2>3 DEF PaceInv
  <2> QED
    BY <1>g, <2>1, <2>4, PaceSame
<1>6. CASE PaceRow
  BY <1>6, <1>g, PaceOne DEF PaceRow
<1>7. CASE Wake
  <2>1. /\ UNCHANGED <<rows, opts, waits, prev, grew>> /\ pc = "asleep" /\ Looked' = Looked
        /\ pc' \in {"finish", "prepare"}
    BY <1>7, <1>t, LookedStep DEF Wake, AfterSleep
  <2>2. Len(waits) = CountBelow(All, Selected, Looked) + 1
    BY <1>g, <2>1 DEF PaceInv
  <2> QED
    BY <1>g, <2>1, <2>2, PaceSame
<1>8. CASE FailRow \/ SendRow
  <2>1. /\ UNCHANGED <<rows, opts, waits, prev, grew>> /\ pc = "prepare" /\ pc' = "next"
        /\ Looked' = Looked + 1
    BY <1>8, <1>t, LookedStep DEF FailRow, SendRow
  <2>2. page # <<>> /\ Row \in Selected
    BY <1>t, <1>g, <2>1, RowPlace DEF PlanInv, ReplayTyped
  <2>3. CountBelow(All, Selected, Looked + 1) = CountBelow(All, Selected, Looked) + 1
    BY <1>t, <1>g, <2>1, <2>2, RowPlace, CountNext, SelectedRows
  <2>4. Len(waits) = CountBelow(All, Selected, Looked')
    BY <1>g, <2>1, <2>3 DEF PaceInv
  <2> QED
    BY <1>g, <2>1, <2>4, PaceSame
<1>9. CASE CaptureCommits
  BY <1>9 DEF CaptureCommits
<1> QED
  BY <1>1, <1>2, <1>3, <1>4, <1>5, <1>6, <1>7, <1>8, <1>9 DEF ReplayNext, ReplayThread

-----------------------------------------------------------------------------
(* The invariant holds at the start and in every step.                      *)

LEMMA ReplayInvInit ==
    ASSUME ReplayInit
    PROVE  ReplayInv
<1>1. PICK o \in Options : RequestAccepted(o) /\ opts = Request(o)
  BY DEF ReplayInit
<1>2. IsRequest(o) /\ rows \in Sessions
  BY OutAssumption DEF ReplayInit
<1>3. RowsInv
  BY <1>2, OutAssumption DEF RowsInv, All
<1>4. OptsInv
  <2>1. /\ opts.mode = o.mode /\ opts.speed = o.speed /\ opts.maxGap = o.maxGap /\ opts.limit = o.limit
        /\ opts.offset = (IF o.offset < 0 THEN 0 ELSE o.offset)
        /\ o.speed \in Nat /\ o.maxGap \in Nat /\ o.offset \in Int /\ o.limit \in Nat \cup {None}
    BY <1>1, <1>2 DEF Request, IsRequest
  <2>2. o.speed > 0 /\ o.mode \in {"story", "faithful"}
    BY <1>1 DEF RequestAccepted, SpeedAccepted
  <2> QED
    BY <2>1, <2>2 DEF OptsInv
<1>5. /\ page = <<>> /\ key = None /\ pc = "idle" /\ prev = None /\ sent = 0 /\ gap = 0
      /\ status = NewStatus /\ published = NewStatus /\ stopFlag = FALSE /\ caller = "idle" /\ starts = 0
      /\ wire = <<>> /\ waits = <<>> /\ grew = FALSE /\ owed = FALSE
  BY DEF ReplayInit
<1>6. ReplayTypeOK
  <2>1. status \in [packets : Nat, skipped : Nat, failed : Nat, bytes : Nat,
                   stopped : BOOLEAN, error : BOOLEAN]
    BY <1>5 DEF NewStatus
  <2>2. page \in Seq(ToSet(rows)) /\ starts \in 0..MaxStarts
    BY <1>5, OutAssumption
  <2> QED
    BY <1>5, <2>1, <2>2 DEF ReplayTypeOK
<1>7. ReplayTyped
  <2>1. wire \in Seq(Sendable) /\ waits \in Seq(Nat)
    BY <1>5
  <2> QED
    BY <1>3, <1>4, <1>5, <1>6, <2>1 DEF ReplayTyped, SentFramesValid, Alive
<1>8. PagesInv
  BY <1>5 DEF PagesInv, WireInOrder
<1>9. Looked = 0 /\ Len(rows) \in Nat /\ status.packets = 0
  BY <1>3, <1>5, RowsKeyed DEF Looked, NewStatus
<1>10. /\ CountBelow(All, Chosen, 0) = 0 /\ CountBelow(All, Selected, 0) = 0
       /\ Cardinality(Selected) \in Nat
  BY <1>3, CountBelowType, SelectedRows, PartKeyed
<1>11. opts.offset \in Nat /\ opts.limit \in Nat \cup {None}
  BY <1>4 DEF OptsInv
<1>12. PlanInv
  BY <1>5, <1>9, <1>11 DEF PlanInv
<1>13. ProgressInv
  BY <1>5, <1>9, <1>10, <1>11 DEF ProgressInv
<1>14. PaceMatchesSchedule
  <2>1. PacedTimestamps = [i \in 1..0 |-> Ordered(Selected)[i]]
    BY <1>5 DEF PacedTimestamps
  <2>2. \A m, s : BuildSchedule(PacedTimestamps, m, s) = <<>>
    BY <2>1 DEF BuildSchedule
  <2> QED
    BY <1>5, <2>2 DEF PaceMatchesSchedule
<1>15. PaceInv
  BY <1>5, <1>9, <1>10, <1>14 DEF PaceInv
<1> QED
  BY <1>7, <1>8, <1>12, <1>13, <1>15 DEF ReplayInv

LEMMA ReplayInvStep ==
    ASSUME ReplayInv, [ReplayNext]_replayVars
    PROVE  ReplayInv'
<1>1. CASE ReplayNext
  BY <1>1, ReplayTypeStep, PagesStep, PlanStep, ProgressStep, PaceStep DEF ReplayInv
<1>2. CASE UNCHANGED replayVars
  <2>1. UNCHANGED <<opts, rows, page, key, pc, prev, sent, gap, status, published, stopFlag, caller, starts>>
        /\ UNCHANGED <<wire, waits, grew, owed>>
    BY <1>2 DEF replayVars
  <2>2. /\ All' = All /\ RowsInv' /\ OptsInv' /\ Sendable' = Sendable
        /\ Selected' = Selected /\ Chosen' = Chosen /\ \A f : Prepare(f)' = Prepare(f)
    BY <2>1, SameSession DEF ReplayInv, ReplayTyped
  <2>3. Looked' = Looked
    BY <2>1 DEF Looked
  <2>4. ReplayTyped'
    <3>1. ReplayTypeOK'
      BY <2>1, <2>2, Zenon DEF ReplayInv, ReplayTyped, ReplayTypeOK, All
    <3> QED
      BY <2>1, <2>2, <3>1 DEF ReplayInv, ReplayTyped, SentFramesValid, Alive
  <2>5. PagesInv'
    BY <2>1 DEF ReplayInv, PagesInv, WireInOrder
  <2>6. ASSUME ~grew'
        PROVE  PlanInv' /\ ProgressInv' /\ PaceInv'
    <3>1. PlanInv /\ ProgressInv /\ PaceInv
      BY <2>1, <2>6 DEF ReplayInv
    <3>2. PlanInv'
      BY <2>1, <2>3, <3>1, PlaceSame DEF PlanInv
    <3>3. ProgressInv'
      BY <2>1, <2>3, <3>1, ProgressSame DEF ProgressInv
    <3>4. PaceInv'
      BY <2>1, <2>3, <2>6, <3>1, PaceSame DEF PaceInv
    <3> QED
      BY <3>2, <3>3, <3>4
  <2> QED
    BY <2>4, <2>5, <2>6 DEF ReplayInv
<1> QED
  BY <1>1, <1>2

-----------------------------------------------------------------------------
(* What follows from it.                                                    *)

LEMMA WireIsPlanned ==
    ASSUME ReplayInv
    PROVE  WireMatchesPlan
<1>1. SUFFICES ASSUME ~grew, ~opts.dryRun
               PROVE  IsPrefix(wire, Planned) /\ (CleanEnd => wire = Planned)
  BY DEF WireMatchesPlan
<1> DEFINE C == Cardinality(Chosen)
           count == IF opts.limit = None THEN C ELSE AtMost(opts.limit, C)
           P(i) == [row |-> Ordered(Chosen)[i], frame |-> Prepare(Ordered(Chosen)[i].frame)]
<1>2. RowsInv /\ ProgressInv /\ wire \in Seq(Sendable) /\ Looked \in Nat
      /\ opts.limit \in Nat \cup {None} /\ status.packets \in Nat
  BY <1>1, StatusFields DEF ReplayInv, ReplayTyped
<1>3. C \in Nat /\ Len(Ordered(Chosen)) = C /\ CountBelow(All, Chosen, Looked) <= C
      /\ (Looked = Len(rows) => CountBelow(All, Chosen, Looked) = C)
  BY <1>2, SelectedRows, PartKeyed, OrderedIsSeq, CountBelowType
<1>4. Planned = [i \in 1..count |-> P(i)]
  BY <1>3 DEF Planned
<1>5. /\ Len(wire) = status.packets /\ status.packets = CountBelow(All, Chosen, Looked)
      /\ opts.limit # None => status.packets <= opts.limit
      /\ \A i \in DOMAIN wire : wire[i] = P(i)
      /\ CleanEnd => LimitReached \/ Looked = Len(rows)
  BY <1>1, <1>2 DEF ProgressInv, CleanEnd
<1> HIDE DEF P
<1>6. count \in Nat /\ Len(wire) <= count /\ Len(wire) \in Nat
  BY <1>2, <1>3, <1>5 DEF AtMost
<1>7. CleanEnd => Len(wire) = count
  BY <1>2, <1>3, <1>5 DEF AtMost, LimitReached
<1> HIDE DEF C, count
<1>8. Len(Planned) = count
  BY <1>4, <1>6
<1>9. \A i \in 1..Len(wire) : wire[i] = Planned[i]
  BY <1>2, <1>4, <1>5, <1>6
<1>10. SubSeq(wire, 1, Len(wire)) = SubSeq(Planned, 1, Len(wire))
  <2> DEFINE X == Sendable \cup {P(i) : i \in 1..count}
  <2>1. wire \in Seq(X) /\ Planned \in Seq(X)
    BY <1>2, <1>4, <1>6
  <2> HIDE DEF X
  <2> QED
    BY <1>6, <1>8, <1>9, <2>1
<1>11. ASSUME CleanEnd PROVE wire = Planned
  <2>1. wire = [i \in 1..count |-> wire[i]]
    BY <1>2, <1>7, <1>11
  <2> QED
    BY <1>4, <1>7, <1>9, <1>11, <2>1
<1> QED
  BY <1>6, <1>8, <1>10, <1>11 DEF IsPrefix

LEMMA ReplayInvImplies ==
    ASSUME ReplayInv
    PROVE  /\ WireMatchesPlan /\ RowsAccounted /\ WireInOrder
           /\ SentFramesValid /\ PaceMatchesSchedule /\ StopReportsFinal
<1>1. WireMatchesPlan
  BY WireIsPlanned
<1>2. RowsAccounted
  BY DEF RowsAccounted, ReplayInv, ProgressInv, CleanEnd, Looked
<1>3. WireInOrder /\ SentFramesValid /\ StopReportsFinal
  BY DEF ReplayInv, PagesInv, ReplayTyped, StopReportsFinal
<1>4. PaceMatchesSchedule
  BY DEF ReplayInv, PaceInv, PaceMatchesSchedule
<1> QED
  BY <1>1, <1>2, <1>3, <1>4

(* What replay-out puts on the wire, when, and what it reports, is what was *)
(* asked for: for every session, every request, every page size, and        *)
(* whatever is stopped, fails or is committed meanwhile (inject.py 139-206).*)
THEOREM ReplayFaithful == Spec => []ReplayAsAsked
<1> DEFINE Inv == part = "replay" => ReplayInv
<1>1. Init => Inv
  BY ReplayInvInit DEF Init
<1>2. Inv /\ [Next]_vars => Inv'
  <2>1. SUFFICES ASSUME Inv, [Next]_vars, part' = "replay" PROVE ReplayInv'
    OBVIOUS
  <2>2. part = "replay" /\ [ReplayNext]_replayVars
    BY <2>1 DEF Next, vars
  <2> QED
    BY <2>1, <2>2, ReplayInvStep
<1>3. Inv => ReplayAsAsked
  BY ReplayInvImplies DEF ReplayAsAsked
<1> QED
  BY <1>1, <1>2, <1>3, PTL DEF Spec
=============================================================================
