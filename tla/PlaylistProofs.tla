--------------------------- MODULE PlaylistProofs ----------------------------
(***************************************************************************)
(* Proofs about Playlist for any songs, entries, files, loaders and        *)
(* readers, as long as the addresses do not run out (an entry can always   *)
(* be allocated) and the threads that iterate are finitely many.           *)
(*                                                                         *)
(* The first invariant, TypeInv, says who may exist: the members of the    *)
(* list, once each, and what a thread holds.  From it follows, edit by     *)
(* edit, what becomes of the list, and with that the place of an entry is  *)
(* its index and the content of a file is recycled as it should be.  The   *)
(* second one, SaveInv, says how far Save has come on its way through a    *)
(* list that others may edit meanwhile.                                    *)
(***************************************************************************)
EXTENDS Playlist, FiniteSetTheorems, FunctionTheorems, SequenceTheorems, WellFoundedInduction, TLAPS

(***************************************************************************)
(* Lists without duplicates.                                               *)
(***************************************************************************)

Distinct(s) == \A i, j \in DOMAIN s : s[i] = s[j] => i = j

\* s is the list of an object: entries, each at one place.
IsList(s) == s \in Seq(Entries) /\ Distinct(s)

\* Sequences are functions on an interval.
LEMMA SeqIs ==
  ASSUME NEW s, IsList(s)
  PROVE  /\ Len(s) \in Nat /\ DOMAIN s = 1 .. Len(s)
         /\ \A i \in 1 .. Len(s) : s[i] \in Entries
         /\ \A i, j \in 1 .. Len(s) : s[i] = s[j] => i = j
         /\ ToSet(s) \in SUBSET Entries
         /\ \A e : Contains(s, e) <=> e \in ToSet(s)
         /\ \A e : e \in ToSet(s) <=> \E i \in 1 .. Len(s) : s[i] = e
<1>1. Len(s) \in Nat /\ DOMAIN s = 1 .. Len(s) /\ \A i \in 1 .. Len(s) : s[i] \in Entries
  BY DEF IsList
<1> QED BY <1>1 DEF IsList, Distinct, ToSet, Contains

\* An entry is at its place.
LEMMA PosIs ==
  ASSUME NEW s, IsList(s)
  PROVE  /\ \A i \in 1 .. Len(s) : Pos(s, s[i]) = i
         /\ \A e \in ToSet(s) : Pos(s, e) \in 1 .. Len(s) /\ s[Pos(s, e)] = e
<1>1. ASSUME NEW e \in ToSet(s) PROVE Pos(s, e) \in 1 .. Len(s) /\ s[Pos(s, e)] = e
  <2>1. \E i \in DOMAIN s : s[i] = e
    BY DEF ToSet
  <2>2. Pos(s, e) \in DOMAIN s /\ s[Pos(s, e)] = e
    BY <2>1 DEF Pos
  <2> QED BY <2>2, SeqIs
<1>2. ASSUME NEW i \in 1 .. Len(s) PROVE Pos(s, s[i]) = i
  <2>1. s[i] \in ToSet(s)
    BY SeqIs
  <2> QED BY <1>1, <2>1, SeqIs
<1> QED BY <1>1, <1>2

\* Next of an entry is the entry at the next place.
LEMMA NextOfIs ==
  ASSUME NEW s, IsList(s), NULL \notin Entries
  PROVE  /\ NextOf(s, NULL) = IF Len(s) = 0 THEN NULL ELSE s[1]
         /\ \A i \in 1 .. Len(s) : NextOf(s, s[i]) = IF i = Len(s) THEN NULL ELSE s[i + 1]
<1>1. NextOf(s, NULL) = IF Len(s) = 0 THEN NULL ELSE s[1]
  <2>1. s = <<>> <=> Len(s) = 0
    BY EmptySeq DEF IsList
  <2>2. Head(s) = s[1]
    BY DEF IsList
  <2> QED BY <2>1, <2>2 DEF NextOf
<1>2. ASSUME NEW i \in 1 .. Len(s) PROVE NextOf(s, s[i]) = IF i = Len(s) THEN NULL ELSE s[i + 1]
  <2>1. s[i] # NULL /\ Len(s) \in 1 .. Len(s) /\ Last(s) = s[Len(s)]
    BY SeqIs DEF Last
  <2>2. s[i] = Last(s) <=> i = Len(s)
    BY <2>1, SeqIs
  <2>3. Pos(s, s[i]) = i
    BY PosIs
  <2> QED BY <2>1, <2>2, <2>3 DEF NextOf
<1> QED BY <1>1, <1>2

\* A list without one of its entries.
LEMMA WithoutIs ==
  ASSUME NEW s, IsList(s), NEW p \in 1 .. Len(s)
  PROVE  /\ IsList(Without(s, s[p])) /\ Len(Without(s, s[p])) = Len(s) - 1
         /\ \A i \in 1 .. Len(s) - 1 : Without(s, s[p])[i] = IF i < p THEN s[i] ELSE s[i + 1]
         /\ ToSet(Without(s, s[p])) = ToSet(s) \ {s[p]}
<1> DEFINE n == Len(s)
           a == SubSeq(s, 1, p - 1)
           b == SubSeq(s, p + 1, n)
           w == Without(s, s[p])
<1>1. n \in Nat /\ p - 1 \in 0 .. n /\ p + 1 \in 1 .. n + 1 /\ s \in Seq(Entries)
  BY SeqIs DEF IsList
<1>2. a \in Seq(Entries) /\ Len(a) = p - 1 /\ \A i \in 1 .. p - 1 : a[i] = s[i]
  <2>1. \A i \in 1 .. p - 1 : i \in 1 .. n
    BY <1>1
  <2> QED BY <1>1, <2>1
<1>3. b \in Seq(Entries) /\ Len(b) = n - p /\ \A i \in 1 .. n - p : b[i] = s[i + p]
  <2>1. \A i \in 1 .. n - p : i + p \in 1 .. n /\ p + 1 + i - 1 = i + p
    BY <1>1
  <2>2. p <= n
    OBVIOUS
  <2> QED BY <1>1, <2>1, <2>2
<1>4. w = a \o b
  BY PosIs DEF Without, RemoveAt
<1> HIDE DEF a, b, w
<1>5. w \in Seq(Entries) /\ Len(w) = n - 1
      /\ \A i \in 1 .. n - 1 : w[i] = IF i <= p - 1 THEN a[i] ELSE b[i - (p - 1)]
  <2>1. (p - 1) + (n - p) = n - 1 /\ p - 1 \in Nat /\ n - p \in Nat
    BY <1>1
  <2>2. a \o b \in Seq(Entries) /\ Len(a \o b) = Len(a) + Len(b)
        /\ \A i \in 1 .. Len(a) + Len(b) : (a \o b)[i] = IF i <= Len(a) THEN a[i] ELSE b[i - Len(a)]
    BY <1>2, <1>3, ConcatProperties
  <2> HIDE DEF n
  <2> QED BY <1>2, <1>3, <1>4, <2>1, <2>2
<1>6. \A i \in 1 .. n - 1 : w[i] = IF i < p THEN s[i] ELSE s[i + 1]
  <2>1. TAKE i \in 1 .. n - 1
  <2>2. CASE i < p
    <3>1. i \in 1 .. p - 1 /\ i <= p - 1
      BY <1>1, <2>2
    <3>2. w[i] = a[i]
      BY <1>5, <3>1
    <3> QED BY <1>2, <2>2, <3>1, <3>2
  <2>3. CASE ~ (i < p)
    <3>1. i - (p - 1) \in 1 .. n - p /\ i - (p - 1) + p = i + 1 /\ ~ (i <= p - 1)
      BY <1>1, <2>3
    <3> QED BY <1>3, <1>5, <2>3, <3>1
  <2> QED BY <2>2, <2>3
<1>7. Distinct(w)
  <2>1. \A i \in 1 .. n - 1 : i \in 1 .. n /\ i + 1 \in 1 .. n
    BY <1>1
  <2>2. DOMAIN w = 1 .. n - 1
    BY <1>5
  <2>3. \A i, j \in 1 .. n : s[i] = s[j] => i = j
    BY SeqIs
  <2>4. ASSUME NEW i \in 1 .. n - 1, NEW j \in 1 .. n - 1, w[i] = w[j] PROVE i = j
    <3> HIDE DEF n
    <3> QED BY <1>1, <1>6, <2>1, <2>3, <2>4
  <2> QED BY <2>2, <2>4 DEF Distinct
<1>8. IsList(w)
  BY <1>5, <1>7 DEF IsList
<1>9. ToSet(w) = ToSet(s) \ {s[p]}
  <2>1. ASSUME NEW e \in ToSet(w) PROVE e \in ToSet(s) /\ e # s[p]
    <3>1. PICK i \in 1 .. n - 1 : w[i] = e
      BY <1>5, <1>8, <2>1, SeqIs
    <3>2. CASE i < p
      <4>1. i \in 1 .. n /\ e = s[i] /\ i # p
        BY <1>1, <1>6, <3>1, <3>2
      <4> QED BY <4>1, SeqIs
    <3>3. CASE ~ (i < p)
      <4>1. i + 1 \in 1 .. n /\ e = s[i + 1] /\ i + 1 # p
        BY <1>1, <1>6, <3>1, <3>3
      <4> QED BY <4>1, SeqIs
    <3> QED BY <3>2, <3>3
  <2>2. ASSUME NEW e \in ToSet(s), e # s[p] PROVE e \in ToSet(w)
    <3>1. PICK i \in 1 .. n : s[i] = e
      BY <2>2, SeqIs
    <3>2. CASE i < p
      <4>1. i \in 1 .. n - 1 /\ w[i] = e
        BY <1>1, <1>6, <3>1, <3>2
      <4> QED BY <1>5, <1>8, <4>1, SeqIs
    <3>3. CASE i > p
      <4>1. i - 1 \in 1 .. n - 1 /\ ~ (i - 1 < p) /\ i - 1 + 1 = i
        BY <1>1, <3>1, <3>3
      <4>2. w[i - 1] = e
        BY <1>6, <3>1, <4>1
      <4> QED BY <1>5, <1>8, <4>1, <4>2, SeqIs
    <3> QED BY <1>1, <2>2, <3>1, <3>2, <3>3
  <2> QED BY <2>1, <2>2
<1> QED BY <1>5, <1>6, <1>8, <1>9 DEF w, n

\* The place an entry is inserted at.
Place(s, before) == IF before = NULL THEN Len(s) + 1 ELSE Pos(s, before)

\* A list with one more entry.
LEMMA InsertIs ==
  ASSUME NEW s, IsList(s), NEW e \in Entries, e \notin ToSet(s), NULL \notin Entries,
         NEW before \in ToSet(s) \cup {NULL}
  PROVE  LET p == Place(s, before)
             w == Insert(s, e, before)
         IN  /\ p \in 1 .. Len(s) + 1 /\ (before # NULL => p <= Len(s) /\ s[p] = before)
             /\ IsList(w) /\ Len(w) = Len(s) + 1
             /\ \A i \in 1 .. Len(s) + 1 : w[i] = IF i < p THEN s[i] ELSE IF i = p THEN e ELSE s[i - 1]
             /\ ToSet(w) = ToSet(s) \cup {e}
<1> DEFINE n == Len(s)
           p == Place(s, before)
           w == Insert(s, e, before)
           a == SubSeq(s, 1, p - 1)
           b == SubSeq(s, p, n)
<1>1. n \in Nat /\ s \in Seq(Entries)
  BY SeqIs DEF IsList
<1>2. p \in 1 .. n + 1 /\ (before # NULL => p <= n /\ s[p] = before)
  BY <1>1, PosIs DEF Place
<1>3. w \in Seq(Entries) /\ Len(w) = n + 1
      /\ \A i \in 1 .. n + 1 : w[i] = IF i < p THEN s[i] ELSE IF i = p THEN e ELSE s[i - 1]
  <2>1. CASE before = NULL
    <3>1. w = Append(s, e) /\ p = n + 1
      BY <2>1 DEF Insert, Place
    <3> QED BY <1>1, <3>1
  <2>2. CASE before # NULL
    <3>0. p = Pos(s, before) /\ p \in 1 .. n
      BY <1>1, <1>2, <2>2 DEF Place
    <3>1. w = a \o <<e>> \o b /\ p \in 1 .. n
      <4>1. w = InsertAt(s, Pos(s, before), e)
        BY <2>2 DEF Insert
      <4>2. w = InsertAt(s, p, e)
        BY <3>0, <4>1
      <4> HIDE DEF w, p
      <4> QED BY <3>0, <4>2 DEF InsertAt
    <3>2. a \in Seq(Entries) /\ Len(a) = p - 1 /\ \A i \in 1 .. p - 1 : a[i] = s[i]
      <4>1. \A i \in 1 .. p - 1 : i \in 1 .. n
        BY <1>1, <3>1
      <4> HIDE DEF p
      <4> QED BY <1>1, <3>1, <4>1
    <3>3. b \in Seq(Entries) /\ Len(b) = n + 1 - p /\ \A i \in 1 .. n + 1 - p : b[i] = s[i + p - 1]
      <4>1. \A i \in 1 .. n + 1 - p : i + p - 1 \in 1 .. n /\ p + i - 1 = i + p - 1
        BY <1>1, <3>1
      <4> HIDE DEF p
      <4> QED BY <1>1, <3>1, <4>1
    <3> HIDE DEF a, b, w, p, n
    <3>4. a \o <<e>> \in Seq(Entries) /\ Len(a \o <<e>>) = p
          /\ \A i \in 1 .. p : (a \o <<e>>)[i] = IF i < p THEN s[i] ELSE e
      BY <3>1, <3>2
    <3> DEFINE c == a \o <<e>>
    <3> HIDE DEF c
    <3>5. c \o b \in Seq(Entries) /\ Len(c \o b) = Len(c) + Len(b)
          /\ \A i \in 1 .. Len(c) + Len(b) : (c \o b)[i] = IF i <= Len(c) THEN c[i] ELSE b[i - Len(c)]
      BY <3>3, <3>4, ConcatProperties DEF c
    <3>6. Len(c) = p /\ Len(c) + Len(b) = n + 1 /\ w = c \o b
      <4>1. Len(c) = p
        BY <3>4 DEF c
      <4>2. w = c \o b
        BY <3>1 DEF c
      <4>3. Len(b) = n + 1 - p
        BY <3>3
      <4>4. p + (n + 1 - p) = n + 1
        BY <1>1, <3>0
      <4> QED BY <4>1, <4>2, <4>3, <4>4
    <3>7. ASSUME NEW i \in 1 .. n + 1 PROVE w[i] = IF i < p THEN s[i] ELSE IF i = p THEN e ELSE s[i - 1]
      <4>1. CASE i <= p
        <5>1. i \in 1 .. p /\ w[i] = c[i]
          BY <1>1, <3>1, <3>5, <3>6, <4>1
        <5> QED BY <3>4, <4>1, <5>1, <3>1 DEF c
      <4>2. CASE i > p
        <5>1. i - p \in 1 .. n + 1 - p /\ w[i] = b[i - p] /\ i - p + p - 1 = i - 1
          BY <1>1, <3>1, <3>5, <3>6, <4>2
        <5> QED BY <3>3, <4>2, <5>1, <3>1
      <4>3. i <= p \/ i > p
        BY <1>1, <3>0
      <4> QED BY <4>1, <4>2, <4>3
    <3> QED BY <3>5, <3>6, <3>7
  <2> QED BY <2>1, <2>2
<1> HIDE DEF n, p, w
<1>4. \A i \in 1 .. n : s[i] # e
  BY SeqIs DEF n
<1>5. \A i, j \in 1 .. n : s[i] = s[j] => i = j
  BY SeqIs DEF n
<1>6. ASSUME NEW i \in 1 .. n + 1, NEW j \in 1 .. n + 1, w[i] = w[j] PROVE i = j
  <2>1. i = p \/ (i < p /\ i \in 1 .. n) \/ (i > p /\ i - 1 \in 1 .. n)
    BY <1>1, <1>2
  <2>2. j = p \/ (j < p /\ j \in 1 .. n) \/ (j > p /\ j - 1 \in 1 .. n)
    BY <1>1, <1>2
  <2> QED BY <1>1, <1>2, <1>3, <1>4, <1>5, <1>6, <2>1, <2>2
<1>7. IsList(w)
  <2>1. DOMAIN w = 1 .. n + 1
    BY <1>3
  <2> QED BY <1>3, <1>6, <2>1 DEF IsList, Distinct
<1>8. ToSet(w) = ToSet(s) \cup {e}
  <2>1. ASSUME NEW x \in ToSet(w) PROVE x \in ToSet(s) \cup {e}
    <3>1. PICK i \in 1 .. n + 1 : w[i] = x
      BY <1>3, <1>7, <2>1, SeqIs
    <3>2. i = p \/ (i < p /\ i \in 1 .. n) \/ (i > p /\ i - 1 \in 1 .. n)
      BY <1>1, <1>2
    <3>3. x = e \/ \E j \in 1 .. n : s[j] = x
      BY <1>1, <1>2, <1>3, <3>1, <3>2
    <3> QED BY <3>3, SeqIs DEF n
  <2>2. ASSUME NEW x \in ToSet(s) PROVE x \in ToSet(w)
    <3>1. PICK i \in 1 .. n : s[i] = x
      BY <2>2, SeqIs DEF n
    <3>2. i \in 1 .. n + 1 /\ i + 1 \in 1 .. n + 1 /\ i + 1 - 1 = i
      BY <1>1
    <3>3. w[i] = x \/ w[i + 1] = x
      BY <1>1, <1>2, <1>3, <3>1, <3>2
    <3> QED BY <1>3, <1>7, <3>2, <3>3, SeqIs
  <2>3. e \in ToSet(w)
    <3>1. w[p] = e
      BY <1>2, <1>3
    <3> QED BY <1>2, <1>3, <1>7, <3>1, SeqIs
  <2> QED BY <2>1, <2>2, <2>3
<1> QED BY <1>2, <1>3, <1>7, <1>8 DEF n, p, w

(***************************************************************************)
(* UpdateCollection is a fold, that is a function that solves a recursive  *)
(* equation.  It exists, so the fold has the value the loop in the code    *)
(* comes to.                                                               *)
(***************************************************************************)

\* A set of numbers that is not empty has a least one.
LEMMA LeastElement ==
  ASSUME NEW S \in SUBSET Nat, S # {}
  PROVE  \E x \in S : \A y \in S : x <= y
<1>1. PICK x \in S : \A y \in S : <<y, x>> \notin OpToRel(<, Nat)
  BY NatLessThanWellFounded, WFMin
<1>2. \A y \in Nat : y < x => <<y, x>> \in OpToRel(<, Nat)
  BY DEF OpToRel
<1>3. \A y \in S : ~ (y < x)
  BY <1>1, <1>2, Zenon
<1> QED BY <1>3

\* Induction up to n, for a set.
LEMMA Upwards ==
  ASSUME NEW n \in Nat, NEW D, 0 \in D, \A i \in 1 .. n : i - 1 \in D => i \in D
  PROVE  \A i \in 0 .. n : i \in D
<1> DEFINE N == {i \in 0 .. n : i \notin D}
<1>1. ASSUME N # {} PROVE FALSE
  <2>1. PICK m \in N : \A k \in N : m <= k
    <3>1. N \in SUBSET Nat
      OBVIOUS
    <3> HIDE DEF N
    <3> QED BY <1>1, <3>1, LeastElement
  <2>2. m \in 0 .. n /\ m \notin D /\ m # 0
    BY <2>1
  <2>3. m - 1 \in N
    BY <2>2
  <2> QED BY <2>1, <2>2, <2>3
<1> QED BY <1>1

\* Max chooses the greatest index.
LEMMA MaxIs ==
  ASSUME NEW n \in Nat, NEW s \in SUBSET (1 .. n), s # {}
  PROVE  Max(s) \in s /\ \A y \in s : y <= Max(s)
<1> DEFINE N == {n - x : x \in s}
<1>1. N \in SUBSET Nat /\ N # {}
  <2>1. \A x \in s : n - x \in Nat
    OBVIOUS
  <2> QED BY <2>1
<1>2. PICK m \in N : \A k \in N : m <= k
  <2> HIDE DEF N
  <2> QED BY <1>1, LeastElement
<1>3. PICK x \in s : m = n - x
  BY <1>2
<1>4. \A y \in s : x >= y
  <2>1. TAKE y \in s
  <2>2. n - y \in N
    OBVIOUS
  <2>3. n - x <= n - y
    BY <1>2, <1>3, <2>2
  <2> QED BY <2>3
<1>5. Max(s) \in s /\ \A y \in s : Max(s) >= y
  BY <1>4 DEF Max
<1> QED BY <1>5

\* h solves the equation FoldLeft chooses a solution of.
IsFold(h, base, s) ==
  h = [x \in SUBSET DOMAIN s |-> IF x = {} THEN base ELSE Recycle(h[x \ {Max(x)}], s[Max(x)])]

\* The equation of the fold has a solution: by the number of the indices.
LEMMA FoldExists ==
  ASSUME NEW STATE base, NEW s, NEW n \in Nat, DOMAIN s = 1 .. n
  PROVE  \E h : IsFold(h, base, s)
<1> DEFINE S == DOMAIN s
           Small(k) == {x \in SUBSET S : Cardinality(x) <= k}
           Upto(k, h) == h = [x \in Small(k) |-> IF x = {} THEN base ELSE Recycle(h[x \ {Max(x)}], s[Max(x)])]
           D == {k \in 0 .. n : \E h : Upto(k, h)}
<1>0. IsFiniteSet(S) /\ Cardinality(S) = n
  BY FS_Interval
<1>1. \A x \in SUBSET S : IsFiniteSet(x) /\ Cardinality(x) \in Nat /\ Cardinality(x) <= n
  BY <1>0, FS_Subset, FS_CardinalityType
<1>2. \A x \in SUBSET S : x # {} => Max(x) \in x /\ Cardinality(x \ {Max(x)}) = Cardinality(x) - 1
  <2>1. TAKE x \in SUBSET S
  <2>2. x # {} => Max(x) \in x
    BY MaxIs
  <2> QED BY <1>1, <2>2, FS_RemoveElement
<1>3. \A x \in SUBSET S : Cardinality(x) = 0 <=> x = {}
  BY <1>1, FS_EmptySet
<1> HIDE DEF S
<1>4. 0 \in D
  <2> DEFINE h == [x \in Small(0) |-> base]
  <2>1. \A x \in Small(0) : x = {}
    BY <1>1, <1>3
  <2>2. Upto(0, h)
    BY <2>1
  <2> HIDE DEF Upto, h
  <2> QED BY <2>2
<1>5. ASSUME NEW k \in 1 .. n, k - 1 \in D PROVE k \in D
  <2>1. PICK h : Upto(k - 1, h)
    <3> HIDE DEF Upto
    <3> QED BY <1>5
  <2> DEFINE g == [x \in Small(k) |-> IF x = {} THEN base ELSE Recycle(h[x \ {Max(x)}], s[Max(x)])]
  <2>5. \A x \in Small(k - 1) : x \in Small(k) /\ g[x] = h[x]
    <3>1. TAKE x \in Small(k - 1)
    <3>2. x \in Small(k)
      BY <1>1
    <3>3. h[x] = IF x = {} THEN base ELSE Recycle(h[x \ {Max(x)}], s[Max(x)])
      BY <2>1
    <3> HIDE DEF Small
    <3> QED BY <3>2, <3>3
  <2>6. \A x \in Small(k) : x # {} => x \ {Max(x)} \in Small(k - 1)
    BY <1>1, <1>2
  <2>7. \A x \in Small(k) : g[x] = IF x = {} THEN base ELSE Recycle(g[x \ {Max(x)}], s[Max(x)])
    <3>1. TAKE x \in Small(k)
    <3>2. g[x] = IF x = {} THEN base ELSE Recycle(h[x \ {Max(x)}], s[Max(x)])
      OBVIOUS
    <3> HIDE DEF g, Small
    <3> QED BY <2>5, <2>6, <3>2
  <2>8. Upto(k, g)
    <3>1. g = [x \in Small(k) |-> g[x]]
      OBVIOUS
    <3> HIDE DEF g, Small
    <3> QED BY <2>7, <3>1
  <2> HIDE DEF Upto, g
  <2> QED BY <2>8
<1>6. PICK h : Upto(n, h)
  <2>1. n \in D
    <3> HIDE DEF D
    <3> QED BY <1>4, <1>5, Upwards
  <2> HIDE DEF Upto
  <2> QED BY <2>1
<1>7. Small(n) = SUBSET S
  BY <1>1
<1> QED BY <1>6, <1>7 DEF IsFold, S

\* What UpdateCollection begins with.
Start == [old |-> Items, new |-> <<>>, refTo |-> RefTo, changed |-> FALSE]

\* f[i] is what has become of it after the first i elements of the content.
IsUpdate(f, s) ==
  /\ f[0] = Start
  /\ \A i \in 1 .. Len(s) : f[i] = Recycle(f[i - 1], s[i])

\* UpdateCollection recycles one element of the content after the other.
LEMMA UpdateIs ==
  ASSUME NEW s, NEW n \in Nat, DOMAIN s = 1 .. n, Len(s) = n
  PROVE  \E f : IsUpdate(f, s) /\ UpdateCollection(s) = f[n]
<1> DEFINE E(h) == [x \in SUBSET DOMAIN s |-> IF x = {} THEN Start ELSE Recycle(h[x \ {Max(x)}], s[Max(x)])]
           k == CHOOSE h : h = E(h)
<1>1. UpdateCollection(s) = k[DOMAIN s]
  BY DEF UpdateCollection, FoldLeft, MapThenFoldSet, Start
<1>2. \A h : IsFold(h, Start, s) <=> h = E(h)
  BY DEF IsFold
<1>3. \E h : IsFold(h, Start, s)
  BY FoldExists
<1> HIDE DEF E
<1>4. k = E(k)
  BY <1>2, <1>3
<1> HIDE DEF k
<1>5. \A x \in SUBSET (1 .. n) : k[x] = IF x = {} THEN Start ELSE Recycle(k[x \ {Max(x)}], s[Max(x)])
  BY <1>4 DEF E
<1> DEFINE f == [i \in 0 .. n |-> k[1 .. i]]
<1>6. f[0] = Start
  <2>1. 1 .. 0 = {} /\ {} \in SUBSET (1 .. n)
    OBVIOUS
  <2>2. k[{}] = Start
    BY <1>5, <2>1
  <2>3. f[0] = k[1 .. 0]
    OBVIOUS
  <2> QED BY <2>1, <2>2, <2>3
<1>7. ASSUME NEW i \in 1 .. n PROVE f[i] = Recycle(f[i - 1], s[i])
  <2>1. 1 .. i \in SUBSET (1 .. n) /\ i \in 1 .. i /\ 1 .. i # {}
    OBVIOUS
  <2>2. Max(1 .. i) = i
    <3>1. Max(1 .. i) \in 1 .. i /\ \A y \in 1 .. i : y <= Max(1 .. i)
      BY <2>1, MaxIs
    <3> QED BY <2>1, <3>1
  <2>3. (1 .. i) \ {i} = 1 .. (i - 1)
    OBVIOUS
  <2>4. k[1 .. i] = Recycle(k[1 .. (i - 1)], s[i])
    BY <1>5, <2>1, <2>2, <2>3
  <2> QED BY <2>4
<1>8. UpdateCollection(s) = f[n]
  BY <1>1
<1> HIDE DEF f
<1> QED BY <1>6, <1>7, <1>8 DEF IsUpdate

(***************************************************************************)
(* A step of UpdateCollection.                                             *)
(***************************************************************************)

\* The addresses do not run out.
LEMMA FreeEntry ==
  ASSUME Entries \subseteq Nat, ~ IsFiniteSet(Entries), NEW S \in SUBSET Entries, IsFiniteSet(S)
  PROVE  Min(Entries \ S) \in Entries /\ Min(Entries \ S) \notin S
<1> DEFINE F == Entries \ S
<1>1. F # {}
  <2>1. F = {} => Entries = S
    OBVIOUS
  <2> QED BY <2>1
<1>2. PICK x \in F : \A y \in F : x <= y
  <2>1. F \in SUBSET Nat
    OBVIOUS
  <2> HIDE DEF F
  <2> QED BY <1>1, <2>1, LeastElement
<1> HIDE DEF F
<1>3. Min(F) \in F
  BY <1>2 DEF Min
<1> QED BY <1>3 DEF F

\* What holds of the entries while UpdateCollection runs.
Updating(c) ==
  /\ c = [old |-> c.old, new |-> c.new, refTo |-> c.refTo, changed |-> c.changed]
  /\ IsList(c.old) /\ IsList(c.new) /\ ToSet(c.old) \cap ToSet(c.new) = {}
  /\ ToSet(c.old) \subseteq Member /\ Member \subseteq ToSet(c.old) \cup ToSet(c.new)
  /\ c.refTo \in [Entries -> Songs \cup {NULL}]
  /\ \A e \in Entries : RefTo[e] # NULL => c.refTo[e] = RefTo[e]
  /\ \A e \in ToSet(c.new) : c.refTo[e] # NULL
  /\ IsFiniteSet({e \in Entries : c.refTo[e] # NULL})

\* d is c after the next element of the content, x, has become the entry e.
Recycled(c, d, x, e) ==
  /\ d.new = Append(c.new, e) /\ e \notin ToSet(c.new)
  /\ d.refTo[e] = GetPlayable(x)
  /\ \A y \in Entries : y # e => d.refTo[y] = c.refTo[y]
  /\ c.changed \/ c.new # <<>> => d.changed
  /\ \/ e \in ToSet(c.old) /\ d.refTo = c.refTo /\ ToSet(d.old) = ToSet(c.old) \ {e}
     \/ /\ e \notin Member /\ d.old = c.old
        /\ \A y \in ToSet(c.old) : RefTo[y] # GetPlayable(x)
  /\ x \in ToSet(c.old) => e = x

\* Every member refers to something.
Referring == RefTo \in [Entries -> Songs \cup {NULL}] /\ \A e \in Member : RefTo[e] # NULL

\* Recycling keeps the entries apart, and takes one that fits or a new one.
LEMMA RecycleIs ==
  ASSUME Entries \subseteq Nat, ~ IsFiniteSet(Entries), NULL \notin Entries \cup Songs, Songs \cap Entries = {},
         Referring, NEW c, Updating(c), NEW x, x \in Songs \/ x \in ToSet(c.old)
  PROVE  Updating(Recycle(c, x)) /\ \E e \in Entries : Recycled(c, Recycle(c, x), x, e)
<1> DEFINE same == {i \in DOMAIN c.old : c.refTo[c.old[i]] = GetPlayable(x)}
           match == IF Contains(c.old, x) THEN x ELSE IF same = {} THEN NULL ELSE c.old[Max(same)]
           free == Min({i \in Entries : c.refTo[i] = NULL})
           p == GetPlayable(x)
           d == Recycle(c, x)
<1>1. Member \subseteq Entries /\ ToSet(c.old) \subseteq Entries /\ ToSet(c.new) \subseteq Entries
  BY SeqIs DEF Updating
<1>2. p \in Songs /\ (x \in Songs => x \notin ToSet(c.old))
  <2>1. CASE x \in Songs
    BY <1>1, <2>1 DEF GetPlayable
  <2>2. CASE x \in ToSet(c.old)
    <3>1. x \in Entries /\ x \in Member
      BY <1>1, <2>2 DEF Updating
    <3>2. RefTo[x] \in Songs
      BY <3>1 DEF Referring
    <3> QED BY <3>1, <3>2 DEF GetPlayable
  <2> QED BY <2>1, <2>2
<1>3. \A e \in ToSet(c.old) : c.refTo[e] = RefTo[e] /\ RefTo[e] \in Songs
  BY <1>1 DEF Updating, Referring
<1>4. free \in Entries /\ c.refTo[free] = NULL
  <2> DEFINE S == {e \in Entries : c.refTo[e] # NULL}
  <2>1. S \in SUBSET Entries /\ IsFiniteSet(S)
    BY DEF Updating
  <2>2. {i \in Entries : c.refTo[i] = NULL} = Entries \ S
    OBVIOUS
  <2>3. free = Min(Entries \ S)
    BY <2>2
  <2> HIDE DEF S, free
  <2>4. free \in Entries /\ free \notin S
    BY <2>1, <2>3, FreeEntry
  <2> QED BY <2>4 DEF S
<1>5. free \notin ToSet(c.old) /\ free \notin ToSet(c.new) /\ free \notin Member /\ RefTo[free] = NULL
  <2>1. free \notin ToSet(c.new)
    BY <1>4 DEF Updating
  <2>2. RefTo[free] = NULL
    <3>1. RefTo[free] # NULL => c.refTo[free] = RefTo[free]
      BY <1>4 DEF Updating
    <3> QED BY <1>4, <3>1
  <2>3. free \notin Member
    BY <2>2 DEF Referring
  <2> QED BY <2>1, <2>2, <2>3 DEF Updating
<1>6. Contains(c.old, x) <=> x \in ToSet(c.old)
  BY SeqIs DEF Updating
<1>7. match # NULL => match \in ToSet(c.old) /\ RefTo[match] = p
  <2>1. CASE Contains(c.old, x)
    <3>1. match = x /\ x \in ToSet(c.old) /\ x \in Entries
      BY <1>1, <1>6, <2>1
    <3> QED BY <3>1 DEF GetPlayable
  <2>2. CASE ~ Contains(c.old, x) /\ same # {}
    <3>1. Len(c.old) \in Nat /\ DOMAIN c.old = 1 .. Len(c.old)
      BY SeqIs DEF Updating
    <3>2. same \in SUBSET (1 .. Len(c.old))
      BY <3>1
    <3>3. match = c.old[Max(same)]
      BY <2>2
    <3> HIDE DEF match
    <3>4. Max(same) \in same
      <4> HIDE DEF same
      <4> QED BY <2>2, <3>1, <3>2, MaxIs
    <3>5. Max(same) \in 1 .. Len(c.old) /\ c.refTo[match] = p
      <4> DEFINE m == Max(same)
      <4>1. m \in same
        BY <3>4
      <4>2. match = c.old[m]
        BY <3>3
      <4> HIDE DEF m
      <4>3. m \in 1 .. Len(c.old) /\ c.refTo[match] = p
        BY <3>1, <4>1, <4>2
      <4> QED BY <4>3 DEF m
    <3> HIDE DEF same
    <3>6. match \in ToSet(c.old)
      BY <3>3, <3>5, SeqIs DEF Updating
    <3> QED BY <1>3, <3>5, <3>6
  <2>3. CASE ~ Contains(c.old, x) /\ same = {}
    BY <2>3
  <2> QED BY <2>1, <2>2, <2>3
<1>8. match = NULL => x \notin ToSet(c.old) /\ \A y \in ToSet(c.old) : RefTo[y] # p
  <2> SUFFICES ASSUME match = NULL PROVE x \notin ToSet(c.old) /\ \A y \in ToSet(c.old) : RefTo[y] # p
    OBVIOUS
  <2>1. x \notin ToSet(c.old)
    <3>1. x \in ToSet(c.old) => x \in Entries /\ match = x
      BY <1>1, <1>6
    <3> QED BY <3>1
  <2>2. same = {}
    <3> SUFFICES ASSUME same # {} PROVE FALSE
      OBVIOUS
    <3>1. Len(c.old) \in Nat /\ DOMAIN c.old = 1 .. Len(c.old) /\ \A i \in 1 .. Len(c.old) : c.old[i] \in Entries
      BY SeqIs DEF Updating
    <3>2. same \in SUBSET (1 .. Len(c.old))
      BY <3>1
    <3>3. match = c.old[Max(same)]
      BY <1>6, <2>1
    <3> HIDE DEF same, match
    <3>4. Max(same) \in same
      BY <3>1, <3>2, MaxIs
    <3>5. Max(same) \in 1 .. Len(c.old)
      BY <3>2, <3>4
    <3> QED BY <3>1, <3>3, <3>5
  <2>3. ASSUME NEW y \in ToSet(c.old), RefTo[y] = p PROVE FALSE
    <3>1. PICK i \in DOMAIN c.old : c.old[i] = y
      BY DEF ToSet
    <3>2. c.refTo[c.old[i]] = p
      BY <1>3, <2>3, <3>1
    <3>3. i \in same
      BY <3>1, <3>2
    <3> QED BY <2>2, <3>3
  <2> QED BY <2>1, <2>3
<1>9. d = IF match = NULL
          THEN [c EXCEPT !.new = Append(@, free), !.refTo[free] = p, !.changed = TRUE]
          ELSE [c EXCEPT !.old = Without(@, match), !.new = Append(@, match),
                         !.changed = @ \/ c.new # <<>> \/ match # Last(c.old)]
  BY DEF Recycle
<1> HIDE DEF match, free, p, d, same
<1>10. ASSUME NEW e \in Entries, e \notin ToSet(c.new)
       PROVE  IsList(Append(c.new, e)) /\ ToSet(Append(c.new, e)) = ToSet(c.new) \cup {e}
  <2>1. NULL \in ToSet(c.new) \cup {NULL} /\ Insert(c.new, e, NULL) = Append(c.new, e)
    BY DEF Insert
  <2>2. IsList(c.new)
    BY DEF Updating
  <2>3. IsList(Insert(c.new, e, NULL)) /\ ToSet(Insert(c.new, e, NULL)) = ToSet(c.new) \cup {e}
    BY <1>10, <2>1, <2>2, InsertIs
  <2> QED BY <2>1, <2>3
<1>11. CASE match = NULL
  <2>1. d = [old |-> c.old, new |-> Append(c.new, free), refTo |-> [c.refTo EXCEPT ![free] = p], changed |-> TRUE]
    BY <1>9, <1>11 DEF Updating
  <2>2. d.old = c.old /\ d.new = Append(c.new, free) /\ d.refTo = [c.refTo EXCEPT ![free] = p] /\ d.changed = TRUE
        /\ d = [old |-> d.old, new |-> d.new, refTo |-> d.refTo, changed |-> d.changed]
    BY <2>1
  <2>3. d.refTo[free] = p /\ \A y \in Entries : y # free => d.refTo[y] = c.refTo[y]
    BY <1>4, <2>2 DEF Updating
  <2>4. d.refTo \in [Entries -> Songs \cup {NULL}]
    BY <1>2, <1>4, <2>2 DEF Updating
  <2>5. IsFiniteSet({e \in Entries : d.refTo[e] # NULL})
    <3> DEFINE S == {e \in Entries : c.refTo[e] # NULL}
    <3>1. {e \in Entries : d.refTo[e] # NULL} = S \cup {free}
      BY <1>2, <1>4, <2>3
    <3>2. IsFiniteSet(S)
      BY DEF Updating
    <3> HIDE DEF S
    <3> QED BY <3>1, <3>2, FS_AddElement
  <2>6. IsList(d.new) /\ ToSet(d.new) = ToSet(c.new) \cup {free}
    BY <1>4, <1>5, <1>10, <2>2
  <2>7. \A e \in ToSet(d.new) : d.refTo[e] # NULL
    <3>1. TAKE e \in ToSet(d.new)
    <3>2. CASE e = free
      BY <1>2, <2>3, <3>2
    <3>3. CASE e # free
      <4>1. e \in ToSet(c.new) /\ e \in Entries
        BY <1>1, <2>6, <3>3
      <4> QED BY <2>3, <3>3, <4>1 DEF Updating
    <3> QED BY <3>2, <3>3
  <2>8. \A e \in Entries : RefTo[e] # NULL => d.refTo[e] = RefTo[e]
    BY <1>5, <2>3 DEF Updating
  <2>9. IsList(d.old) /\ ToSet(d.old) = ToSet(c.old)
    BY <2>2 DEF Updating
  <2>10. Updating(d)
    <3>1. ToSet(d.old) \cap ToSet(d.new) = {} /\ ToSet(d.old) \subseteq Member /\ Member \subseteq ToSet(d.old) \cup ToSet(d.new)
      BY <1>5, <2>6, <2>9 DEF Updating
    <3> QED BY <2>2, <2>4, <2>5, <2>6, <2>7, <2>8, <2>9, <3>1 DEF Updating
  <2>11. Recycled(c, d, x, free)
    BY <1>5, <1>8, <1>11, <2>2, <2>3, <2>9 DEF Recycled, p
  <2> QED BY <1>4, <2>10, <2>11 DEF d
<1>12. CASE match # NULL
  <2>0. match \in ToSet(c.old) /\ RefTo[match] = p /\ match \in Entries /\ match \notin ToSet(c.new)
    BY <1>1, <1>7, <1>12 DEF Updating
  <2>1. d = [old |-> Without(c.old, match), new |-> Append(c.new, match), refTo |-> c.refTo,
             changed |-> c.changed \/ c.new # <<>> \/ match # Last(c.old)]
    BY <1>9, <1>12 DEF Updating
  <2>2. d.old = Without(c.old, match) /\ d.new = Append(c.new, match) /\ d.refTo = c.refTo
        /\ d.changed = (c.changed \/ c.new # <<>> \/ match # Last(c.old))
        /\ d = [old |-> d.old, new |-> d.new, refTo |-> d.refTo, changed |-> d.changed]
    BY <2>1
  <2>3. IsList(d.old) /\ ToSet(d.old) = ToSet(c.old) \ {match}
    <3>1. PICK i \in 1 .. Len(c.old) : c.old[i] = match
      BY <2>0, SeqIs DEF Updating
    <3>2. IsList(Without(c.old, c.old[i])) /\ ToSet(Without(c.old, c.old[i])) = ToSet(c.old) \ {c.old[i]}
      BY WithoutIs DEF Updating
    <3> QED BY <2>2, <3>1, <3>2
  <2>4. IsList(d.new) /\ ToSet(d.new) = ToSet(c.new) \cup {match}
    BY <1>10, <2>0, <2>2
  <2>5. c.refTo[match] = p /\ p # NULL
    BY <1>2, <1>3, <2>0
  <2>6. Updating(d)
    <3>1. ToSet(d.old) \cap ToSet(d.new) = {} /\ ToSet(d.old) \subseteq Member /\ Member \subseteq ToSet(d.old) \cup ToSet(d.new)
      BY <2>0, <2>3, <2>4 DEF Updating
    <3>2. \A e \in ToSet(d.new) : d.refTo[e] # NULL
      BY <2>2, <2>4, <2>5 DEF Updating
    <3>3. /\ d.refTo \in [Entries -> Songs \cup {NULL}]
          /\ \A e \in Entries : RefTo[e] # NULL => d.refTo[e] = RefTo[e]
          /\ IsFiniteSet({e \in Entries : d.refTo[e] # NULL})
      BY <2>2 DEF Updating
    <3> QED BY <2>2, <2>3, <2>4, <3>1, <3>2, <3>3 DEF Updating
  <2>7. x \in ToSet(c.old) => match = x
    BY <1>6 DEF match
  <2>8. Recycled(c, d, x, match)
    BY <2>0, <2>2, <2>3, <2>5, <2>7 DEF Recycled, p
  <2> QED BY <2>0, <2>6, <2>8 DEF d
<1> QED BY <1>11, <1>12

(***************************************************************************)
(* What UpdateCollection makes of a content.                               *)
(***************************************************************************)

\* The list before it.
Listed == IsList(Items) /\ Referring /\ IsFiniteSet({e \in Entries : RefTo[e] # NULL})

\* An update begins with all entries in the old list.
LEMMA StartIs == ASSUME Listed PROVE Updating(Start)
<1>1. IsList(<<>>) /\ ToSet(<<>>) = {}
  BY DEF IsList, Distinct, ToSet
<1>2. Start.old = Items /\ Start.new = <<>> /\ Start.refTo = RefTo
      /\ Start = [old |-> Start.old, new |-> Start.new, refTo |-> Start.refTo, changed |-> Start.changed]
  BY DEF Start
<1>3. ToSet(Start.old) = Member /\ ToSet(Start.new) = {}
  BY <1>1, <1>2 DEF Member
<1>4. IsList(Start.old) /\ IsList(Start.new)
  BY <1>1, <1>2 DEF Listed
<1> QED BY <1>2, <1>3, <1>4 DEF Updating, Listed, Referring

Kept(c, song) == {e \in Member : e \in ToSet(c.new) /\ RefTo[e] = song}
Left(c, song) == {e \in ToSet(c.old) : RefTo[e] = song}
Places(s, i, song) == {k \in 1 .. i : s[k] = song}

\* After i songs: who is left of a song has not been needed for one of them.
Thrifty(c, s, i) ==
  \A song \in Songs :
    /\ Cardinality(Kept(c, song)) <= Cardinality(Places(s, i, song))
    /\ Left(c, song) # {} => Cardinality(Kept(c, song)) = Cardinality(Places(s, i, song))

FromSongs(c, s, i) ==
  /\ Updating(c) /\ Len(c.new) = i
  /\ \A k \in 1 .. i : c.refTo[c.new[k]] = s[k]
  /\ Thrifty(c, s, i)

\* The places of a song can be counted.
LEMMA PlacesFinite ==
  ASSUME NEW s, NEW i \in Nat, NEW song
  PROVE  IsFiniteSet(Places(s, i, song)) /\ Cardinality(Places(s, i, song)) \in Nat
<1>1. IsFiniteSet(1 .. i)
  BY FS_Interval
<1>2. Places(s, i, song) \in SUBSET (1 .. i)
  BY DEF Places
<1> QED BY <1>1, <1>2, FS_Subset, FS_CardinalityType

\* A list is as long as the set of its entries is large, and so is every part of it.
LEMMA ListFinite ==
  ASSUME NEW s, IsList(s)
  PROVE  /\ IsFiniteSet(ToSet(s)) /\ Cardinality(ToSet(s)) = Len(s)
         /\ \A T \in SUBSET ToSet(s) : /\ IsFiniteSet(T) /\ Cardinality(T) \in Nat
                                       /\ Cardinality({i \in DOMAIN s : s[i] \in T}) = Cardinality(T)
<1>1. Len(s) \in Nat /\ IsFiniteSet(1 .. Len(s)) /\ Cardinality(1 .. Len(s)) = Len(s)
  <2>1. Len(s) \in Nat
    BY SeqIs
  <2>2. \A n \in Nat : IsFiniteSet(1 .. n) /\ Cardinality(1 .. n) = n
    BY FS_Interval
  <2> QED BY <2>1, <2>2
<1>2. ASSUME NEW T \in SUBSET ToSet(s)
      PROVE  LET P == {i \in DOMAIN s : s[i] \in T} IN IsFiniteSet(P) /\ IsFiniteSet(T) /\ Cardinality(T) = Cardinality(P)
  <2> DEFINE P == {i \in DOMAIN s : s[i] \in T}
             g == [i \in P |-> s[i]]
  <2>1. P \in SUBSET (1 .. Len(s))
    BY SeqIs
  <2>2. IsFiniteSet(P)
    <3> HIDE DEF P
    <3> QED BY <1>1, <2>1, FS_Subset
  <2>3. g \in Bijection(P, T)
    <3>1. g \in [P -> T]
      OBVIOUS
    <3>2. \A i, j \in P : g[i] = g[j] => i = j
      BY SeqIs
    <3>3. \A t \in T : \E i \in P : g[i] = t
      BY DEF ToSet
    <3> HIDE DEF g, P
    <3> QED BY <3>1, <3>2, <3>3, Fun_IsBij
  <2>4. ExistsBijection(P, T)
    <3> HIDE DEF g, P
    <3> QED BY <2>3 DEF ExistsBijection
  <2>5. IsFiniteSet(T) /\ Cardinality(T) = Cardinality(P)
    <3> HIDE DEF P
    <3> QED BY <2>2, <2>4, FS_Bijection
  <2> QED BY <2>2, <2>5
<1>3. Cardinality(ToSet(s)) = Len(s) /\ IsFiniteSet(ToSet(s))
  <2>1. {i \in DOMAIN s : s[i] \in ToSet(s)} = 1 .. Len(s)
    BY SeqIs
  <2>2. ToSet(s) \in SUBSET ToSet(s)
    OBVIOUS
  <2> QED BY <1>1, <1>2, <2>1, <2>2
<1>4. \A T \in SUBSET ToSet(s) : IsFiniteSet(T) /\ Cardinality(T) \in Nat
  BY <1>2, FS_CardinalityType
<1> QED BY <1>2, <1>3, <1>4

\* Each song of a file gets an entry that refers to it, an old one as long as there is any.
LEMMA SongStep ==
  ASSUME Entries \subseteq Nat, ~ IsFiniteSet(Entries), NULL \notin Entries \cup Songs, Songs \cap Entries = {},
         Listed, NEW s \in Seq(Songs), NEW i \in 1 .. Len(s), NEW c, FromSongs(c, s, i - 1)
  PROVE  FromSongs(Recycle(c, s[i]), s, i)
<1> DEFINE x == s[i]
           d == Recycle(c, x)
<1>1. x \in Songs /\ Updating(c) /\ Len(s) \in Nat /\ Referring
  BY DEF FromSongs, Listed
<1>2. Updating(d) /\ \E e \in Entries : Recycled(c, d, x, e)
  BY <1>1, RecycleIs
<1>3. PICK e \in Entries : Recycled(c, d, x, e)
  BY <1>2
<1> HIDE DEF x, d
<1>4. GetPlayable(x) = x
  BY <1>1 DEF GetPlayable
<1>5. IsList(c.new) /\ IsList(c.old) /\ IsList(d.new) /\ Member \subseteq Entries /\ Len(c.new) = i - 1
  <2>1. Member \subseteq Entries
    BY SeqIs DEF Listed, Member
  <2> QED BY <1>1, <1>2, <2>1 DEF Updating, FromSongs
<1>6. Len(d.new) = i /\ d.new[i] = e /\ \A k \in 1 .. i - 1 : d.new[k] = c.new[k] /\ c.new[k] \in Entries /\ c.new[k] # e
  <2>1. c.new \in Seq(Entries) /\ d.new = Append(c.new, e) /\ e \notin ToSet(c.new)
    BY <1>3, <1>5 DEF IsList, Recycled
  <2>2. \A k \in 1 .. i - 1 : c.new[k] \in ToSet(c.new) /\ c.new[k] \in Entries
    BY <1>5, SeqIs
  <2>3. \A k \in 1 .. i - 1 : d.new[k] = c.new[k]
    BY <1>5, <2>1
  <2>4. Len(d.new) = i /\ d.new[i] = e
    BY <1>1, <1>5, <2>1
  <2> QED BY <2>1, <2>2, <2>3, <2>4
<1>7. \A k \in 1 .. i : d.refTo[d.new[k]] = s[k]
  <2>1. TAKE k \in 1 .. i
  <2>2. CASE k = i
    BY <1>3, <1>4, <1>6, <2>2 DEF Recycled, x
  <2>3. CASE k # i
    <3>1. k \in 1 .. i - 1
      BY <2>3
    <3>2. d.new[k] = c.new[k] /\ c.new[k] \in Entries /\ c.new[k] # e
      BY <1>6, <3>1
    <3> QED BY <1>3, <3>1, <3>2 DEF Recycled, FromSongs
  <2> QED BY <2>2, <2>3
<1>8. ToSet(d.new) = ToSet(c.new) \cup {e}
  <2>1. ASSUME NEW y \in ToSet(d.new) PROVE y \in ToSet(c.new) \cup {e}
    <3>1. PICK k \in 1 .. i : d.new[k] = y
      BY <1>5, <1>6, SeqIs
    <3>2. k = i \/ k \in 1 .. i - 1
      OBVIOUS
    <3> QED BY <1>5, <1>6, <3>1, <3>2, SeqIs
  <2>2. ASSUME NEW y \in ToSet(c.new) PROVE y \in ToSet(d.new)
    <3>1. PICK k \in 1 .. i - 1 : c.new[k] = y
      BY <1>5, SeqIs
    <3>2. k \in 1 .. i /\ d.new[k] = y
      BY <1>6, <3>1
    <3> QED BY <1>5, <1>6, <3>2, SeqIs
  <2>3. e \in ToSet(d.new)
    BY <1>5, <1>6, SeqIs
  <2> QED BY <2>1, <2>2, <2>3
<1>9. ASSUME NEW song \in Songs
      PROVE  /\ Cardinality(Kept(d, song)) <= Cardinality(Places(s, i, song))
             /\ Left(d, song) # {} => Cardinality(Kept(d, song)) = Cardinality(Places(s, i, song))
  <2>0. /\ Cardinality(Kept(c, song)) <= Cardinality(Places(s, i - 1, song))
        /\ Left(c, song) # {} => Cardinality(Kept(c, song)) = Cardinality(Places(s, i - 1, song))
    BY DEF FromSongs, Thrifty
  <2>1. e \in ToSet(c.old) => RefTo[e] = x /\ e \in Member
    <3> SUFFICES ASSUME e \in ToSet(c.old) PROVE RefTo[e] = x /\ e \in Member
      OBVIOUS
    <3>1. e \in Member
      BY <1>1 DEF Updating
    <3>2. d.refTo[e] = x
      BY <1>3, <1>4 DEF Recycled
    <3>3. d.refTo[e] = RefTo[e]
      BY <1>2, <3>1, <1>1 DEF Updating, Referring
    <3> QED BY <3>1, <3>2, <3>3
  <2>2. i - 1 \in Nat /\ IsFiniteSet(Places(s, i - 1, song)) /\ Cardinality(Places(s, i - 1, song)) \in Nat
    <3>1. i - 1 \in Nat
      OBVIOUS
    <3> QED BY <3>1, PlacesFinite
  <2>3. IsFiniteSet(Kept(c, song)) /\ Cardinality(Kept(c, song)) \in Nat
    <3>1. Kept(c, song) \in SUBSET ToSet(c.new)
      BY DEF Kept
    <3> QED BY <1>5, <3>1, ListFinite
  <2>4. CASE song # x
    <3>1. Kept(d, song) = Kept(c, song)
      <4>1. e \in Member => e \in ToSet(c.old)
        BY <1>3, <1>1 DEF Recycled
      <4> QED BY <1>8, <2>1, <2>4, <4>1 DEF Kept
    <3>2. Left(d, song) \subseteq Left(c, song)
      BY <1>3 DEF Left, Recycled
    <3>3. Places(s, i, song) = Places(s, i - 1, song)
      <4>1. \A k \in 1 .. i : s[k] = song => k # i
        BY <2>4 DEF x
      <4> QED BY <4>1 DEF Places
    <3> QED BY <2>0, <3>1, <3>2, <3>3
  <2>5. CASE song = x
    <3>1. Cardinality(Places(s, i, song)) = Cardinality(Places(s, i - 1, song)) + 1
      <4>1. Places(s, i, song) = Places(s, i - 1, song) \cup {i}
        BY <2>5 DEF Places, x
      <4>2. i \notin Places(s, i - 1, song)
        BY DEF Places
      <4> QED BY <2>2, <4>1, <4>2, FS_AddElement
    <3>2. CASE e \in ToSet(c.old)
      <4>1. Kept(d, song) = Kept(c, song) \cup {e} /\ e \notin Kept(c, song)
        BY <1>3, <1>8, <2>1, <2>5, <3>2 DEF Kept, Recycled
      <4>2. Cardinality(Kept(d, song)) = Cardinality(Kept(c, song)) + 1
        BY <2>3, <4>1, FS_AddElement
      <4>3. Left(c, song) # {}
        BY <2>1, <2>5, <3>2 DEF Left
      <4> QED BY <2>0, <2>2, <2>3, <3>1, <4>2, <4>3
    <3>3. CASE e \notin ToSet(c.old)
      <4>1. e \notin Member /\ d.old = c.old /\ \A y \in ToSet(c.old) : RefTo[y] # song
        BY <1>3, <1>4, <2>5, <3>3 DEF Recycled
      <4>2. Kept(d, song) = Kept(c, song) /\ Left(d, song) = {}
        BY <1>8, <4>1 DEF Kept, Left
      <4> QED BY <2>0, <2>2, <2>3, <3>1, <4>2
    <3> QED BY <3>2, <3>3
  <2> QED BY <2>4, <2>5
<1>10. Thrifty(d, s, i)
  BY <1>9 DEF Thrifty
<1> QED BY <1>2, <1>6, <1>7, <1>10 DEF FromSongs, d, x

\* The content of the file becomes the list.
LEMMA SongsAre ==
  ASSUME Entries \subseteq Nat, ~ IsFiniteSet(Entries), NULL \notin Entries \cup Songs, Songs \cap Entries = {},
         Listed, NEW s \in Seq(Songs)
  PROVE  FromSongs(UpdateCollection(s), s, Len(s))
<1>1. Len(s) \in Nat /\ DOMAIN s = 1 .. Len(s)
  OBVIOUS
<1>2. PICK f : IsUpdate(f, s) /\ UpdateCollection(s) = f[Len(s)]
  BY <1>1, UpdateIs
<1> DEFINE D == {i \in 0 .. Len(s) : FromSongs(f[i], s, i)}
<1>3. 0 \in D
  <2>1. f[0] = Start /\ Start.new = <<>> /\ Start.refTo = RefTo
    BY <1>2 DEF IsUpdate, Start
  <2>2. Updating(Start)
    BY StartIs
  <2>3. Len(Start.new) = 0
    BY <2>1
  <2>4. ASSUME NEW song \in Songs PROVE Kept(Start, song) = {} /\ Places(s, 0, song) = {}
    <3>1. ToSet(<<>>) = {}
      BY DEF ToSet
    <3>2. 1 .. 0 = {}
      OBVIOUS
    <3> QED BY <2>1, <3>1, <3>2 DEF Kept, Places
  <2>5. Thrifty(Start, s, 0)
    <3> SUFFICES ASSUME NEW song \in Songs
                 PROVE  /\ Cardinality(Kept(Start, song)) <= Cardinality(Places(s, 0, song))
                        /\ Left(Start, song) # {} => Cardinality(Kept(Start, song)) = Cardinality(Places(s, 0, song))
      BY DEF Thrifty
    <3>1. Cardinality({}) = 0
      BY FS_EmptySet
    <3>2. Cardinality(Kept(Start, song)) = 0 /\ Cardinality(Places(s, 0, song)) = 0
      BY <2>4, <3>1
    <3> QED BY <3>2
  <2> QED BY <1>1, <2>1, <2>2, <2>3, <2>5 DEF FromSongs
<1>4. ASSUME NEW i \in 1 .. Len(s), i - 1 \in D PROVE i \in D
  <2>1. FromSongs(f[i - 1], s, i - 1)
    BY <1>4
  <2>2. FromSongs(Recycle(f[i - 1], s[i]), s, i)
    BY <2>1, SongStep
  <2>3. f[i] = Recycle(f[i - 1], s[i])
    BY <1>2 DEF IsUpdate
  <2> QED BY <2>2, <2>3
<1>5. Len(s) \in D
  <2> HIDE DEF D
  <2>1. \A i \in 0 .. Len(s) : i \in D
    BY <1>1, <1>3, <1>4, Upwards
  <2> QED BY <1>1, <2>1
<1> QED BY <1>2, <1>5

\* After i entries of a new order: they are the new list.
FromOrder(c, s, i) ==
  /\ Updating(c) /\ c.refTo = RefTo
  /\ Len(c.new) = i /\ \A k \in 1 .. i : c.new[k] = s[k]
  /\ ToSet(c.old) = Member \ {s[k] : k \in 1 .. i}
  /\ i > 1 => c.changed

\* Each entry of a new order is recycled itself.
LEMMA OrderStep ==
  ASSUME Entries \subseteq Nat, ~ IsFiniteSet(Entries), NULL \notin Entries \cup Songs, Songs \cap Entries = {},
         Listed, NEW s, IsList(s), ToSet(s) = Member, NEW i \in 1 .. Len(s), NEW c, FromOrder(c, s, i - 1)
  PROVE  FromOrder(Recycle(c, s[i]), s, i)
<1> DEFINE x == s[i]
           d == Recycle(c, x)
<1>1. Updating(c) /\ Len(s) \in Nat /\ Referring
  BY SeqIs DEF FromOrder, Listed
<1>2. x \in ToSet(c.old)
  <2>1. x \in ToSet(s)
    BY SeqIs
  <2>2. \A k \in 1 .. i - 1 : s[k] # s[i]
    <3>1. \A k \in 1 .. i - 1 : k \in 1 .. Len(s) /\ k # i
      BY <1>1
    <3> QED BY <3>1, SeqIs
  <2> QED BY <2>1, <2>2 DEF FromOrder
<1>3. Updating(d) /\ \E e \in Entries : Recycled(c, d, x, e)
  BY <1>1, <1>2, RecycleIs
<1> HIDE DEF x, d
<1>4. Recycled(c, d, x, x) /\ x \in Entries
  BY <1>2, <1>3 DEF Recycled
<1>5. d.refTo = RefTo /\ ToSet(d.old) = ToSet(c.old) \ {x}
  <2>1. x \in Member
    BY <1>1, <1>2 DEF Updating
  <2> QED BY <1>4, <2>1 DEF Recycled, FromOrder
<1>6. Len(d.new) = i /\ d.new[i] = x /\ \A k \in 1 .. i - 1 : d.new[k] = c.new[k]
  <2>1. c.new \in Seq(Entries) /\ d.new = Append(c.new, x) /\ Len(c.new) = i - 1
    BY <1>1, <1>4 DEF IsList, Recycled, Updating, FromOrder
  <2> QED BY <1>4, <2>1
<1>7. \A k \in 1 .. i : d.new[k] = s[k]
  <2>1. TAKE k \in 1 .. i
  <2>2. k = i \/ k \in 1 .. i - 1
    OBVIOUS
  <2> QED BY <1>6, <2>2 DEF x, FromOrder
<1>8. ToSet(d.old) = Member \ {s[k] : k \in 1 .. i}
  <2>1. {s[k] : k \in 1 .. i} = {s[k] : k \in 1 .. i - 1} \cup {x}
    <3>1. 1 .. i = (1 .. i - 1) \cup {i}
      OBVIOUS
    <3> QED BY <3>1 DEF x
  <2> QED BY <1>5, <2>1 DEF FromOrder
<1>9. i > 1 => d.changed
  <2> SUFFICES ASSUME i > 1 PROVE d.changed
    OBVIOUS
  <2>1. Len(c.new) # 0 /\ Len(<<>>) = 0
    BY DEF FromOrder
  <2>2. c.new # <<>>
    BY <2>1
  <2> QED BY <1>4, <2>2 DEF Recycled
<1> QED BY <1>3, <1>5, <1>6, <1>7, <1>8, <1>9 DEF FromOrder, d, x

\* A new order becomes the list.
LEMMA OrderIs ==
  ASSUME Entries \subseteq Nat, ~ IsFiniteSet(Entries), NULL \notin Entries \cup Songs, Songs \cap Entries = {},
         Listed, NEW s, IsList(s), ToSet(s) = Member
  PROVE  LET c == UpdateCollection(s)
         IN  Updating(c) /\ c.new = s /\ c.old = <<>> /\ c.refTo = RefTo /\ (Len(s) > 1 => c.changed)
<1>1. Len(s) \in Nat /\ DOMAIN s = 1 .. Len(s) /\ s \in Seq(Entries)
  BY SeqIs DEF IsList
<1>2. PICK f : IsUpdate(f, s) /\ UpdateCollection(s) = f[Len(s)]
  BY <1>1, UpdateIs
<1> DEFINE D == {i \in 0 .. Len(s) : FromOrder(f[i], s, i)}
<1>3. 0 \in D
  <2>1. f[0] = Start /\ Start.new = <<>> /\ Start.refTo = RefTo /\ Start.old = Items
    BY <1>2 DEF IsUpdate, Start
  <2>2. Updating(Start)
    BY StartIs
  <2>3. Len(Start.new) = 0 /\ {s[k] : k \in 1 .. 0} = {} /\ ToSet(Start.old) = Member
    BY <2>1 DEF Member
  <2> QED BY <1>1, <2>1, <2>2, <2>3 DEF FromOrder
<1>4. ASSUME NEW i \in 1 .. Len(s), i - 1 \in D PROVE i \in D
  <2>1. FromOrder(f[i - 1], s, i - 1)
    BY <1>4
  <2>2. FromOrder(Recycle(f[i - 1], s[i]), s, i)
    BY <2>1, OrderStep
  <2>3. f[i] = Recycle(f[i - 1], s[i])
    BY <1>2 DEF IsUpdate
  <2> QED BY <2>2, <2>3
<1>5. Len(s) \in D
  <2> HIDE DEF D
  <2>1. \A i \in 0 .. Len(s) : i \in D
    BY <1>1, <1>3, <1>4, Upwards
  <2> QED BY <1>1, <2>1
<1> DEFINE c == UpdateCollection(s)
<1>6. FromOrder(c, s, Len(s))
  BY <1>2, <1>5
<1> HIDE DEF c
<1>7. c.new = s
  <2>1. c.new \in Seq(Entries) /\ Len(c.new) = Len(s) /\ \A k \in 1 .. Len(s) : c.new[k] = s[k]
    BY <1>6 DEF FromOrder, Updating, IsList
  <2> QED BY <1>1, <2>1, SeqEqual
<1>8. c.old = <<>>
  <2>1. {s[k] : k \in 1 .. Len(s)} = Member
    BY <1>1 DEF ToSet
  <2>2. ToSet(c.old) = {}
    BY <1>6, <2>1 DEF FromOrder
  <2>3. c.old \in Seq(Entries) /\ IsList(c.old)
    BY <1>6 DEF FromOrder, Updating, IsList
  <2>4. Len(c.old) = 0
    <3>1. Len(c.old) \in Nat /\ \A i \in 1 .. Len(c.old) : c.old[i] \in ToSet(c.old)
      BY <2>3, SeqIs
    <3> QED BY <2>2, <3>1
  <2> QED BY <2>3, <2>4, EmptySeq
<1> QED BY <1>6, <1>7, <1>8 DEF FromOrder, c

\* Every sequence of the members is a list of them.
LEMMA OrdersAre ==
  ASSUME IsList(Items), NEW s \in SetToSeqs(Member)
  PROVE  IsList(s) /\ ToSet(s) = Member /\ Len(s) = Len(Items)
<1> DEFINE n == Cardinality(Member)
<1>1. IsFiniteSet(Member) /\ n = Len(Items) /\ n \in Nat /\ Member \subseteq Entries
  BY ListFinite, SeqIs DEF Member
<1>2. s \in [1 .. n -> Member] /\ \A i, j \in 1 .. n : i # j => s[i] # s[j]
  BY DEF SetToSeqs
<1> HIDE DEF n
<1>3. s \in Seq(Entries) /\ Len(s) = n
  BY <1>1, <1>2, SeqDef
<1>4. IsList(s)
  BY <1>2, <1>3 DEF IsList, Distinct
<1>5. ToSet(s) \in SUBSET Member
  BY <1>2 DEF ToSet
<1>6. Cardinality(ToSet(s)) = Cardinality(Member)
  BY <1>3, <1>4, ListFinite DEF n
<1>7. ToSet(s) = Member
  BY <1>1, <1>5, <1>6, FS_Subset
<1> QED BY <1>1, <1>3, <1>4, <1>7

(***************************************************************************)
(* The first part of the inductive invariant: the entries.                 *)
(***************************************************************************)

\* Who exists is in the list or held.
HeldEntries ==
  /\ cur \in [Readers -> Entries \cup {NULL}]
  /\ \A r \in Readers : cur[r] # NULL => RefTo[cur[r]] # NULL
  /\ after \in [Entries -> Entries \cup {NULL}]
  /\ \A e \in Entries : after[e] # NULL => e \notin Member /\ \E r \in Readers : cur[r] = e
  /\ \A e \in Entries : RefTo[e] # NULL => e \in Member \/ \E r \in Readers : cur[r] = e

TypeInv ==
  /\ IsList(Items) /\ Referring /\ HeldEntries
  /\ Index \in [Entries -> Int]
  /\ num_items \in Int /\ playlist \in BOOLEAN /\ Modified \in BOOLEAN
  /\ InService \subseteq Flags
  /\ at = [t \in Loaders \cup Readers |-> at[t]]
  /\ upd \in [Loaders -> SUBSET Flags] /\ read \in [Loaders -> Files \cup {NULL}]
  /\ found \in [Readers -> Entries \cup {NULL}]

\* One list after the other, if they have no entry in common.
LEMMA ConcatIs ==
  ASSUME NEW a, NEW b, IsList(a), IsList(b), ToSet(a) \cap ToSet(b) = {}
  PROVE  IsList(a \o b)
<1> DEFINE c == a \o b
           m == Len(a)
           n == Len(b)
<1>1. a \in Seq(Entries) /\ b \in Seq(Entries) /\ m \in Nat /\ n \in Nat
  BY SeqIs DEF IsList
<1>2. c \in Seq(Entries) /\ Len(c) = m + n /\ \A i \in 1 .. m + n : c[i] = IF i <= m THEN a[i] ELSE b[i - m]
  BY <1>1, ConcatProperties
<1>3. \A i \in 1 .. m + n : (i <= m /\ i \in 1 .. m) \/ (i > m /\ i - m \in 1 .. n)
  BY <1>1
<1>4. \A i \in 1 .. m, j \in 1 .. n : a[i] # b[j]
  BY SeqIs
<1>5. (\A i, j \in 1 .. m : a[i] = a[j] => i = j) /\ (\A i, j \in 1 .. n : b[i] = b[j] => i = j)
  BY SeqIs
<1>6. ASSUME NEW i \in 1 .. m + n, NEW j \in 1 .. m + n, c[i] = c[j] PROVE i = j
  <2> HIDE DEF c, m, n
  <2>1. CASE i <= m /\ j <= m
    BY <1>1, <1>2, <1>3, <1>5, <1>6, <2>1
  <2>2. CASE i > m /\ j > m
    <3>1. c[i] = b[i - m] /\ c[j] = b[j - m] /\ i - m \in 1 .. n /\ j - m \in 1 .. n
      BY <1>1, <1>2, <1>3, <2>2
    <3>2. i - m = j - m
      BY <1>5, <1>6, <3>1
    <3> QED BY <1>1, <3>2
  <2>3. CASE i <= m /\ j > m
    <3>1. c[i] = a[i] /\ c[j] = b[j - m] /\ i \in 1 .. m /\ j - m \in 1 .. n
      BY <1>1, <1>2, <1>3, <2>3
    <3> QED BY <1>4, <1>6, <3>1
  <2>4. CASE i > m /\ j <= m
    <3>1. c[i] = b[i - m] /\ c[j] = a[j] /\ i - m \in 1 .. n /\ j \in 1 .. m
      BY <1>1, <1>2, <1>3, <2>4
    <3> QED BY <1>4, <1>6, <3>1
  <2> QED BY <1>1, <2>1, <2>2, <2>3, <2>4
<1>7. DOMAIN c = 1 .. m + n
  BY <1>2
<1> QED BY <1>2, <1>6, <1>7 DEF IsList, Distinct

\* Next of an entry of a list is an entry, or there is none.
LEMMA NextOfType ==
  ASSUME NEW s, IsList(s), NULL \notin Entries, NEW e \in ToSet(s) \cup {NULL}
  PROVE  NextOf(s, e) \in ToSet(s) \cup {NULL}
<1>1. CASE e = NULL
  <2>1. NextOf(s, e) = IF Len(s) = 0 THEN NULL ELSE s[1]
    BY <1>1, NextOfIs
  <2>2. Len(s) # 0 => 1 \in 1 .. Len(s)
    BY SeqIs
  <2> QED BY <2>1, <2>2, SeqIs
<1>2. CASE e # NULL
  <2>1. PICK i \in 1 .. Len(s) : s[i] = e
    BY <1>2, SeqIs
  <2>2. NextOf(s, e) = IF i = Len(s) THEN NULL ELSE s[i + 1]
    BY <2>1, NextOfIs
  <2>3. i # Len(s) => i + 1 \in 1 .. Len(s)
    BY SeqIs
  <2> QED BY <2>2, <2>3, SeqIs
<1> QED BY <1>1, <1>2

\* What Settle makes of the entries.
LEMMA SettleIs ==
  ASSUME NULL \notin Entries, NEW items, IsList(items), NEW s, IsList(s),
         NEW refTo, refTo \in [Entries -> Songs \cup {NULL}], \A e \in ToSet(items) : refTo[e] # NULL,
         NEW index, index \in [Entries -> Int], cur' \in [Readers -> Entries \cup {NULL}],
         \A r \in Readers : cur'[r] # NULL => refTo[cur'[r]] # NULL,
         after \in [Entries -> Entries \cup {NULL}], Settle(items, s, refTo, index, cur')
  PROVE  /\ Items' = items /\ touched' = (touched \/ items # Items)
         /\ IsList(Items)' /\ Referring' /\ HeldEntries' /\ Index' \in [Entries -> Int]
         /\ \A e \in ToSet(items) : RefTo'[e] = refTo[e] /\ Index'[e] = index[e]
<1> DEFINE in == ToSet(items)
           held == {cur'[r] : r \in Readers} \ {NULL}
<1>1. /\ Items' = items /\ touched' = (touched \/ items # Items)
      /\ RefTo' = [e \in Entries |-> IF e \in in \cup held THEN refTo[e] ELSE NULL]
      /\ Index' = [e \in Entries |-> IF e \in in THEN index[e] ELSE 0]
      /\ after' = [e \in Entries |-> IF e \notin held \ in THEN NULL
                                     ELSE IF e \in ToSet(s) THEN NextOf(s, e) ELSE after[e]]
  BY DEF Settle
<1>2. in \subseteq Entries /\ held \subseteq Entries /\ Member' = in
  <2>1. Member' = in
    BY <1>1 DEF Member
  <2> QED BY <2>1, SeqIs
<1>3. \A e \in in : RefTo'[e] = refTo[e] /\ Index'[e] = index[e]
  BY <1>1, <1>2
<1>4. IsList(Items)'
  BY <1>1 DEF IsList, Distinct
<1>5. Referring'
  BY <1>1, <1>2, <1>3 DEF Referring
<1>6. Index' \in [Entries -> Int]
  BY <1>1
<1>7. HeldEntries'
  <2>1. ASSUME NEW r \in Readers, cur'[r] # NULL PROVE RefTo'[cur'[r]] # NULL
    <3>1. cur'[r] \in held /\ cur'[r] \in Entries
      BY <1>2, <2>1
    <3> QED BY <1>1, <2>1, <3>1
  <2>2. after' \in [Entries -> Entries \cup {NULL}]
    <3>1. \A e \in ToSet(s) : NextOf(s, e) \in Entries \cup {NULL}
      BY NextOfType, SeqIs
    <3> HIDE DEF in, held
    <3> QED BY <1>1, <3>1
  <2>3. \A e \in Entries : after'[e] # NULL => e \notin in /\ e \in held
    BY <1>1
  <2>4. \A e \in Entries : RefTo'[e] # NULL => e \in in \/ e \in held
    BY <1>1
  <2>5. \A e \in held : \E r \in Readers : cur'[r] = e
    OBVIOUS
  <2> HIDE DEF in, held
  <2> QED BY <1>2, <2>1, <2>2, <2>3, <2>4, <2>5 DEF HeldEntries
<1> QED BY <1>1, <1>3, <1>4, <1>5, <1>6, <1>7

\* As many entries exist as the list and the readers need.
LEMMA ListedIs ==
  ASSUME TypeInv, IsFiniteSet(Readers)
  PROVE  Listed
<1> DEFINE H == {cur[r] : r \in Readers}
<1>1. IsFiniteSet(Member)
  BY ListFinite DEF TypeInv, Member
<1>2. IsFiniteSet(H)
  <2>1. cur \in Surjection(Readers, H)
    <3>1. cur \in [Readers -> H] /\ \A h \in H : \E r \in Readers : cur[r] = h
      BY DEF TypeInv, HeldEntries
    <3> HIDE DEF H
    <3> QED BY <3>1, Fun_IsSurj
  <2> HIDE DEF H
  <2> QED BY <2>1, FS_Surjection
<1>3. {e \in Entries : RefTo[e] # NULL} \in SUBSET (Member \cup H)
  BY DEF TypeInv, HeldEntries
<1> HIDE DEF H
<1>4. IsFiniteSet(Member \cup H)
  BY <1>1, <1>2, FS_Union
<1>5. IsFiniteSet({e \in Entries : RefTo[e] # NULL})
  BY <1>3, <1>4, FS_Subset
<1> QED BY <1>5 DEF Listed, TypeInv

\* The first invariant holds in the beginning.
LEMMA TypeInit ==
  ASSUME NULL \notin Entries, Init
  PROVE  TypeInv
<1>1. IsList(<<>>) /\ ToSet(<<>>) = {}
  BY DEF IsList, Distinct, ToSet
<1>2. IsList(Items) /\ Member = {}
  BY <1>1 DEF Init, Member
<1>3. Referring /\ HeldEntries
  BY <1>2 DEF Init, Referring, HeldEntries
<1>4. at = [t \in Loaders \cup Readers |-> at[t]]
  BY DEF Init
<1>5. upd \in [Loaders -> SUBSET Flags] /\ read \in [Loaders -> Files \cup {NULL}]
      /\ found \in [Readers -> Entries \cup {NULL}]
  BY DEF Init
<1>6. Index \in [Entries -> Int] /\ num_items \in Int
  BY DEF Init
<1>7. playlist \in BOOLEAN /\ Modified \in BOOLEAN /\ InService \subseteq Flags
  BY DEF Init
<1> QED BY <1>2, <1>3, <1>4, <1>5, <1>6, <1>7 DEF TypeInv

\* to is what follows the place q.
Ends(s, q, to) == q \in 0 .. Len(s) /\ to = IF q = Len(s) THEN NULL ELSE s[q + 1]

\* In index the places p to q are counted from n.
Renumbered(s, p, q, n, index) ==
  /\ index \in [Entries -> Int]
  /\ \A i \in 1 .. Len(s) : index[s[i]] = IF p <= i /\ i <= q THEN n + i - p ELSE Index[s[i]]

\* RenumberEntries counts the range from its first number and leaves the others alone.
LEMMA RenumberIs ==
  ASSUME NULL \notin Entries, NEW s, IsList(s), NEW p \in 1 .. Len(s), NEW q, NEW to, Ends(s, q, to),
         NEW n \in Int, Index \in [Entries -> Int]
  PROVE  Renumbered(s, p, q, n, Renumber(s, s[p], to, n))
<1> DEFINE R == Renumber(s, s[p], to, n)
           last == IF to = NULL THEN Len(s) ELSE Pos(s, to) - 1
<1>0. Len(s) \in Nat /\ \A i \in 1 .. Len(s) : s[i] \in Entries /\ s[i] # NULL
  BY SeqIs
<1>e. q \in 0 .. Len(s) /\ to = IF q = Len(s) THEN NULL ELSE s[q + 1]
  BY DEF Ends
<1>1. last = q
  <2>1. CASE q = Len(s)
    BY <1>e, <2>1
  <2>2. CASE q # Len(s)
    <3>1. q + 1 \in 1 .. Len(s) /\ to = s[q + 1]
      BY <1>0, <1>e, <2>2
    <3>2. Pos(s, to) = q + 1 /\ to # NULL
      BY <1>0, <3>1, PosIs
    <3> QED BY <1>e, <3>2
  <2> QED BY <2>1, <2>2
<1>2. Pos(s, s[p]) = p /\ s[p] # NULL
  BY <1>0, PosIs
<1>3. R = [e \in Entries |-> IF \E i \in p .. last : s[i] = e THEN n + Pos(s, e) - p ELSE Index[e]]
  BY <1>2 DEF Renumber
<1> HIDE DEF R, last
<1>4. ASSUME NEW e \in Entries, \E i \in p .. q : s[i] = e
      PROVE  Pos(s, e) \in 1 .. Len(s)
  <2>1. PICK i \in p .. q : s[i] = e
    BY <1>4
  <2>2. i \in 1 .. Len(s)
    BY <1>0, <1>e
  <2> QED BY <2>1, <2>2, PosIs
<1>5. R \in [Entries -> Int]
  BY <1>1, <1>3, <1>4
<1>6. ASSUME NEW i \in 1 .. Len(s) PROVE R[s[i]] = IF p <= i /\ i <= q THEN n + i - p ELSE Index[s[i]]
  <2>1. s[i] \in Entries /\ Pos(s, s[i]) = i
    BY <1>0, PosIs
  <2>2. (\E j \in p .. q : s[j] = s[i]) <=> p <= i /\ i <= q
    <3>1. \A j \in p .. q : j \in 1 .. Len(s)
      BY <1>0, <1>e
    <3>2. \A j \in p .. q : s[j] = s[i] => j = i
      BY <3>1, SeqIs
    <3>3. p <= i /\ i <= q => i \in p .. q
      BY <1>e
    <3>4. i \in p .. q => p <= i /\ i <= q
      BY <1>0, <1>e
    <3> QED BY <3>2, <3>3, <3>4
  <2> QED BY <1>1, <1>3, <2>1, <2>2
<1> QED BY <1>5, <1>6 DEF R, Renumbered

\* Save notices every change, and whoever stays in the list refers to the same song.
Steady ==
  /\ touched' <=> touched \/ Items' # Items
  /\ \A e \in Member : e \in ToSet(Items') => RefTo'[e] = RefTo[e]

Edited == IsList(Items)' /\ Referring' /\ HeldEntries' /\ Index' \in [Entries -> Int] /\ Steady

\* An address for a new entry.
LEMMA FreeIs ==
  ASSUME Entries \subseteq Nat, ~ IsFiniteSet(Entries), Listed
  PROVE  Min(Free) \in Entries /\ RefTo[Min(Free)] = NULL /\ Min(Free) \notin Member
<1> DEFINE S == {e \in Entries : RefTo[e] # NULL}
<1>1. Free = Entries \ S
  BY DEF Free
<1>2. S \in SUBSET Entries /\ IsFiniteSet(S)
  BY DEF Listed
<1> HIDE DEF S
<1>3. Min(Free) \in Entries /\ Min(Free) \notin S
  BY <1>1, <1>2, FreeEntry
<1>4. RefTo[Min(Free)] = NULL
  BY <1>3 DEF S
<1> QED BY <1>3, <1>4 DEF Listed, Referring

\* What an insertion makes of the list.
LEMMA InsertEdits ==
  ASSUME TypeInv, ~ IsFiniteSet(Entries), IsFiniteSet(Readers),
         NEW song \in Songs, NEW before \in Member \cup {NULL}, InsertItem(song, before)
  PROVE  LET e == Min(Free)
             items == Insert(Items, e, before)
         IN  /\ Edited /\ Items' = items
             /\ e \in Entries /\ e \notin Member
             /\ Index'[e] = Renumber(items, e, NULL, IF before = NULL THEN num_items' ELSE Index[before])[e]
             /\ \A x \in Member : Index'[x] = Renumber(items, e, NULL, IF before = NULL THEN num_items' ELSE Index[before])[x]
<1> DEFINE e == Min(Free)
           items == Insert(Items, e, before)
           refTo == [RefTo EXCEPT ![e] = song]
           first == IF before = NULL THEN num_items' ELSE Index[before]
           index == Renumber(items, e, NULL, first)
<1>0. NULL \notin Entries /\ Entries \subseteq Nat /\ NULL \notin Songs
  BY PlaylistAssumption
<1>1. e \in Entries /\ RefTo[e] = NULL /\ e \notin Member
  BY <1>0, ListedIs, FreeIs
<1>2. Settle(items, Items, refTo, index, cur) /\ num_items' \in Int /\ cur' = cur
  BY DEF InsertItem, reading, TypeInv
<1> HIDE DEF e
<1>3. IsList(Items) /\ before \in ToSet(Items) \cup {NULL} /\ e \notin ToSet(Items) /\ Member = ToSet(Items)
  BY <1>1 DEF TypeInv, Member
<1> DEFINE p == Place(Items, before)
<1>4. /\ p \in 1 .. Len(Items) + 1 /\ IsList(items) /\ Len(items) = Len(Items) + 1
      /\ items[p] = e /\ ToSet(items) = ToSet(Items) \cup {e}
  <2>1. /\ p \in 1 .. Len(Items) + 1 /\ IsList(items) /\ Len(items) = Len(Items) + 1
        /\ \A i \in 1 .. Len(Items) + 1 : items[i] = IF i < p THEN Items[i] ELSE IF i = p THEN e ELSE Items[i - 1]
        /\ ToSet(items) = ToSet(Items) \cup {e}
    BY <1>0, <1>1, <1>3, InsertIs
  <2>2. items[p] = e
    <3> HIDE DEF p, items
    <3> QED BY <2>1
  <2> QED BY <2>1, <2>2
<1>5. first \in Int
  BY <1>2, <1>3, SeqIs DEF TypeInv
<1>6. index \in [Entries -> Int]
  <2>1. Index \in [Entries -> Int] /\ p \in 1 .. Len(items) /\ Ends(items, Len(items), NULL)
    BY <1>4, SeqIs DEF TypeInv, Ends
  <2> HIDE DEF items, p, first
  <2>2. Renumber(items, items[p], NULL, first) \in [Entries -> Int]
    BY <1>0, <1>4, <1>5, <2>1, RenumberIs DEF Renumbered
  <2> QED BY <1>4, <2>2
<1>7. refTo \in [Entries -> Songs \cup {NULL}] /\ refTo[e] = song /\ \A x \in Entries : x # e => refTo[x] = RefTo[x]
  BY <1>1 DEF TypeInv, Referring
<1>8. \A x \in ToSet(items) : refTo[x] # NULL
  <2>1. \A x \in Member : x \in Entries /\ RefTo[x] # NULL
    BY <1>3, SeqIs DEF TypeInv, Referring
  <2> HIDE DEF refTo, items
  <2> QED BY <1>0, <1>3, <1>4, <1>7, <2>1
<1> HIDE DEF items, refTo, index, p, first
<1>9. cur' \in [Readers -> Entries \cup {NULL}] /\ \A r \in Readers : cur'[r] # NULL => refTo[cur'[r]] # NULL
  BY <1>0, <1>1, <1>2, <1>7 DEF TypeInv, HeldEntries
<1>10. Settle(items, Items, refTo, index, cur')
  BY <1>2
<1>11. after \in [Entries -> Entries \cup {NULL}]
  BY DEF TypeInv, HeldEntries
<1>12. /\ Items' = items /\ touched' = (touched \/ items # Items)
       /\ IsList(Items)' /\ Referring' /\ HeldEntries' /\ Index' \in [Entries -> Int]
       /\ \A x \in ToSet(items) : RefTo'[x] = refTo[x] /\ Index'[x] = index[x]
  BY <1>0, <1>3, <1>4, <1>6, <1>7, <1>8, <1>9, <1>10, <1>11, SettleIs
<1>13. Steady
  <2>1. \A x \in Member : x \in ToSet(items) /\ RefTo'[x] = RefTo[x]
    <3>1. \A x \in Member : x \in Entries /\ x # e /\ x \in ToSet(items)
      BY <1>1, <1>3, <1>4, SeqIs
    <3> QED BY <1>7, <1>12, <3>1
  <2> QED BY <1>12, <2>1 DEF Steady
<1>14. Edited
  BY <1>12, <1>13 DEF Edited
<1> QED BY <1>1, <1>3, <1>4, <1>12, <1>14 DEF e, items, index, first

\* Indexes are numbers.
LEMMA RenumberType ==
  ASSUME NULL \notin Entries, NEW s, IsList(s), NEW x \in ToSet(s) \cup {NULL}, NEW to \in ToSet(s) \cup {NULL},
         NEW n \in Int, Index \in [Entries -> Int]
  PROVE  Renumber(s, x, to, n) \in [Entries -> Int]
<1>1. CASE x = NULL
  BY <1>1 DEF Renumber
<1>2. CASE x # NULL
  <2> DEFINE q == IF to = NULL THEN Len(s) ELSE Pos(s, to) - 1
  <2>1. PICK p \in 1 .. Len(s) : s[p] = x
    BY <1>2, SeqIs
  <2>2. Ends(s, q, to)
    <3>1. CASE to = NULL
      <4>1. Len(s) \in Nat
        BY SeqIs
      <4> QED BY <3>1, <4>1 DEF Ends
    <3>2. CASE to # NULL
      <4>1. Pos(s, to) \in 1 .. Len(s) /\ s[Pos(s, to)] = to /\ Len(s) \in Nat
        BY <3>2, PosIs, SeqIs
      <4>2. q = Pos(s, to) - 1 /\ q + 1 = Pos(s, to) /\ q # Len(s)
        BY <3>2, <4>1
      <4> QED BY <4>1, <4>2 DEF Ends
    <3> QED BY <3>1, <3>2
  <2> HIDE DEF q
  <2> QED BY <2>1, <2>2, RenumberIs DEF Renumbered
<1> QED BY <1>1, <1>2

\* The list of some of the entries that were in it.
LEMMA SomeEdits ==
  ASSUME TypeInv, NEW items, IsList(items), ToSet(items) \subseteq Member,
         NEW index, index \in [Entries -> Int], cur' \in [Readers -> Entries \cup {NULL}],
         \A r \in Readers : cur'[r] # NULL => RefTo[cur'[r]] # NULL, Settle(items, Items, RefTo, index, cur')
  PROVE  Edited /\ Items' = items /\ (\A x \in ToSet(items) : RefTo'[x] = RefTo[x] /\ Index'[x] = index[x])
<1>1. NULL \notin Entries
  BY PlaylistAssumption
<1>2. IsList(Items) /\ RefTo \in [Entries -> Songs \cup {NULL}] /\ (\A x \in ToSet(items) : RefTo[x] # NULL)
      /\ after \in [Entries -> Entries \cup {NULL}]
  BY DEF TypeInv, Referring, HeldEntries
<1>3. /\ Items' = items /\ touched' = (touched \/ items # Items)
      /\ IsList(Items)' /\ Referring' /\ HeldEntries' /\ Index' \in [Entries -> Int]
      /\ \A x \in ToSet(items) : RefTo'[x] = RefTo[x] /\ Index'[x] = index[x]
  BY <1>1, <1>2, SettleIs
<1> QED BY <1>3 DEF Edited, Steady

\* m is s after the entry at the place a has gone to the place p, in front of before.
Moved(s, m, a, p, before) ==
  /\ before = IF a <= p THEN (IF p = Len(s) THEN NULL ELSE s[p + 1]) ELSE s[p]
  /\ \A i \in 1 .. Len(s) : m[i] = IF i = p THEN s[a]
                                   ELSE IF a <= i /\ i < p THEN s[i + 1]
                                   ELSE IF p < i /\ i <= a THEN s[i - 1]
                                   ELSE s[i]

\* An entry has gone to another place.
LEMMA MoveIs ==
  ASSUME NULL \notin Entries, NEW s, IsList(s), NEW a \in 1 .. Len(s),
         NEW before \in ToSet(s) \cup {NULL}, before # s[a], NEW m, m = Move(s, s[a], before)
  PROVE  /\ IsList(m) /\ Len(m) = Len(s) /\ ToSet(m) = ToSet(s)
         /\ \E p \in 1 .. Len(s) : Moved(s, m, a, p, before)
<1> DEFINE n == Len(s)
           w == Without(s, s[a])
           p == Place(w, before)
<1>1. n \in Nat /\ s[a] \in Entries /\ s[a] \in ToSet(s)
  BY SeqIs
<1>2. /\ IsList(w) /\ Len(w) = n - 1 /\ ToSet(w) = ToSet(s) \ {s[a]}
      /\ \A i \in 1 .. n - 1 : w[i] = IF i < a THEN s[i] ELSE s[i + 1]
  BY WithoutIs
<1>3. m = Insert(w, s[a], before)
  BY DEF Move
<1> HIDE DEF w, n, p
<1>4. before \in ToSet(w) \cup {NULL} /\ s[a] \notin ToSet(w)
  BY <1>2
<1>5. /\ p \in 1 .. Len(w) + 1 /\ (before # NULL => p <= Len(w) /\ w[p] = before)
      /\ IsList(m) /\ Len(m) = Len(w) + 1
      /\ \A i \in 1 .. Len(w) + 1 : m[i] = IF i < p THEN w[i] ELSE IF i = p THEN s[a] ELSE w[i - 1]
      /\ ToSet(m) = ToSet(w) \cup {s[a]}
  BY <1>1, <1>2, <1>3, <1>4, InsertIs DEF p
<1>6. Len(w) + 1 = n /\ p \in 1 .. n
  BY <1>1, <1>2, <1>5
<1>7. ToSet(m) = ToSet(s)
  BY <1>1, <1>2, <1>5
<1>8. before = IF a <= p THEN (IF p = n THEN NULL ELSE s[p + 1]) ELSE s[p]
  <2>1. CASE before = NULL
    <3>1. p = n
      BY <1>6, <2>1 DEF p, Place
    <3>2. a <= n
      BY DEF n
    <3> QED BY <2>1, <3>1, <3>2
  <2>2. CASE before # NULL
    <3>1. p \in 1 .. n - 1 /\ w[p] = before /\ a \in 1 .. n
      BY <1>1, <1>2, <1>5, <1>6, <2>2 DEF n
    <3>2. before = IF p < a THEN s[p] ELSE s[p + 1]
      BY <1>2, <3>1
    <3> QED BY <1>1, <3>1, <3>2
  <2> QED BY <2>1, <2>2
<1>9. ASSUME NEW i \in 1 .. n
      PROVE  m[i] = IF i = p THEN s[a]
                    ELSE IF a <= i /\ i < p THEN s[i + 1]
                    ELSE IF p < i /\ i <= a THEN s[i - 1]
                    ELSE s[i]
  <2>0. a \in 1 .. n /\ m[i] = IF i < p THEN w[i] ELSE IF i = p THEN s[a] ELSE w[i - 1]
    BY <1>5, <1>6 DEF n
  <2>1. CASE i < p
    <3>1. i \in 1 .. n - 1
      BY <1>1, <1>6, <2>1
    <3>2. w[i] = IF i < a THEN s[i] ELSE s[i + 1]
      BY <1>2, <3>1
    <3> QED BY <1>1, <1>6, <2>0, <2>1, <3>2
  <2>2. CASE i = p
    BY <1>6, <2>0, <2>2
  <2>3. CASE i > p
    <3>1. i - 1 \in 1 .. n - 1
      BY <1>1, <1>6, <2>3
    <3>2. w[i - 1] = IF i - 1 < a THEN s[i - 1] ELSE s[i - 1 + 1]
      BY <1>2, <3>1
    <3>3. i - 1 + 1 = i /\ (i - 1 < a <=> i <= a)
      BY <1>1, <2>0
    <3> QED BY <1>1, <1>6, <2>0, <2>3, <3>2, <3>3
  <2> QED BY <1>1, <1>6, <2>1, <2>2, <2>3
<1>10. Moved(s, m, a, p, before)
  BY <1>8, <1>9 DEF Moved, n
<1> QED BY <1>5, <1>6, <1>7, <1>10 DEF n

\* The index MoveItem gives everybody.
MovedIndex(e, before) ==
  LET items == Move(Items, e, before)
      next  == NextOf(Items, e)
  IN  IF before = NULL \/ (before # NULL /\ Index[e] < Index[before])
      THEN Renumber(items, next, before, Index[e])
      ELSE Renumber(items, e, next, Index[before])

\* What a move makes of the list.
LEMMA MoveEdits ==
  ASSUME TypeInv, NEW e \in Member, NEW before \in Member \cup {NULL}, MoveItem(e, before)
  PROVE  Edited /\ Items' = Move(Items, e, before) /\ \A x \in Member : Index'[x] = MovedIndex(e, before)[x]
<1> DEFINE items == Move(Items, e, before)
           next == NextOf(Items, e)
           index == MovedIndex(e, before)
<1>0. NULL \notin Entries
  BY PlaylistAssumption
<1>1. Settle(items, Items, RefTo, index, cur) /\ cur' = cur /\ before # e
  BY DEF MoveItem, MovedIndex, reading
<1>2. IsList(Items) /\ Member = ToSet(Items) /\ Index \in [Entries -> Int] /\ Member \subseteq Entries
  BY SeqIs DEF TypeInv, Member
<1>3. IsList(items) /\ ToSet(items) = Member
  <2>1. PICK a \in 1 .. Len(Items) : Items[a] = e
    BY <1>2, SeqIs
  <2>2. items = Move(Items, Items[a], before) /\ before # Items[a] /\ before \in ToSet(Items) \cup {NULL}
    BY <1>1, <1>2, <2>1
  <2> HIDE DEF items
  <2> QED BY <1>0, <1>2, <2>1, <2>2, MoveIs
<1>4. next \in Member \cup {NULL}
  BY <1>0, <1>2, NextOfType
<1> HIDE DEF items, next
<1>5. index \in [Entries -> Int]
  <2>1. index = IF before = NULL \/ (before # NULL /\ Index[e] < Index[before])
                THEN Renumber(items, next, before, Index[e])
                ELSE Renumber(items, e, next, Index[before])
    BY DEF MovedIndex, items, next
  <2>2. Renumber(items, next, before, Index[e]) \in [Entries -> Int]
    BY <1>0, <1>2, <1>3, <1>4, RenumberType
  <2>3. before # NULL => Renumber(items, e, next, Index[before]) \in [Entries -> Int]
    BY <1>0, <1>2, <1>3, <1>4, RenumberType
  <2> QED BY <2>1, <2>2, <2>3
<1> HIDE DEF index
<1>6. cur' \in [Readers -> Entries \cup {NULL}] /\ \A r \in Readers : cur'[r] # NULL => RefTo[cur'[r]] # NULL
  BY <1>1 DEF TypeInv, HeldEntries
<1>7. Settle(items, Items, RefTo, index, cur')
  BY <1>1
<1>8. Edited /\ Items' = items /\ (\A x \in ToSet(items) : RefTo'[x] = RefTo[x] /\ Index'[x] = index[x])
  BY <1>3, <1>5, <1>6, <1>7, SomeEdits
<1> QED BY <1>3, <1>8 DEF items, index

\* What a removal makes of the list.
LEMMA RemoveEdits ==
  ASSUME TypeInv, NEW e \in Member, RemoveItem(e)
  PROVE  /\ Edited /\ Items' = Without(Items, e)
         /\ \A x \in ToSet(Without(Items, e)) :
              Index'[x] = Renumber(Items, NextOf(Items, e), NULL, Index[e])[x]
<1> DEFINE items == Without(Items, e)
           next == NextOf(Items, e)
           index == Renumber(Items, next, NULL, Index[e])
<1>0. NULL \notin Entries
  BY PlaylistAssumption
<1>1. Settle(items, Items, RefTo, index, cur) /\ cur' = cur
  BY DEF RemoveItem, reading
<1>2. IsList(Items) /\ Member = ToSet(Items) /\ Index \in [Entries -> Int] /\ Member \subseteq Entries
  BY SeqIs DEF TypeInv, Member
<1>3. PICK a \in 1 .. Len(Items) : Items[a] = e
  BY <1>2, SeqIs
<1>4. IsList(items) /\ ToSet(items) = Member \ {e}
  BY <1>2, <1>3, WithoutIs
<1>5. next \in ToSet(Items) \cup {NULL}
  BY <1>0, <1>2, NextOfType
<1> HIDE DEF items, next
<1>6. index \in [Entries -> Int]
  BY <1>0, <1>2, <1>5, RenumberType
<1> HIDE DEF index
<1>7. cur' \in [Readers -> Entries \cup {NULL}] /\ \A r \in Readers : cur'[r] # NULL => RefTo[cur'[r]] # NULL
  BY <1>1 DEF TypeInv, HeldEntries
<1>8. Settle(items, Items, RefTo, index, cur')
  BY <1>1
<1>9. Edited /\ Items' = items /\ (\A x \in ToSet(items) : RefTo'[x] = RefTo[x] /\ Index'[x] = index[x])
  BY <1>4, <1>6, <1>7, <1>8, SomeEdits
<1> QED BY <1>9 DEF items, index, next

\* What Clear makes of the list.
LEMMA ClearEdits ==
  ASSUME TypeInv, Clear
  PROVE  Edited /\ Items' = <<>>
<1>1. Settle(<<>>, Items, RefTo, Index, cur) /\ cur' = cur
  BY DEF Clear, reading
<1>2. IsList(<<>>) /\ ToSet(<<>>) \subseteq Member
  BY DEF IsList, Distinct, ToSet
<1>3. cur' \in [Readers -> Entries \cup {NULL}] /\ \A r \in Readers : cur'[r] # NULL => RefTo[cur'[r]] # NULL
  BY <1>1 DEF TypeInv, HeldEntries
<1>4. Settle(<<>>, Items, RefTo, Index, cur') /\ Index \in [Entries -> Int]
  BY <1>1 DEF TypeInv
<1> QED BY <1>2, <1>3, <1>4, SomeEdits

\* What becomes of the list at the end of UpdateCollection.
LEMMA ReplaceEdits ==
  ASSUME TypeInv, NEW c, Updating(c), ReplaceBy(c), cur' = cur
  PROVE  /\ Edited /\ Items' = c.new
         /\ \A i \in 1 .. Len(c.new) : Index'[c.new[i]] = i
         /\ \A x \in ToSet(c.new) : RefTo'[x] = c.refTo[x]
<1> DEFINE s == c.old \o c.new
           index == Numbered(c.new)
<1>0. NULL \notin Entries
  BY PlaylistAssumption
<1>1. Settle(c.new, s, c.refTo, index, cur') /\ IsList(c.new) /\ IsList(s)
  BY ConcatIs DEF ReplaceBy, Updating
<1>2. index \in [Entries -> Int] /\ \A i \in 1 .. Len(c.new) : index[c.new[i]] = i
  <2>1. index = [e \in Entries |-> IF Contains(c.new, e) THEN Pos(c.new, e) ELSE 0]
    BY DEF Numbered
  <2>2. \A e \in Entries : Contains(c.new, e) => Pos(c.new, e) \in Int
    BY <1>1, SeqIs, PosIs
  <2>3. \A i \in 1 .. Len(c.new) : c.new[i] \in Entries /\ Contains(c.new, c.new[i]) /\ Pos(c.new, c.new[i]) = i
    BY <1>1, SeqIs, PosIs
  <2> QED BY <2>1, <2>2, <2>3
<1> HIDE DEF s, index
<1>3. /\ c.refTo \in [Entries -> Songs \cup {NULL}] /\ (\A e \in ToSet(c.new) : c.refTo[e] # NULL)
      /\ \A e \in Entries : RefTo[e] # NULL => c.refTo[e] = RefTo[e]
  BY DEF Updating
<1>4. cur' \in [Readers -> Entries \cup {NULL}] /\ \A r \in Readers : cur'[r] # NULL => c.refTo[cur'[r]] # NULL
  BY <1>3 DEF TypeInv, HeldEntries
<1>5. after \in [Entries -> Entries \cup {NULL}]
  BY DEF TypeInv, HeldEntries
<1>6. /\ Items' = c.new /\ touched' = (touched \/ c.new # Items)
      /\ IsList(Items)' /\ Referring' /\ HeldEntries' /\ Index' \in [Entries -> Int]
      /\ \A e \in ToSet(c.new) : RefTo'[e] = c.refTo[e] /\ Index'[e] = index[e]
  BY <1>0, <1>1, <1>2, <1>3, <1>4, <1>5, SettleIs
<1>7. \A i \in 1 .. Len(c.new) : c.new[i] \in ToSet(c.new)
  BY <1>1, SeqIs
<1>8. \A e \in Member : e \in Entries /\ RefTo[e] # NULL
  BY SeqIs DEF TypeInv, Referring, Member
<1>9. Steady
  BY <1>3, <1>6, <1>8 DEF Steady
<1> QED BY <1>2, <1>6, <1>7, <1>9 DEF Edited

\* What Sort and Shuffle make of the list.
LEMMA RearrangeEdits ==
  ASSUME TypeInv, ~ IsFiniteSet(Entries), IsFiniteSet(Readers), NEW order \in SetToSeqs(Member), Rearrange(order)
  PROVE  /\ Edited /\ Items' = order /\ Len(order) = Len(Items) /\ Modified' = TRUE
         /\ \A i \in 1 .. Len(order) : Index'[order[i]] = i
<1> DEFINE c == UpdateCollection(order)
<1>0. Entries \subseteq Nat /\ NULL \notin Entries \cup Songs /\ Songs \cap Entries = {}
  BY PlaylistAssumption
<1>1. Listed
  BY ListedIs
<1>2. IsList(order) /\ ToSet(order) = Member /\ Len(order) = Len(Items)
  BY OrdersAre DEF TypeInv
<1>3. Updating(c) /\ c.new = order /\ c.old = <<>> /\ c.refTo = RefTo /\ (Len(order) > 1 => c.changed)
  BY <1>0, <1>1, <1>2, OrderIs
<1>4. ReplaceBy(c) /\ MarkModified(Changes(c)) /\ Len(Items) > 1 /\ cur' = cur
  BY DEF Rearrange, reading
<1> HIDE DEF c
<1>5. /\ Edited /\ Items' = c.new
      /\ \A i \in 1 .. Len(c.new) : Index'[c.new[i]] = i
  BY <1>3, <1>4, ReplaceEdits
<1>6. Modified' = TRUE
  <2>1. Changes(c)
    BY <1>2, <1>3, <1>4 DEF Changes
  <2> QED BY <1>4, <2>1 DEF MarkModified
<1> QED BY <1>2, <1>3, <1>5, <1>6

\* LoadCommit replaces the list by what was read.
LEMMA CommitEdits ==
  ASSUME TypeInv, ~ IsFiniteSet(Entries), IsFiniteSet(Readers), NEW l \in Loaders, LoadCommit(l),
         read[l] # NULL, "Child" \in upd[l]
  PROVE  LET c == UpdateCollection(read[l])
         IN  /\ Edited /\ Items' = c.new /\ FromSongs(c, read[l], Len(read[l])) /\ read[l] \in Seq(Songs)
             /\ \A i \in 1 .. Len(c.new) : Index'[c.new[i]] = i
             /\ \A x \in ToSet(c.new) : RefTo'[x] = c.refTo[x]
<1> DEFINE s == read[l]
           c == UpdateCollection(s)
<1>0. Entries \subseteq Nat /\ NULL \notin Entries \cup Songs /\ Songs \cap Entries = {} /\ Files \subseteq Seq(Songs) \cup {NULL}
  BY PlaylistAssumption
<1>1. Listed
  BY ListedIs
<1>2. s \in Seq(Songs)
  BY <1>0 DEF TypeInv
<1>3. ReplaceBy(c) /\ cur' = cur
  BY DEF LoadCommit, reading
<1>4. FromSongs(c, s, Len(s))
  BY <1>0, <1>1, <1>2, SongsAre
<1> HIDE DEF s, c
<1>5. Updating(c)
  BY <1>4 DEF FromSongs
<1>6. /\ Edited /\ Items' = c.new
      /\ \A i \in 1 .. Len(c.new) : Index'[c.new[i]] = i
      /\ \A x \in ToSet(c.new) : RefTo'[x] = c.refTo[x]
  BY <1>3, <1>5, ReplaceEdits
<1> QED BY <1>2, <1>4, <1>6 DEF c, s

\* The list does not depend on who holds its entries.
LEMMA TakeEdits ==
  ASSUME TypeInv, NEW r \in Readers, Take(r)
  PROVE  /\ Edited /\ Items' = Items /\ \A x \in Member : RefTo'[x] = RefTo[x] /\ Index'[x] = Index[x]
<1> DEFINE e == found[r]
           gone == e # NULL /\ e \in Free
<1>1. cur' = [cur EXCEPT ![r] = IF gone THEN NULL ELSE e] /\ Settle(Items, Items, RefTo, Index, cur')
  BY DEF Take
<1>2. e \in Entries \cup {NULL} /\ cur \in [Readers -> Entries \cup {NULL}]
      /\ \A q \in Readers : cur[q] # NULL => RefTo[cur[q]] # NULL
  BY DEF TypeInv, HeldEntries
<1>3. ~ gone /\ e # NULL => RefTo[e] # NULL
  BY <1>2 DEF Free
<1> HIDE DEF gone, e
<1>4. cur' \in [Readers -> Entries \cup {NULL}] /\ \A q \in Readers : cur'[q] # NULL => RefTo[cur'[q]] # NULL
  <2>1. cur' \in [Readers -> Entries \cup {NULL}]
    BY <1>1, <1>2
  <2>2. ASSUME NEW q \in Readers, cur'[q] # NULL PROVE RefTo[cur'[q]] # NULL
    <3>1. CASE q = r
      BY <1>1, <1>2, <1>3, <2>2, <3>1
    <3>2. CASE q # r
      BY <1>1, <1>2, <2>2, <3>2
    <3> QED BY <3>1, <3>2
  <2> QED BY <2>1, <2>2
<1>5. IsList(Items) /\ Index \in [Entries -> Int] /\ ToSet(Items) = Member /\ ToSet(Items) \subseteq Member
  BY DEF TypeInv, Member
<1>6. Edited /\ Items' = Items /\ (\A x \in ToSet(Items) : RefTo'[x] = RefTo[x] /\ Index'[x] = Index[x])
  BY <1>1, <1>4, <1>5, SomeEdits
<1> QED BY <1>5, <1>6

(***************************************************************************)
(* Every step keeps the first part of the invariant.                       *)
(***************************************************************************)

\* The rest of it.
Remaining ==
  /\ num_items \in Int /\ playlist \in BOOLEAN /\ Modified \in BOOLEAN
  /\ InService \subseteq Flags
  /\ at = [t \in Loaders \cup Readers |-> at[t]]
  /\ upd \in [Loaders -> SUBSET Flags] /\ read \in [Loaders -> Files \cup {NULL}]
  /\ found \in [Readers -> Entries \cup {NULL}]

\* A step that leaves the entries alone.
LEMMA SameEntries ==
  ASSUME TypeInv, UNCHANGED <<Items, RefTo, Index, after, cur>>
  PROVE  IsList(Items)' /\ Referring' /\ HeldEntries' /\ Index' \in [Entries -> Int]
         /\ Items' = Items /\ RefTo' = RefTo
<1>1. IsList(Items)'
  BY DEF TypeInv, IsList, Distinct
<1>2. Member' = Member
  BY DEF Member
<1> QED BY <1>1, <1>2 DEF TypeInv, Referring, HeldEntries

\* Every edit preserves the first invariant.
LEMMA EditType ==
  ASSUME TypeInv, ~ IsFiniteSet(Entries), IsFiniteSet(Readers), Edit
  PROVE  TypeInv' /\ Steady
<1>1. CASE \E song \in Songs, before \in Member \cup {NULL} : InsertItem(song, before)
  <2>1. PICK song \in Songs, before \in Member \cup {NULL} : InsertItem(song, before)
    BY <1>1
  <2>2. Edited
    BY <2>1, InsertEdits
  <2>3. Remaining'
    BY <2>1 DEF InsertItem, MarkModified, TypeInv, Remaining, loading, reading
  <2> QED BY <2>2, <2>3 DEF Edited, TypeInv, Remaining
<1>2. CASE \E e \in Member, before \in Member \cup {NULL} : MoveItem(e, before)
  <2>1. PICK e \in Member, before \in Member \cup {NULL} : MoveItem(e, before)
    BY <1>2
  <2>2. Edited
    BY <2>1, MoveEdits
  <2>3. Remaining'
    BY <2>1 DEF MoveItem, MarkModified, TypeInv, Remaining, loading, reading
  <2> QED BY <2>2, <2>3 DEF Edited, TypeInv, Remaining
<1>3. CASE \E e \in Member : RemoveItem(e)
  <2>1. PICK e \in Member : RemoveItem(e)
    BY <1>3
  <2>2. Edited
    BY <2>1, RemoveEdits
  <2>3. Remaining'
    BY <2>1 DEF RemoveItem, MarkModified, TypeInv, Remaining, loading, reading
  <2> QED BY <2>2, <2>3 DEF Edited, TypeInv, Remaining
<1>4. CASE Clear
  <2>2. Edited
    BY <1>4, ClearEdits
  <2>1. Modified' = TRUE \/ Modified' = Modified
    BY <1>4 DEF Clear, MarkModified
  <2>3. Remaining'
    <3>1. num_items' = 0 /\ UNCHANGED <<playlist, InService, at, loading, reading>>
      BY <1>4 DEF Clear
    <3>2. Modified' \in BOOLEAN /\ playlist' \in BOOLEAN
      BY <2>1, <3>1, Zenon DEF TypeInv
    <3> QED BY <3>1, <3>2 DEF TypeInv, Remaining, loading, reading
  <2> QED BY <2>2, <2>3 DEF Edited, TypeInv, Remaining
<1>5. CASE \E order \in SetToSeqs(Member) : Rearrange(order)
  <2>1. PICK order \in SetToSeqs(Member) : Rearrange(order)
    BY <1>5
  <2>2. Edited /\ Modified' = TRUE
    BY <2>1, RearrangeEdits
  <2>3. Remaining'
    BY <2>1, <2>2 DEF Rearrange, TypeInv, Remaining, loading, reading
  <2> QED BY <2>2, <2>3 DEF Edited, TypeInv, Remaining
<1>6. CASE ChildChangeNotification
  <2>1. TypeInv'
    <3>1. IsList(Items)' /\ Referring' /\ HeldEntries' /\ Index' \in [Entries -> Int]
      BY <1>6, SameEntries DEF ChildChangeNotification, list, reading
    <3>2. Remaining'
      BY <1>6 DEF ChildChangeNotification, MarkModified, TypeInv, Remaining, loading, reading
    <3> QED BY <3>1, <3>2 DEF TypeInv, Remaining
  <2>2. Steady
    BY <1>6 DEF ChildChangeNotification, list, Steady
  <2> QED BY <2>1, <2>2
<1> QED BY <1>1, <1>2, <1>3, <1>4, <1>5, <1>6 DEF Edit

\* So does every step of a loader,
LEMMA LoadType ==
  ASSUME TypeInv, ~ IsFiniteSet(Entries), IsFiniteSet(Readers), NEW l \in Loaders, Load(l)
  PROVE  TypeInv'
<1>0. Requests \subseteq SUBSET Flags
  BY PlaylistAssumption DEF Flags
<1>1. CASE LoadBegin(l)
  <2>1. IsList(Items)' /\ Referring' /\ HeldEntries' /\ Index' \in [Entries -> Int]
    BY <1>1, SameEntries DEF LoadBegin, list, reading
  <2>2. PICK what \in Requests : BeginUpdate(l, what)
    BY <1>1 DEF LoadBegin
  <2>3. InService' \subseteq Flags /\ upd' \in [Loaders -> SUBSET Flags]
    BY <1>0, <2>2 DEF BeginUpdate, TypeInv
  <2>4. Remaining'
    BY <1>1, <2>3 DEF LoadBegin, Goto, TypeInv, Remaining, info, reading
  <2> QED BY <2>1, <2>4 DEF TypeInv, Remaining
<1>2. CASE DecoderFileInfo(l)
  <2>1. IsList(Items)' /\ Referring' /\ HeldEntries' /\ Index' \in [Entries -> Int]
    BY <1>2, SameEntries DEF DecoderFileInfo, list, reading
  <2>2. BeginUpdate(l, Flags) /\ \E content \in Files : read' = [read EXCEPT ![l] = content]
    BY <1>2 DEF DecoderFileInfo
  <2>3. InService' \subseteq Flags /\ upd' \in [Loaders -> SUBSET Flags] /\ read' \in [Loaders -> Files \cup {NULL}]
    BY <2>2 DEF BeginUpdate, TypeInv
  <2>4. Remaining'
    BY <1>2, <2>3 DEF DecoderFileInfo, Goto, TypeInv, Remaining, info, reading
  <2> QED BY <2>1, <2>4 DEF TypeInv, Remaining
<1>3. CASE LoadCommit(l)
  <2>1. IsList(Items)' /\ Referring' /\ HeldEntries' /\ Index' \in [Entries -> Int] /\ (Modified' = FALSE \/ Modified' = Modified)
    <3>1. CASE read[l] # NULL /\ "Child" \in upd[l]
      <4>1. Edited
        BY <1>3, <3>1, CommitEdits
      <4>2. Modified' = FALSE
        BY <1>3, <3>1 DEF LoadCommit
      <4> QED BY <4>1, <4>2 DEF Edited
    <3>2. CASE ~ (read[l] # NULL /\ "Child" \in upd[l])
      <4>1. UNCHANGED <<list, Modified, cur>>
        BY <1>3, <3>2 DEF LoadCommit, reading
      <4> QED BY <4>1, SameEntries DEF list
    <3> QED BY <3>1, <3>2
  <2>2. num_items' \in Int
    <3>1. read[l] # NULL => read[l] \in Seq(Songs)
      BY PlaylistAssumption DEF TypeInv
    <3>2. read[l] # NULL => Len(read[l]) \in Int
      BY <3>1
    <3> QED BY <1>3, <3>2 DEF LoadCommit
  <2>3. playlist' \in BOOLEAN /\ Modified' \in BOOLEAN
    BY <1>3, <2>1, Zenon DEF LoadCommit, TypeInv
  <2>4. Remaining'
    BY <1>3, <2>2, <2>3 DEF LoadCommit, Goto, TypeInv, Remaining, reading
  <2> QED BY <2>1, <2>4 DEF TypeInv, Remaining
<1> QED BY <1>1, <1>2, <1>3 DEF Load

\* and every step of an iteration,
LEMMA ReadType ==
  ASSUME TypeInv, NEW r \in Readers, Read(r)
  PROVE  TypeInv'
<1>0. NULL \notin Entries
  BY PlaylistAssumption
<1>1. CASE Iterate(r)
  <2>1. IsList(Items)' /\ Referring' /\ HeldEntries' /\ Index' \in [Entries -> Int]
    BY <1>1, SameEntries DEF Iterate
  <2>2. Remaining'
    BY <1>1 DEF Iterate, Goto, TypeInv, Remaining, info, loading
  <2> QED BY <2>1, <2>2 DEF TypeInv, Remaining
<1>2. CASE GetNext(r)
  <2>1. IsList(Items)' /\ Referring' /\ HeldEntries' /\ Index' \in [Entries -> Int]
    BY <1>2, SameEntries DEF GetNext
  <2>2. found' \in [Readers -> Entries \cup {NULL}]
    <3> DEFINE e == IF ~ playlist THEN NULL
                    ELSE IF cur[r] = NULL \/ Contains(Items, cur[r]) THEN NextOf(Items, cur[r])
                    ELSE after[cur[r]]
    <3>1. IsList(Items) /\ cur[r] \in Entries \cup {NULL} /\ after \in [Entries -> Entries \cup {NULL}]
      BY DEF TypeInv, HeldEntries
    <3>2. CASE cur[r] = NULL \/ Contains(Items, cur[r])
      <4>1. cur[r] \in ToSet(Items) \cup {NULL}
        BY <3>1, <3>2, SeqIs
      <4>2. NextOf(Items, cur[r]) \in Entries \cup {NULL}
        BY <1>0, <3>1, <4>1, NextOfType, SeqIs
      <4> QED BY <1>2, <3>2, <4>2 DEF GetNext, TypeInv
    <3>3. CASE ~ (cur[r] = NULL \/ Contains(Items, cur[r]))
      <4>1. after[cur[r]] \in Entries \cup {NULL}
        BY <3>1, <3>3
      <4> QED BY <1>2, <3>3, <4>1 DEF GetNext, TypeInv
    <3> QED BY <3>2, <3>3
  <2>3. Remaining'
    BY <1>2, <2>2 DEF GetNext, Goto, TypeInv, Remaining, info, loading
  <2> QED BY <2>1, <2>3 DEF TypeInv, Remaining
<1>3. CASE Take(r)
  <2>1. Edited
    BY <1>3, TakeEdits
  <2>2. Remaining'
    BY <1>3 DEF Take, Goto, TypeInv, Remaining, info, loading
  <2> QED BY <2>1, <2>2 DEF Edited, TypeInv, Remaining
<1> QED BY <1>1, <1>2, <1>3 DEF Read

\* and so every step.
LEMMA TypeNext ==
  ASSUME TypeInv, ~ IsFiniteSet(Entries), IsFiniteSet(Readers), [Next]_vars
  PROVE  TypeInv'
<1>1. CASE Edit
  BY <1>1, EditType
<1>2. CASE \E l \in Loaders : Load(l)
  BY <1>2, LoadType
<1>3. CASE \E what \in Invalidations : Invalidate(what)
  <2>1. UNCHANGED <<Items, RefTo, Index, after, cur>>
    BY <1>3 DEF Invalidate, list, reading
  <2>2. Remaining'
    BY <1>3 DEF Invalidate, info, loading, reading, TypeInv, Remaining
  <2> QED BY <2>1, <2>2, SameEntries DEF TypeInv, Remaining
<1>4. CASE \E r \in Readers : Read(r)
  BY <1>4, ReadType
<1>5. CASE SaveFile
  <2>1. UNCHANGED <<Items, RefTo, Index, after, cur>>
    BY <1>5 DEF SaveFile, list
  <2>2. Remaining'
    BY <1>5 DEF SaveFile, Goto, list, info, loading, TypeInv, Remaining
  <2> QED BY <2>1, <2>2, SameEntries DEF TypeInv, Remaining
<1>6. CASE SaveDone
  <2>1. UNCHANGED <<Items, RefTo, Index, after, cur>>
    BY <1>6 DEF SaveDone, reading
  <2>2. Remaining'
    BY <1>6 DEF SaveDone, Goto, loading, reading, TypeInv, Remaining
  <2> QED BY <2>1, <2>2, SameEntries DEF TypeInv, Remaining
<1>7. CASE UNCHANGED vars
  <2>1. UNCHANGED <<Items, RefTo, Index, after, cur>>
    BY <1>7 DEF vars, list, reading
  <2>2. Remaining'
    BY <1>7 DEF vars, info, loading, reading, TypeInv, Remaining
  <2> QED BY <2>1, <2>2, SameEntries DEF TypeInv, Remaining
<1> QED BY <1>1, <1>2, <1>3, <1>4, <1>5, <1>6, <1>7 DEF Next

\* The first invariant is stronger than TypeOK.
LEMMA TypeInvImplies ==
  ASSUME TypeInv
  PROVE  TypeOK
<1>1. Items \in Seq(Entries) /\ Cardinality(Member) = Len(Items)
  BY ListFinite DEF TypeInv, IsList, Member
<1>2. \A r \in Readers : cur[r] \in Entries \cup {NULL} /\ (cur[r] # NULL => RefTo[cur[r]] # NULL)
  BY DEF TypeInv, HeldEntries
<1>3. \A e \in Entries : after[e] # NULL => e \notin Member /\ \E r \in Readers : cur[r] = e
  BY DEF TypeInv, HeldEntries
<1>4. RefTo \in [Entries -> Songs \cup {NULL}] /\ \A e \in Member : RefTo[e] # NULL
  BY DEF TypeInv, Referring
<1>5. /\ Index \in [Entries -> Int] /\ num_items \in Int /\ playlist \in BOOLEAN /\ Modified \in BOOLEAN
      /\ InService \subseteq Flags /\ \A l \in Loaders : upd[l] \subseteq Flags
  BY DEF TypeInv
<1> QED BY <1>1, <1>2, <1>3, <1>4, <1>5 DEF TypeOK

\* The entries of a playlist are consistent whatever is edited, loaded and iterated:
\* no entry is in the list twice, who is in it or held exists, and only an entry that is
\* held but in the list no more remembers its Next - as long as there is memory for one more entry.
THEOREM TypeCorrect ==
  ASSUME ~ IsFiniteSet(Entries), IsFiniteSet(Readers)
  PROVE  Spec => []TypeOK
<1>1. Init => TypeInv
  BY TypeInit, PlaylistAssumption
<1>2. TypeInv /\ [Next]_vars => TypeInv'
  BY TypeNext
<1>3. TypeInv => TypeOK
  BY TypeInvImplies
<1> QED BY <1>1, <1>2, <1>3, PTL DEF Spec

\* It is all that Sort and Shuffle need.
LEMMA OrdersBecome ==
  ASSUME TypeInv, ~ IsFiniteSet(Entries), IsFiniteSet(Readers)
  PROVE  RearrangedAsOrdered
<1>0. Entries \subseteq Nat /\ NULL \notin Entries \cup Songs /\ Songs \cap Entries = {}
  BY PlaylistAssumption
<1>1. Listed /\ IsList(Items)
  BY ListedIs DEF TypeInv
<1>2. ASSUME NEW order \in SetToSeqs(Member)
      PROVE  LET c == UpdateCollection(order) IN c.new = order /\ c.old = <<>> /\ c.refTo = RefTo
  <2>1. IsList(order) /\ ToSet(order) = Member
    BY <1>1, OrdersAre
  <2> QED BY <1>0, <1>1, <2>1, OrderIs
<1> QED BY <1>2 DEF RearrangedAsOrdered

\* UpdateCollection puts the entries in any order it is given, and takes every entry for
\* itself, even if another refers to the same song.
THEOREM RearrangesAsOrdered ==
  ASSUME ~ IsFiniteSet(Entries), IsFiniteSet(Readers)
  PROVE  Spec => []RearrangedAsOrdered
<1>1. Init => TypeInv
  BY TypeInit, PlaylistAssumption
<1>2. TypeInv /\ [Next]_vars => TypeInv'
  BY TypeNext
<1>3. TypeInv => RearrangedAsOrdered
  BY OrdersBecome
<1> QED BY <1>1, <1>2, <1>3, PTL DEF Spec

(***************************************************************************)
(* The index of an entry is its place.                                     *)
(***************************************************************************)

\* The places from p on are counted from k.
LEMMA RenumberRest ==
  ASSUME NULL \notin Entries, NEW s, IsList(s), NEW p \in 1 .. Len(s), NEW k \in Int, Index \in [Entries -> Int]
  PROVE  \A i \in 1 .. Len(s) : Renumber(s, s[p], NULL, k)[s[i]] = IF p <= i THEN k + i - p ELSE Index[s[i]]
<1>1. Len(s) \in Nat /\ Len(s) \in 0 .. Len(s)
  BY SeqIs
<1>2. Ends(s, Len(s), NULL)
  BY <1>1 DEF Ends
<1>3. Renumbered(s, p, Len(s), k, Renumber(s, s[p], NULL, k))
  BY <1>2, RenumberIs
<1> HIDE DEF Renumber
<1> QED BY <1>1, <1>3 DEF Renumbered

\* An entry that is inserted, and all that follow it, are counted anew.
LEMMA InsertCounts ==
  ASSUME TypeInv, IndexConsistent, ~ IsFiniteSet(Entries), IsFiniteSet(Readers),
         NEW song \in Songs, NEW before \in Member \cup {NULL}, InsertItem(song, before), playlist' /\ ~ skewed'
  PROVE  CountsRight'
<1> DEFINE e == Min(Free)
           n == Len(Items)
           items == Insert(Items, e, before)
           p == Place(Items, before)
           first == IF before = NULL THEN num_items' ELSE Index[before]
           index == Renumber(items, e, NULL, first)
           new == ~ playlist /\ "Tech" \notin InService
<1>0. NULL \notin Entries
  BY PlaylistAssumption
<1>1. /\ Edited /\ Items' = items /\ e \in Entries /\ e \notin Member
      /\ Index'[e] = index[e] /\ \A x \in Member : Index'[x] = index[x]
  BY InsertEdits
<1>2. /\ num_items' = IF new THEN 1 ELSE num_items + 1
      /\ skewed' = IF new THEN Items # <<>> ELSE skewed \/ ~ playlist
  BY DEF InsertItem
<1>3. IsList(Items) /\ ToSet(Items) = Member /\ n \in Nat /\ Index \in [Entries -> Int]
      /\ \A i \in 1 .. n : Items[i] \in Member
  <2>1. IsList(Items) /\ ToSet(Items) = Member /\ Index \in [Entries -> Int]
    BY DEF TypeInv, Member
  <2> QED BY <2>1, SeqIs
<1> HIDE DEF e
<1>4. /\ p \in 1 .. n + 1 /\ IsList(items) /\ Len(items) = n + 1 /\ (before # NULL => p <= n /\ Items[p] = before)
      /\ \A i \in 1 .. n + 1 : items[i] = IF i < p THEN Items[i] ELSE IF i = p THEN e ELSE Items[i - 1]
  BY <1>0, <1>1, <1>3, InsertIs
<1>5. /\ num_items' = n + 1 /\ first = p
      /\ \A i \in 1 .. n : i < p => Index[Items[i]] = i
  <2>1. CASE new
    <3>1. Items = <<>> /\ num_items' = 1
      BY <1>2, <2>1
    <3>2. n = 0 /\ before = NULL
      BY <1>3, <3>1 DEF Member, ToSet
    <3>3. p = 1
      BY <3>2 DEF Place
    <3> QED BY <3>1, <3>2, <3>3
  <2>2. CASE ~ new
    <3>1. playlist /\ ~ skewed
      BY <1>2, <2>2
    <3>2. num_items = n /\ \A i \in 1 .. n : Index[Items[i]] = i
      BY <1>3, <3>1, SeqIs DEF IndexConsistent, CountsRight
    <3>3. num_items' = n + 1
      BY <1>2, <2>2, <3>2
    <3>4. CASE before = NULL
      BY <3>2, <3>3, <3>4 DEF Place
    <3>5. CASE before # NULL
      <4>1. p \in 1 .. n /\ first = Index[Items[p]]
        BY <1>3, <1>4, <3>5
      <4> HIDE DEF p, first, n
      <4> QED BY <3>2, <3>3, <4>1
    <3> QED BY <3>4, <3>5
  <2> QED BY <2>1, <2>2
<1> HIDE DEF first, p, items
<1>6. p \in 1 .. Len(items) /\ Len(items) \in 0 .. Len(items) /\ first \in Int /\ e = items[p]
  BY <1>3, <1>4, <1>5
<1>7. \A i \in 1 .. Len(items) : Renumber(items, items[p], NULL, first)[items[i]]
                                 = IF p <= i THEN first + i - p ELSE Index[items[i]]
  <2>1. IsList(items) /\ Index \in [Entries -> Int] /\ p \in 1 .. Len(items) /\ first \in Int
    BY <1>3, <1>4, <1>6
  <2> QED BY <1>0, <2>1, RenumberRest
<1>8. ASSUME NEW i \in 1 .. n + 1 PROVE Index'[items[i]] = i
  <2>1. index[items[i]] = IF p <= i THEN p + i - p ELSE Index[items[i]]
    BY <1>3, <1>4, <1>5, <1>6, <1>7
  <2>2. index[items[i]] = i
    <3>1. CASE p <= i
      BY <1>3, <1>4, <2>1, <3>1
    <3>2. CASE ~ (p <= i)
      <4>1. i < p /\ i \in 1 .. n
        BY <1>3, <1>4, <3>2
      <4> HIDE DEF index
      <4> QED BY <1>4, <1>5, <2>1, <3>2, <4>1
    <3> QED BY <3>1, <3>2
  <2>3. items[i] = e \/ items[i] \in Member
    <3>1. i - 1 \in 1 .. n \/ i = 1
      BY <1>3
    <3>2. i \in 1 .. n \/ i = n + 1
      BY <1>3
    <3> HIDE DEF n
    <3> QED BY <1>3, <1>4, <3>1, <3>2
  <2> HIDE DEF index
  <2> QED BY <1>1, <2>2, <2>3
<1>9. Len(Items') = n + 1 /\ DOMAIN Items' = 1 .. n + 1
  BY <1>1, <1>4, SeqIs
<1> QED BY <1>1, <1>5, <1>8, <1>9 DEF CountsRight

\* A removal counts what follows from the index of the removed entry.
LEMMA RemoveCounts ==
  ASSUME TypeInv, CountsRight, NEW e \in Member, RemoveItem(e)
  PROVE  CountsRight'
<1> DEFINE n == Len(Items)
           items == Without(Items, e)
           next == NextOf(Items, e)
           index == Renumber(Items, next, NULL, Index[e])
<1>0. NULL \notin Entries
  BY PlaylistAssumption
<1>1. Items' = items /\ \A x \in ToSet(items) : Index'[x] = index[x]
  BY RemoveEdits
<1>2. IsList(Items) /\ n \in Nat /\ Index \in [Entries -> Int]
      /\ \A i \in 1 .. n : Index[Items[i]] = i
  <2>1. IsList(Items) /\ Index \in [Entries -> Int]
    BY DEF TypeInv
  <2> QED BY <2>1, SeqIs DEF CountsRight
<1>3. num_items' = n - 1
  BY DEF RemoveItem, CountsRight
<1>4. PICK a \in 1 .. n : Items[a] = e
  BY <1>2, SeqIs DEF Member
<1>5. IsList(items) /\ Len(items) = n - 1 /\ \A i \in 1 .. n - 1 : items[i] = IF i < a THEN Items[i] ELSE Items[i + 1]
  BY <1>2, <1>4, WithoutIs
<1>6. next = IF a = n THEN NULL ELSE Items[a + 1]
  BY <1>0, <1>2, <1>4, NextOfIs
<1>7. Index[e] = a
  BY <1>2, <1>4
<1> HIDE DEF items, next
<1>8. ASSUME NEW i \in 1 .. n PROVE index[Items[i]] = IF a < i THEN i - 1 ELSE i
  <2>1. CASE a = n
    <3>1. index = Index
      BY <1>6, <2>1 DEF Renumber
    <3>2. ~ (a < i)
      BY <2>1, <1>2
    <3> HIDE DEF index
    <3> QED BY <1>2, <3>1, <3>2
  <2>2. CASE a # n
    <3>1. a + 1 \in 1 .. n /\ n \in 0 .. n /\ a \in Int /\ next = Items[a + 1]
      BY <1>2, <1>6, <2>2
    <3>2. Renumber(Items, Items[a + 1], NULL, a)[Items[i]]
          = IF a + 1 <= i THEN a + i - (a + 1) ELSE Index[Items[i]]
      <4>1. IsList(Items) /\ Index \in [Entries -> Int]
        BY <1>2
      <4> QED BY <1>0, <3>1, <4>1, RenumberRest
    <3>3. index = Renumber(Items, Items[a + 1], NULL, a)
      BY <1>7, <3>1
    <3> HIDE DEF index
    <3>4. index[Items[i]] = IF a + 1 <= i THEN a + i - (a + 1) ELSE i
      <4>1. Index[Items[i]] = i
        BY <1>2
      <4> QED BY <3>2, <3>3, <4>1
    <3>5. i \in Int /\ a \in Int
      BY <1>2
    <3> QED BY <3>4, <3>5
  <2> QED BY <2>1, <2>2
<1>9. ASSUME NEW i \in 1 .. n - 1 PROVE Index'[items[i]] = i
  <2>1. i \in 1 .. n /\ i + 1 \in 1 .. n
    BY <1>2
  <2>2. index[items[i]] = i
    <3> HIDE DEF index, n
    <3>1. CASE i < a
      BY <1>2, <1>4, <1>5, <1>8, <2>1, <3>1
    <3>2. CASE ~ (i < a)
      <4>1. items[i] = Items[i + 1] /\ a < i + 1
        BY <1>2, <1>4, <1>5, <3>2
      <4>2. index[Items[i + 1]] = i + 1 - 1
        BY <1>8, <2>1, <4>1
      <4> QED BY <1>2, <4>1, <4>2
    <3> QED BY <3>1, <3>2
  <2>3. items[i] \in ToSet(items)
    BY <1>5, SeqIs
  <2> HIDE DEF index
  <2> QED BY <1>1, <2>2, <2>3
<1>10. Len(Items') = n - 1 /\ DOMAIN Items' = 1 .. n - 1
  BY <1>1, <1>5, SeqIs
<1> QED BY <1>1, <1>3, <1>9, <1>10 DEF CountsRight

\* A move counts the range between the two places from the one at its beginning.
LEMMA MoveCounts ==
  ASSUME TypeInv, CountsRight, NEW e \in Member, NEW before \in Member \cup {NULL}, MoveItem(e, before)
  PROVE  CountsRight'
<1> DEFINE n == Len(Items)
           m == Move(Items, e, before)
           next == NextOf(Items, e)
           index == MovedIndex(e, before)
<1>0. NULL \notin Entries
  BY PlaylistAssumption
<1>1. Items' = m /\ \A x \in Member : Index'[x] = index[x]
  BY MoveEdits
<1>2. IsList(Items) /\ n \in Nat /\ Index \in [Entries -> Int] /\ ToSet(Items) = Member
      /\ \A i \in 1 .. n : Index[Items[i]] = i
  <2>1. IsList(Items) /\ Index \in [Entries -> Int] /\ ToSet(Items) = Member
    BY DEF TypeInv, Member
  <2> QED BY <2>1, SeqIs DEF CountsRight
<1>3. num_items' = n /\ before # e /\ next # before
  BY DEF MoveItem, CountsRight
<1>4. PICK a \in 1 .. n : Items[a] = e
  BY <1>2, SeqIs
<1>5. /\ IsList(m) /\ Len(m) = n /\ ToSet(m) = Member
      /\ \E p \in 1 .. n : Moved(Items, m, a, p, before)
  <2>1. before \in ToSet(Items) \cup {NULL} /\ before # Items[a] /\ m = Move(Items, Items[a], before)
    BY <1>2, <1>3, <1>4
  <2> HIDE DEF m
  <2> QED BY <1>0, <1>2, <2>1, MoveIs
<1>p. PICK p \in 1 .. n : Moved(Items, m, a, p, before)
  BY <1>5
<1>6. /\ before = IF a <= p THEN (IF p = n THEN NULL ELSE Items[p + 1]) ELSE Items[p]
      /\ \A i \in 1 .. n : m[i] = IF i = p THEN Items[a]
                                  ELSE IF a <= i /\ i < p THEN Items[i + 1]
                                  ELSE IF p < i /\ i <= a THEN Items[i - 1]
                                  ELSE Items[i]
  <2> HIDE DEF m
  <2> QED BY <1>p DEF Moved
<1>7. next = IF a = n THEN NULL ELSE Items[a + 1]
  BY <1>0, <1>2, <1>4, NextOfIs
<1>8. p # a
  BY <1>3, <1>6, <1>7
<1>9. Index[e] = a /\ \A i \in 1 .. n : Items[i] # NULL /\ Items[i] \in Entries
  BY <1>0, <1>2, <1>4, SeqIs
<1>10. index = IF before = NULL \/ (before # NULL /\ Index[e] < Index[before])
               THEN Renumber(m, next, before, Index[e])
               ELSE Renumber(m, e, next, Index[before])
  BY DEF MovedIndex
<1> HIDE DEF m, next, index, n
<1>11. ASSUME NEW i \in 1 .. n PROVE index[m[i]] = i
  <2>1. CASE a < p
    <3>1. before = (IF p = n THEN NULL ELSE Items[p + 1]) /\ (p # n => p + 1 \in 1 .. n)
      BY <1>2, <1>4, <1>6, <2>1
    <3>2. before = NULL \/ (before # NULL /\ Index[e] < Index[before])
      BY <1>2, <1>9, <2>1, <3>1
    <3>3. a + 1 \in 1 .. n /\ next = Items[a + 1] /\ m[a] = Items[a + 1]
      BY <1>2, <1>4, <1>6, <1>7, <2>1
    <3>4. before = IF p = Len(m) THEN NULL ELSE m[p + 1]
      BY <1>2, <1>4, <1>5, <1>6, <2>1, <3>1
    <3>5. index = Renumber(m, m[a], before, a)
      BY <1>9, <1>10, <3>2, <3>3
    <3>6. a \in 1 .. Len(m) /\ p \in 0 .. Len(m) /\ a \in Int
      BY <1>2, <1>4, <1>5
    <3>7. index[m[i]] = IF a <= i /\ i <= p THEN a + i - a ELSE Index[m[i]]
      <4>1. IsList(m) /\ Index \in [Entries -> Int] /\ i \in 1 .. Len(m)
        BY <1>2, <1>5
      <4>2. Ends(m, p, before)
        BY <3>4, <3>6 DEF Ends
      <4>3. Renumbered(m, a, p, a, index)
        BY <1>0, <3>5, <3>6, <4>1, <4>2, RenumberIs
      <4> QED BY <4>1, <4>3 DEF Renumbered
    <3>8. CASE a <= i /\ i <= p
      BY <1>2, <1>4, <3>7, <3>8
    <3>9. CASE ~ (a <= i /\ i <= p)
      <4>1. m[i] = Items[i]
        BY <1>2, <1>4, <1>6, <2>1, <3>9
      <4> QED BY <1>2, <3>7, <3>9, <4>1
    <3> QED BY <3>8, <3>9
  <2>2. CASE p < a
    <3>1. before = Items[p] /\ before # NULL /\ Index[before] = p
      BY <1>2, <1>4, <1>6, <1>9, <2>2
    <3>2. ~ (before = NULL \/ (before # NULL /\ Index[e] < Index[before]))
      BY <1>2, <1>4, <1>9, <2>2, <3>1
    <3>3. m[p] = e
      BY <1>4, <1>6
    <3>4. next = IF a = Len(m) THEN NULL ELSE m[a + 1]
      BY <1>2, <1>4, <1>5, <1>6, <1>7, <2>2
    <3>5. index = Renumber(m, m[p], next, p)
      BY <1>10, <3>1, <3>2, <3>3
    <3>6. p \in 1 .. Len(m) /\ a \in 0 .. Len(m) /\ p \in Int
      BY <1>2, <1>4, <1>5
    <3>7. index[m[i]] = IF p <= i /\ i <= a THEN p + i - p ELSE Index[m[i]]
      <4>1. IsList(m) /\ Index \in [Entries -> Int] /\ i \in 1 .. Len(m)
        BY <1>2, <1>5
      <4>2. Ends(m, a, next)
        BY <3>4, <3>6 DEF Ends
      <4>3. Renumbered(m, p, a, p, index)
        BY <1>0, <3>5, <3>6, <4>1, <4>2, RenumberIs
      <4> QED BY <4>1, <4>3 DEF Renumbered
    <3>8. CASE p <= i /\ i <= a
      BY <1>2, <1>4, <3>7, <3>8
    <3>9. CASE ~ (p <= i /\ i <= a)
      <4>1. m[i] = Items[i]
        BY <1>2, <1>4, <1>6, <2>2, <3>9
      <4> QED BY <1>2, <3>7, <3>9, <4>1
    <3> QED BY <3>8, <3>9
  <2> QED BY <1>4, <1>8, <2>1, <2>2
<1>12. \A i \in 1 .. n : Index'[m[i]] = i
  <2>1. \A i \in 1 .. n : m[i] \in Member
    BY <1>5, SeqIs
  <2> QED BY <1>1, <1>11, <2>1
<1>13. Len(Items') = n /\ DOMAIN Items' = 1 .. n
  BY <1>1, <1>5, SeqIs
<1> QED BY <1>1, <1>3, <1>12, <1>13 DEF CountsRight

\* Who is in the list keeps its place and its index.
LEMMA SameCounts ==
  ASSUME TypeInv, Items' = Items, num_items' = num_items, \A x \in Member : Index'[x] = Index[x], CountsRight
  PROVE  CountsRight'
<1>1. \A i \in DOMAIN Items : Items[i] \in Member
  BY DEF Member, ToSet
<1> QED BY <1>1 DEF CountsRight

\* A step that changes neither the list nor its numbers.
LEMMA SameConsistent ==
  ASSUME TypeInv, Items' = Items, num_items' = num_items, \A x \in Member : Index'[x] = Index[x],
         playlist' = playlist, skewed' = skewed, IndexConsistent
  PROVE  IndexConsistent'
<1> SUFFICES ASSUME playlist' /\ ~ skewed' PROVE CountsRight'
  BY DEF IndexConsistent
<1>1. CountsRight
  BY DEF IndexConsistent
<1> QED BY <1>1, SameCounts

\* Every edit keeps the numbers right.
LEMMA EditCounts ==
  ASSUME TypeInv, IndexConsistent, ~ IsFiniteSet(Entries), IsFiniteSet(Readers), Edit
  PROVE  IndexConsistent'
<1>1. CASE \E song \in Songs, before \in Member \cup {NULL} : InsertItem(song, before)
  BY <1>1, InsertCounts DEF IndexConsistent
<1>2. CASE \E e \in Member, before \in Member \cup {NULL} : MoveItem(e, before)
  <2>1. PICK e \in Member, before \in Member \cup {NULL} : MoveItem(e, before)
    BY <1>2
  <2>2. playlist' = playlist /\ skewed' = skewed
    BY <2>1 DEF MoveItem
  <2> QED BY <2>1, <2>2, MoveCounts DEF IndexConsistent
<1>3. CASE \E e \in Member : RemoveItem(e)
  <2>1. PICK e \in Member : RemoveItem(e)
    BY <1>3
  <2>2. playlist' = playlist /\ skewed' = skewed
    BY <2>1 DEF RemoveItem
  <2> QED BY <2>1, <2>2, RemoveCounts DEF IndexConsistent
<1>4. CASE Clear
  <2>1. Items' = <<>> /\ num_items' = 0
    BY <1>4, ClearEdits DEF Clear
  <2>2. CountsRight'
    BY <2>1 DEF CountsRight
  <2> QED BY <2>2 DEF IndexConsistent
<1>5. CASE \E order \in SetToSeqs(Member) : Rearrange(order)
  <2>1. PICK order \in SetToSeqs(Member) : Rearrange(order)
    BY <1>5
  <2>2. Items' = order /\ Len(order) = Len(Items) /\ Edited /\ \A i \in 1 .. Len(order) : Index'[order[i]] = i
    BY <2>1, RearrangeEdits
  <2>3. playlist' = playlist /\ skewed' = skewed /\ num_items' = num_items
    BY <2>1 DEF Rearrange
  <2>4. DOMAIN order = 1 .. Len(order)
    <3>1. IsList(order)
      BY <2>1, OrdersAre DEF TypeInv
    <3> QED BY <3>1, SeqIs
  <2> QED BY <2>2, <2>3, <2>4 DEF IndexConsistent, CountsRight
<1>6. CASE ChildChangeNotification
  BY <1>6, SameConsistent DEF ChildChangeNotification, list
<1> QED BY <1>1, <1>2, <1>3, <1>4, <1>5, <1>6 DEF Edit

\* So does a load, which counts anew.
LEMMA CommitCounts ==
  ASSUME TypeInv, IndexConsistent, ~ IsFiniteSet(Entries), IsFiniteSet(Readers), NEW l \in Loaders, LoadCommit(l)
  PROVE  IndexConsistent'
<1> SUFFICES ASSUME playlist' /\ ~ skewed' PROVE CountsRight'
  BY DEF IndexConsistent
<1>1. read[l] # NULL /\ upd[l] = Flags
  BY DEF LoadCommit
<1>2. "Child" \in upd[l]
  BY <1>1 DEF Flags
<1> DEFINE c == UpdateCollection(read[l])
<1>3. /\ Items' = c.new /\ FromSongs(c, read[l], Len(read[l]))
      /\ \A i \in 1 .. Len(c.new) : Index'[c.new[i]] = i
  BY <1>1, <1>2, CommitEdits
<1> HIDE DEF c
<1>4. num_items' = Len(read[l])
  BY <1>1 DEF LoadCommit
<1>5. Len(c.new) = Len(read[l]) /\ DOMAIN c.new = 1 .. Len(c.new)
  BY <1>3, SeqIs DEF FromSongs, Updating
<1> QED BY <1>3, <1>4, <1>5 DEF CountsRight

\* The indexes remain right with every step.
LEMMA IndexNext ==
  ASSUME TypeInv, IndexConsistent, ~ IsFiniteSet(Entries), IsFiniteSet(Readers), [Next]_vars
  PROVE  IndexConsistent'
<1>1. CASE Edit
  BY <1>1, EditCounts
<1>2. CASE \E l \in Loaders : Load(l)
  <2>1. PICK l \in Loaders : Load(l)
    BY <1>2
  <2>2. CASE LoadCommit(l)
    BY <2>2, CommitCounts
  <2>3. CASE LoadBegin(l) \/ DecoderFileInfo(l)
    BY <2>3, SameConsistent DEF LoadBegin, DecoderFileInfo, list, info, history
  <2> QED BY <2>1, <2>2, <2>3 DEF Load
<1>3. CASE \E what \in Invalidations : Invalidate(what)
  BY <1>3, SameConsistent DEF Invalidate, list, info, history
<1>4. CASE \E r \in Readers : Read(r)
  <2>1. PICK r \in Readers : Read(r)
    BY <1>4
  <2>2. CASE Take(r)
    <3>1. Items' = Items /\ \A x \in Member : Index'[x] = Index[x]
      BY <2>2, TakeEdits
    <3> QED BY <2>2, <3>1, SameConsistent DEF Take, info, history
  <2>3. CASE Iterate(r) \/ GetNext(r)
    BY <2>3, SameConsistent DEF Iterate, GetNext, info, history
  <2> QED BY <2>1, <2>2, <2>3 DEF Read
<1>5. CASE SaveFile
  BY <1>5, SameConsistent DEF SaveFile, list, info
<1>6. CASE SaveDone
  BY <1>6, SameConsistent DEF SaveDone
<1>7. CASE UNCHANGED vars
  BY <1>7, SameConsistent DEF vars, list, info, history
<1> QED BY <1>1, <1>2, <1>3, <1>4, <1>5, <1>6, <1>7 DEF Next

\* The places the edits, Sort and the loads each count in their own way are right after any
\* sequence of them: what the two guards of InsertItem, the two ranges of MoveItem and the
\* range of RemoveItem renumber is what has moved.
THEOREM IndexIsPlace ==
  ASSUME ~ IsFiniteSet(Entries), IsFiniteSet(Readers)
  PROVE  Spec => []IndexConsistent
<1>1. Init => TypeInv /\ IndexConsistent
  BY TypeInit, PlaylistAssumption DEF Init, IndexConsistent
<1>2. TypeInv /\ IndexConsistent /\ [Next]_vars => (TypeInv /\ IndexConsistent)'
  BY TypeNext, IndexNext
<1> QED BY <1>1, <1>2, PTL DEF Spec

(***************************************************************************)
(* Every load replaces the list by what was read, thriftily.               *)
(***************************************************************************)

\* The lesser one of two numbers.
LEMMA MinOf ==
  ASSUME NEW a \in Nat, NEW b \in Nat, NEW k \in Nat, k <= a, k <= b, k = a \/ k = b
  PROVE  Min({a, b}) = k
<1>1. k \in {a, b} /\ \A y \in {a, b} : k =< y
  OBVIOUS
<1>2. \A x \in {a, b} : (\A y \in {a, b} : x =< y) => x = k
  OBVIOUS
<1> QED BY <1>1, <1>2 DEF Min

\* As many entries of a song are kept as there are in the old list and are needed in the new one.
LEMMA KeptIs ==
  ASSUME Listed, NEW s \in Seq(Songs), NEW c, FromSongs(c, s, Len(s)), NEW song \in Songs
  PROVE  Cardinality(Kept(c, song)) = Min({Count(SongsOf(Items), song), Count(s, song)})
<1> DEFINE M == {e \in Member : RefTo[e] = song}
           K == Kept(c, song)
           P == Places(s, Len(s), song)
<1>1. Updating(c) /\ Len(s) \in Nat
  BY DEF FromSongs
<1>2. Cardinality(K) <= Cardinality(P) /\ (Left(c, song) # {} => Cardinality(K) = Cardinality(P))
  BY DEF FromSongs, Thrifty
<1>3. IsFiniteSet(M) /\ Cardinality(M) \in Nat /\ Count(SongsOf(Items), song) = Cardinality(M)
  <2>1. M \in SUBSET ToSet(Items) /\ IsList(Items)
    BY DEF Listed, Member
  <2>2. IsFiniteSet(M) /\ Cardinality(M) \in Nat /\ Cardinality({i \in DOMAIN Items : Items[i] \in M}) = Cardinality(M)
    <3> HIDE DEF M
    <3> QED BY <2>1, ListFinite
  <2>3. {i \in DOMAIN SongsOf(Items) : SongsOf(Items)[i] = song} = {i \in DOMAIN Items : Items[i] \in M}
    BY DEF SongsOf, Member, ToSet
  <2> HIDE DEF M
  <2> QED BY <2>2, <2>3 DEF Count
<1>4. Count(s, song) = Cardinality(P) /\ Cardinality(P) \in Nat
  <2>1. DOMAIN s = 1 .. Len(s)
    OBVIOUS
  <2>2. P = {i \in DOMAIN s : s[i] = song}
    BY <2>1 DEF Places
  <2>3. Cardinality(P) \in Nat
    BY <1>1, PlacesFinite
  <2> HIDE DEF P
  <2> QED BY <2>2, <2>3 DEF Count
<1>5. K \in SUBSET M /\ (Left(c, song) = {} => K = M)
  <2>1. K \in SUBSET M
    BY DEF Kept
  <2>2. ASSUME Left(c, song) = {}, NEW e \in M PROVE e \in K
    <3>1. e \in ToSet(c.old) \cup ToSet(c.new) /\ e \in Member /\ RefTo[e] = song
      BY <1>1 DEF Updating
    <3> QED BY <2>2, <3>1 DEF Kept, Left
  <2> HIDE DEF M, K
  <2> QED BY <2>1, <2>2
<1> HIDE DEF M, K, P
<1>6. Cardinality(K) <= Cardinality(M) /\ Cardinality(K) \in Nat
  BY <1>3, <1>5, FS_Subset, FS_CardinalityType
<1>7. Cardinality(K) = Cardinality(M) \/ Cardinality(K) = Cardinality(P)
  BY <1>2, <1>5
<1>8. Min({Cardinality(M), Cardinality(P)}) = Cardinality(K)
  BY <1>2, <1>3, <1>4, <1>6, <1>7, MinOf
<1> QED BY <1>3, <1>4, <1>8 DEF K

\* What LoadedAsRead says of one loader.
AsRead(l) ==
  LET new  == read[l]
      kept == {e \in Member : Contains(Items', e)}
  IN  /\ [i \in DOMAIN Items' |-> RefTo'[Items'[i]]] = new
      /\ \A song \in Songs :
           Cardinality({e \in kept : RefTo[e] = song}) = Min({Count(SongsOf(Items), song), Count(new, song)})

\* A load that has the children in service replaces the list by what it has read.
LEMMA CommitsAsRead ==
  ASSUME TypeInv, ~ IsFiniteSet(Entries), IsFiniteSet(Readers), NEW l \in Loaders, LoadCommit(l),
         read[l] # NULL, "Child" \in upd[l]
  PROVE  AsRead(l)
<1> DEFINE s == read[l]
           c == UpdateCollection(s)
<1>1. /\ Items' = c.new /\ FromSongs(c, s, Len(s)) /\ s \in Seq(Songs)
      /\ \A x \in ToSet(c.new) : RefTo'[x] = c.refTo[x]
  BY CommitEdits
<1>2. Listed
  BY ListedIs
<1>3. \A song \in Songs : Cardinality(Kept(c, song)) = Min({Count(SongsOf(Items), song), Count(s, song)})
  <2> HIDE DEF c, s
  <2> QED BY <1>1, <1>2, KeptIs
<1> HIDE DEF c, s
<1>4. IsList(c.new) /\ Len(c.new) = Len(s) /\ \A k \in 1 .. Len(s) : c.refTo[c.new[k]] = s[k]
  BY <1>1 DEF FromSongs, Updating
<1>5. [i \in DOMAIN Items' |-> RefTo'[Items'[i]]] = s
  <2>1. DOMAIN Items' = 1 .. Len(s) /\ DOMAIN s = 1 .. Len(s)
    BY <1>1, <1>4, SeqIs
  <2>2. \A i \in 1 .. Len(s) : RefTo'[Items'[i]] = s[i]
    <3>1. \A i \in 1 .. Len(s) : c.new[i] \in ToSet(c.new)
      BY <1>4, SeqIs
    <3> QED BY <1>1, <1>4, <3>1
  <2>3. s = [i \in 1 .. Len(s) |-> s[i]]
    BY <1>1
  <2> QED BY <2>1, <2>2, <2>3
<1>6. ASSUME NEW song \in Songs
      PROVE  {e \in {x \in Member : Contains(Items', x)} : RefTo[e] = song} = Kept(c, song)
  <2>1. \A x : Contains(Items', x) <=> x \in ToSet(c.new)
    BY <1>1, <1>4, SeqIs
  <2> QED BY <2>1 DEF Kept
<1>7. \A song \in Songs : Cardinality({e \in {x \in Member : Contains(Items', x)} : RefTo[e] = song})
                          = Min({Count(SongsOf(Items), song), Count(s, song)})
  BY <1>3, <1>6
<1> QED BY <1>5, <1>7 DEF AsRead, s

\* Only LoadCommit ends the load of a loader.
LEMMA LoadedIs ==
  ASSUME TypeInv, [Next]_vars, NEW l \in Loaders, Loaded(l)
  PROVE  LoadCommit(l) /\ read[l] # NULL /\ "Child" \in upd[l]
<1>1. at[l] = "update" /\ at'[l] = "idle" /\ read[l] # NULL /\ "Child" \in upd[l]
  BY DEF Loaded
<1>2. \A t, label : Goto(t, label) => t = l \/ at'[l] = at[l]
  BY DEF Goto, TypeInv
<1>3. CASE Edit
  BY <1>1, <1>3 DEF Edit, InsertItem, MoveItem, RemoveItem, Clear, Rearrange, ChildChangeNotification
<1>4. CASE \E k \in Loaders : Load(k)
  BY <1>1, <1>2, <1>4 DEF Load, LoadBegin, DecoderFileInfo, LoadCommit
<1>5. CASE \E what \in Invalidations : Invalidate(what)
  BY <1>1, <1>5 DEF Invalidate
<1>6. CASE \E r \in Readers : Read(r)
  BY <1>1, <1>2, <1>6 DEF Read, Iterate, GetNext, Take
<1>7. CASE SaveFile \/ SaveDone
  BY <1>1, <1>2, <1>7 DEF SaveFile, SaveDone
<1>8. CASE UNCHANGED vars
  BY <1>1, <1>8 DEF vars
<1> QED BY <1>1, <1>3, <1>4, <1>5, <1>6, <1>7, <1>8 DEF Next

\* After a load the list refers to what was read, and of every song as many entries have
\* been kept as there were and are needed, in whatever order and number the old and the new
\* content have it.
THEOREM LoadsAsRead ==
  ASSUME ~ IsFiniteSet(Entries), IsFiniteSet(Readers)
  PROVE  Spec => LoadedAsRead
<1>1. Init => TypeInv
  BY TypeInit, PlaylistAssumption
<1>2. TypeInv /\ [Next]_vars => TypeInv'
  BY TypeNext
<1>3. TypeInv /\ [Next]_vars => [\A l \in Loaders : Loaded(l) => AsRead(l)]_vars
  BY LoadedIs, CommitsAsRead
<1> QED BY <1>1, <1>2, <1>3, PTL DEF Spec, LoadedAsRead, AsRead

(***************************************************************************)
(* The second part of the inductive invariant: what Save has written.      *)
(***************************************************************************)

Iterating == {"next", "take"}

\* How far Save has come.
Written == IF cur[Saver] = NULL THEN 0 ELSE Pos(Items, cur[Saver])

\* Unless the list was touched, it has written the songs of the list up to the entry it holds.
Writes ==
  /\ cur[Saver] # NULL => cur[Saver] \in Member
  /\ text = [i \in 1 .. Written |-> RefTo[Items[i]]]
  /\ at[Saver] = "take" => found[Saver] = NextOf(Items, cur[Saver])

SaveReads ==
  /\ at[Saver] \notin Iterating => cur[Saver] = NULL
  /\ at[Saver] \in Iterating /\ ~ touched => Writes
  /\ at[Saver] = "write" /\ ~ touched => text = SongsOf(Items)

SaveEnds == at[Saver] = "saved" /\ ~ touched => SongsOf(Items) = saved

Unmodified == ~ Modified /\ ~ lost => SongsOf(Items) = saved

SaveInv == Unmodified /\ (Saver \in Readers => SaveReads /\ SaveEnds)

\* The list refers to the same songs.
LEMMA SameSongs ==
  ASSUME TypeInv, Items' = Items, \A x \in Member : RefTo'[x] = RefTo[x]
  PROVE  SongsOf(Items)' = SongsOf(Items)
<1>1. \A i \in DOMAIN Items : Items[i] \in Member
  BY DEF Member, ToSet
<1> QED BY <1>1 DEF SongsOf

\* Where Save is not concerned.
Aside == at'[Saver] = at[Saver] \/ {at[Saver], at'[Saver]} \cap {"next", "take", "write", "saved"} = {}

\* A step that is not one of Save's, nor changes the list without touching it.
LEMMA ReadsKept ==
  ASSUME TypeInv, Saver \in Readers, SaveReads, Aside, text' = text,
         cur'[Saver] = cur[Saver], found'[Saver] = found[Saver],
         ~ touched' => ~ touched /\ Items' = Items, \A x \in Member : x \in ToSet(Items') => RefTo'[x] = RefTo[x]
  PROVE  SaveReads'
<1>1. at'[Saver] \notin Iterating => cur'[Saver] = NULL
  BY DEF SaveReads, Aside, Iterating
<1>2. ASSUME ~ touched' PROVE ~ touched /\ Items' = Items /\ Member' = Member /\ \A x \in Member : RefTo'[x] = RefTo[x]
  BY <1>2 DEF Member
<1>3. ASSUME ~ touched' PROVE SongsOf(Items)' = SongsOf(Items) /\ \A i \in 1 .. Len(Items) : RefTo'[Items'[i]] = RefTo[Items[i]]
  <2>1. \A i \in 1 .. Len(Items) : Items[i] \in Member
    BY SeqIs DEF TypeInv, Member
  <2> QED BY <1>2, <1>3, <2>1, SameSongs
<1>4. ASSUME at'[Saver] \in Iterating, ~ touched' PROVE Writes'
  <2>1. at'[Saver] = at[Saver] /\ Writes
    BY <1>2, <1>4 DEF SaveReads, Aside, Iterating
  <2>2. Written' = Written
    BY <1>2, <1>4 DEF Written, Pos
  <2>3. \A i \in 1 .. Written : i \in 1 .. Len(Items)
    <3>1. Written = 0 \/ Written \in 1 .. Len(Items)
      BY <2>1, PosIs DEF Written, Writes, Member, TypeInv
    <3>2. Len(Items) \in Nat
      BY SeqIs DEF TypeInv
    <3> HIDE DEF Written
    <3> QED BY <3>1, <3>2
  <2>4. NextOf(Items, cur[Saver])' = NextOf(Items, cur[Saver])
    BY <1>2, <1>4 DEF NextOf, Pos, Last
  <2>5. [i \in 1 .. Written |-> RefTo[Items[i]]]' = [i \in 1 .. Written |-> RefTo[Items[i]]]
    BY <1>3, <1>4, <2>2, <2>3
  <2> HIDE DEF Written
  <2> QED BY <1>2, <1>4, <2>1, <2>4, <2>5 DEF Writes
<1>5. ASSUME at'[Saver] = "write", ~ touched' PROVE text' = SongsOf(Items)'
  <2>1. at[Saver] = "write" /\ ~ touched
    BY <1>2, <1>5 DEF Aside
  <2> QED BY <1>3, <1>5, <2>1 DEF SaveReads
<1> QED BY <1>1, <1>4, <1>5 DEF SaveReads

\* Save takes the entry that follows the one it holds.
LEMMA TakeWrites ==
  ASSUME TypeInv, Saver \in Readers, SaveReads, Take(Saver)
  PROVE  SaveReads'
<1> DEFINE e == found[Saver]
           gone == e # NULL /\ e \in Free
           n == Len(Items)
<1>0. NULL \notin Entries
  BY PlaylistAssumption
<1>1. Edited /\ Items' = Items /\ \A x \in Member : RefTo'[x] = RefTo[x]
  BY TakeEdits
<1>2. /\ at[Saver] = "take" /\ cur' = [cur EXCEPT ![Saver] = IF gone THEN NULL ELSE e]
      /\ text' = IF e # NULL /\ ~ gone THEN Append(text, RefTo[e]) ELSE text
      /\ at' = [at EXCEPT ![Saver] = IF gone THEN "idle" ELSE IF e # NULL THEN "next" ELSE "write"]
  BY DEF Take, Goto
<1>3. cur'[Saver] = (IF gone THEN NULL ELSE e) /\ at'[Saver] = (IF gone THEN "idle" ELSE IF e # NULL THEN "next" ELSE "write")
  BY <1>2 DEF TypeInv, HeldEntries
<1> HIDE DEF gone
<1>4. touched' <=> touched
  BY <1>1 DEF Edited, Steady
<1>5. IsList(Items) /\ ToSet(Items) = Member /\ n \in Nat /\ \A i \in 1 .. n : Items[i] \in Member
  <2>1. IsList(Items) /\ ToSet(Items) = Member
    BY DEF TypeInv, Member
  <2> QED BY <2>1, SeqIs
<1>6. SongsOf(Items)' = SongsOf(Items) /\ SongsOf(Items) = [i \in 1 .. n |-> RefTo[Items[i]]]
  <2>1. DOMAIN Items = 1 .. n
    BY <1>5, SeqIs
  <2> QED BY <1>1, <2>1, SameSongs DEF SongsOf
<1>7. ASSUME ~ touched
      PROVE  LET k == Written
             IN  /\ k \in 0 .. n /\ text = [i \in 1 .. k |-> RefTo[Items[i]]]
                 /\ e = IF k = n THEN NULL ELSE Items[k + 1]
  <2>1. Writes /\ e = NextOf(Items, cur[Saver])
    BY <1>2, <1>7 DEF SaveReads, Writes, Iterating
  <2>2. CASE cur[Saver] = NULL
    <3>1. Written = 0 /\ e = IF n = 0 THEN NULL ELSE Items[1]
      BY <1>0, <1>5, <2>1, <2>2, NextOfIs DEF Written
    <3> QED BY <1>5, <2>1, <3>1 DEF Writes
  <2>3. CASE cur[Saver] # NULL
    <3>1. PICK k \in 1 .. n : Items[k] = cur[Saver]
      BY <1>5, <2>1, <2>3, SeqIs DEF Writes
    <3>2. Written = k
      BY <1>5, <2>3, <3>1, PosIs DEF Written
    <3>3. e = IF k = n THEN NULL ELSE Items[k + 1]
      BY <1>0, <1>5, <2>1, <3>1, NextOfIs
    <3>4. k \in 0 .. n
      BY <1>5
    <3> QED BY <2>1, <3>2, <3>3, <3>4 DEF Writes
  <2> QED BY <2>2, <2>3
<1>8. at'[Saver] \notin Iterating => cur'[Saver] = NULL
  BY <1>3 DEF Iterating
<1> DEFINE k == Written
<1>9. ASSUME at'[Saver] \in Iterating, ~ touched' PROVE Writes'
  <2>1. e # NULL /\ ~ gone /\ cur'[Saver] = e /\ at'[Saver] = "next" /\ text' = Append(text, RefTo[e])
    BY <1>2, <1>3, <1>9 DEF Iterating
  <2>2. k \in 0 .. n /\ text = [i \in 1 .. k |-> RefTo[Items[i]]] /\ k # n /\ e = Items[k + 1]
    BY <1>4, <1>7, <1>9, <2>1
  <2> HIDE DEF k, e
  <2>3. k + 1 \in 1 .. n /\ e \in Member
    BY <1>5, <2>2
  <2>4. Pos(Items, e) = k + 1
    BY <1>5, <2>2, <2>3, PosIs
  <2>5. Written' = k + 1
    BY <1>1, <2>1, <2>4 DEF Written
  <2>6. \A i \in 1 .. n : RefTo[Items[i]] \in Songs \cup {NULL} /\ RefTo'[Items'[i]] = RefTo[Items[i]]
    <3>1. Member \subseteq Entries
      BY <1>5, SeqIs
    <3> QED BY <1>1, <1>5, <3>1 DEF TypeInv, Referring
  <2>7. text \in Seq(Songs \cup {NULL}) /\ Len(text) = k /\ \A i \in 1 .. k : text[i] = RefTo[Items[i]]
    <3>1. k \in Nat /\ \A i \in 1 .. k : i \in 1 .. n
      BY <1>5, <2>2
    <3>2. text \in [1 .. k -> Songs \cup {NULL}]
      BY <2>2, <2>6, <3>1
    <3>3. text \in Seq(Songs \cup {NULL}) /\ Len(text) = k
      BY <3>1, <3>2, SeqDef
    <3> QED BY <2>2, <3>3
  <2>8. RefTo[e] \in Songs \cup {NULL}
    BY <2>2, <2>3, <2>6
  <2>9. text' \in Seq(Songs \cup {NULL}) /\ Len(text') = k + 1
        /\ \A i \in 1 .. k + 1 : text'[i] = IF i = k + 1 THEN RefTo[e] ELSE text[i]
    BY <2>1, <2>2, <2>7, <2>8
  <2>10. \A i \in 1 .. k + 1 : text'[i] = RefTo'[Items'[i]]
    <3>1. ASSUME NEW i \in 1 .. k + 1 PROVE text'[i] = RefTo'[Items'[i]]
      <4>1. i \in 1 .. n /\ (i = k + 1 \/ i \in 1 .. k)
        BY <1>5, <2>2, <2>3
      <4> QED BY <2>2, <2>6, <2>7, <2>9, <4>1
    <3> QED BY <3>1
  <2>11. text' = [i \in 1 .. k + 1 |-> RefTo'[Items'[i]]]
    <3>1. text' = [i \in 1 .. k + 1 |-> text'[i]]
      BY <2>9
    <3> QED BY <2>10, <3>1
  <2>12. text' = [i \in 1 .. Written |-> RefTo[Items[i]]]'
    BY <2>5, <2>11
  <2>13. Member' = Member
    BY <1>1 DEF Member
  <2> QED BY <2>1, <2>3, <2>12, <2>13 DEF Writes
<1>10. ASSUME at'[Saver] = "write", ~ touched' PROVE text' = SongsOf(Items)'
  <2>1. e = NULL /\ text' = text
    BY <1>2, <1>3, <1>10
  <2>2. k = n /\ text = [i \in 1 .. k |-> RefTo[Items[i]]]
    <3>1. k \in 0 .. n /\ text = [i \in 1 .. k |-> RefTo[Items[i]]] /\ e = IF k = n THEN NULL ELSE Items[k + 1]
      BY <1>4, <1>7, <1>10
    <3>2. k # n => k + 1 \in 1 .. n
      BY <1>5, <3>1
    <3>3. k # n => Items[k + 1] # NULL
      BY <1>0, <1>5, <3>2, SeqIs
    <3> HIDE DEF k, e
    <3> QED BY <2>1, <3>1, <3>3
  <2> HIDE DEF k
  <2> QED BY <1>6, <2>1, <2>2
<1> QED BY <1>8, <1>9, <1>10 DEF SaveReads

\* The second invariant holds in the beginning.
LEMMA SaveInit ==
  ASSUME Init
  PROVE  SaveInv
<1>1. SongsOf(Items) = saved
  BY DEF Init, SongsOf
<1>2. Saver \in Readers => cur[Saver] = NULL /\ touched /\ at[Saver] # "write"
  BY DEF Init
<1> QED BY <1>1, <1>2 DEF SaveInv, Unmodified, SaveReads, SaveEnds, Iterating

\* The songs of a list that was not touched.
LEMMA SteadySongs ==
  ASSUME TypeInv, Steady, Items' = Items
  PROVE  SongsOf(Items)' = SongsOf(Items)
<1>1. \A x \in Member : RefTo'[x] = RefTo[x]
  BY DEF Steady, Member
<1> QED BY <1>1, SameSongs

\* An edit marks the playlist as modified or has changed nothing.
LEMMA EditMarks ==
  ASSUME TypeInv, ~ IsFiniteSet(Entries), IsFiniteSet(Readers), Edit
  PROVE  /\ UNCHANGED <<at, reading>>
         /\ Modified' = TRUE \/ (UNCHANGED <<Modified, saved, lost>> /\ Items' = Items)
         /\ Saver \in Readers /\ at[Saver] = "saved" => saved' = saved
<1> DEFINE Goal == /\ UNCHANGED <<at, reading>>
                   /\ Modified' = TRUE \/ (UNCHANGED <<Modified, saved, lost>> /\ Items' = Items)
                   /\ Saver \in Readers /\ at[Saver] = "saved" => saved' = saved
<1>1. ASSUME MarkModified(TRUE), UNCHANGED <<at, reading>> PROVE Goal
  BY <1>1 DEF MarkModified
<1>2. CASE \E song \in Songs, before \in Member \cup {NULL} : InsertItem(song, before)
  <2>1. MarkModified(TRUE) /\ UNCHANGED <<at, reading>>
    BY <1>2 DEF InsertItem
  <2> QED BY <1>1, <2>1
<1>3. CASE \E e \in Member, before \in Member \cup {NULL} : MoveItem(e, before)
  <2>1. MarkModified(TRUE) /\ UNCHANGED <<at, reading>>
    BY <1>3 DEF MoveItem
  <2> QED BY <1>1, <2>1
<1>4. CASE \E e \in Member : RemoveItem(e)
  <2>1. MarkModified(TRUE) /\ UNCHANGED <<at, reading>>
    BY <1>4 DEF RemoveItem
  <2> QED BY <1>1, <2>1
<1>5. CASE Clear
  <2>1. Items' = <<>> /\ MarkModified(Items # <<>>) /\ UNCHANGED <<at, reading>>
    BY <1>5, ClearEdits DEF Clear
  <2>2. CASE Items = <<>>
    BY <2>1, <2>2 DEF MarkModified
  <2>3. CASE Items # <<>>
    BY <2>1, <2>3 DEF MarkModified
  <2> QED BY <2>2, <2>3
<1>6. CASE \E order \in SetToSeqs(Member) : Rearrange(order)
  <2>1. PICK order \in SetToSeqs(Member) : Rearrange(order)
    BY <1>6
  <2>2. Modified' = TRUE
    BY <2>1, RearrangeEdits
  <2>3. MarkModified(Changes(UpdateCollection(order))) /\ UNCHANGED <<at, reading>>
    BY <2>1 DEF Rearrange
  <2>4. Saver \in Readers /\ at[Saver] = "saved" => saved' = saved
    BY <2>3 DEF MarkModified
  <2> QED BY <2>2, <2>3, <2>4
<1>7. CASE ChildChangeNotification
  <2>1. MarkModified(TRUE) /\ UNCHANGED <<at, reading>>
    BY <1>7 DEF ChildChangeNotification
  <2> QED BY <1>1, <2>1
<1> QED BY <1>2, <1>3, <1>4, <1>5, <1>6, <1>7 DEF Edit

\* Every edit preserves the second invariant.
LEMMA EditSaves ==
  ASSUME TypeInv, SaveInv, ~ IsFiniteSet(Entries), IsFiniteSet(Readers), Edit
  PROVE  SaveInv'
<1>1. Steady
  BY EditType
<1>2. /\ at' = at /\ cur' = cur /\ found' = found /\ text' = text
      /\ Modified' = TRUE \/ (Modified' = Modified /\ saved' = saved /\ lost' = lost /\ Items' = Items)
      /\ Saver \in Readers /\ at[Saver] = "saved" => saved' = saved
  BY EditMarks DEF reading
<1>3. Items' = Items => SongsOf(Items)' = SongsOf(Items)
  BY <1>1, SteadySongs
<1>4. Unmodified'
  BY <1>2, <1>3 DEF Unmodified, SaveInv
<1>5. ASSUME Saver \in Readers PROVE SaveReads' /\ SaveEnds'
  <2>1. ~ touched' => ~ touched /\ Items' = Items
    BY <1>1 DEF Steady
  <2>2. \A x \in Member : x \in ToSet(Items') => RefTo'[x] = RefTo[x]
    BY <1>1 DEF Steady
  <2>3. SaveReads'
    <3>1. Aside
      BY <1>2 DEF Aside
    <3> QED BY <1>2, <1>5, <2>1, <2>2, <3>1, ReadsKept DEF SaveInv
  <2>4. SaveEnds'
    BY <1>2, <1>3, <1>5, <2>1 DEF SaveEnds, SaveInv
  <2> QED BY <2>3, <2>4
<1> QED BY <1>4, <1>5 DEF SaveInv

\* A step that neither changes the list nor concerns Save.
LEMMA Elsewhere ==
  ASSUME TypeInv, SaveInv, UNCHANGED <<list, Modified, saved, lost, reading>>, Saver \in Readers => Aside
  PROVE  SaveInv'
<1>1. /\ Items' = Items /\ RefTo' = RefTo /\ (touched' <=> touched) /\ cur' = cur /\ found' = found /\ text' = text
      /\ Modified' = Modified /\ saved' = saved /\ lost' = lost
  BY DEF list, reading
<1>2. SongsOf(Items)' = SongsOf(Items)
  BY <1>1, SameSongs
<1>3. Unmodified'
  BY <1>1, <1>2 DEF Unmodified, SaveInv
<1>4. ASSUME Saver \in Readers PROVE SaveReads' /\ SaveEnds'
  <2>1. SaveReads'
    BY <1>1, <1>4, ReadsKept DEF SaveInv
  <2>2. SaveEnds'
    BY <1>1, <1>2, <1>4 DEF SaveEnds, SaveInv, Aside
  <2> QED BY <2>1, <2>2
<1> QED BY <1>3, <1>4 DEF SaveInv

\* Where a step leads that goes from one label to another one.
LEMMA GoesTo ==
  ASSUME TypeInv, NEW t \in Loaders \cup Readers, NEW label, Goto(t, label), Saver \in Readers
  PROVE  at'[Saver] = IF t = Saver THEN label ELSE at[Saver]
BY DEF Goto, TypeInv

\* A load that replaces the list makes its content the saved one.
LEMMA CommitSaves ==
  ASSUME TypeInv, SaveInv, ~ IsFiniteSet(Entries), IsFiniteSet(Readers), NEW l \in Loaders, LoadCommit(l)
  PROVE  SaveInv'
<1>1. at[l] = "update" /\ Goto(l, "idle") /\ UNCHANGED reading
  BY DEF LoadCommit
<1>2. Saver \in Readers => Aside
  BY <1>1, GoesTo DEF Aside
<1>3. CASE ~ (read[l] # NULL /\ "Child" \in upd[l])
  <2>1. UNCHANGED <<list, Modified, saved, lost>>
    BY <1>3 DEF LoadCommit
  <2> QED BY <1>1, <1>2, <2>1, Elsewhere
<1>4. CASE read[l] # NULL /\ "Child" \in upd[l]
  <2>1. Steady
    BY <1>4, CommitEdits DEF Edited
  <2>2. saved' = read[l] /\ cur' = cur /\ found' = found /\ text' = text
    BY <1>4 DEF LoadCommit, reading
  <2>3. SongsOf(Items)' = saved'
    <3>1. AsRead(l)
      BY <1>4, CommitsAsRead
    <3>2. [i \in DOMAIN Items' |-> RefTo'[Items'[i]]] = read[l]
      BY <3>1 DEF AsRead
    <3> QED BY <2>2, <3>2 DEF SongsOf
  <2>4. ASSUME Saver \in Readers PROVE SaveReads'
    BY <1>2, <2>1, <2>2, <2>4, ReadsKept DEF SaveInv, Steady
  <2> QED BY <2>3, <2>4 DEF SaveInv, Unmodified, SaveEnds
<1> QED BY <1>3, <1>4

\* Every step of a loader preserves the second invariant.
LEMMA LoadSaves ==
  ASSUME TypeInv, SaveInv, ~ IsFiniteSet(Entries), IsFiniteSet(Readers), NEW l \in Loaders, Load(l)
  PROVE  SaveInv'
<1>1. CASE LoadBegin(l)
  <2>1. at[l] = "idle" /\ Goto(l, "decode") /\ UNCHANGED <<list, info, saved, reading, history>>
    BY <1>1 DEF LoadBegin
  <2>2. Saver \in Readers => Aside
    BY <2>1, GoesTo DEF Aside
  <2> QED BY <2>1, <2>2, Elsewhere DEF info, history
<1>2. CASE DecoderFileInfo(l)
  <2>1. at[l] = "decode" /\ Goto(l, "update") /\ UNCHANGED <<list, info, saved, reading, history>>
    BY <1>2 DEF DecoderFileInfo
  <2>2. Saver \in Readers => Aside
    BY <2>1, GoesTo DEF Aside
  <2> QED BY <2>1, <2>2, Elsewhere DEF info, history
<1>3. CASE LoadCommit(l)
  BY <1>3, CommitSaves
<1> QED BY <1>1, <1>2, <1>3 DEF Load

\* The history of Save apart, the end of an iteration leaves everything alone.
LEMMA ReadEnds ==
  ASSUME TypeInv, SaveInv, Items' = Items, \A x \in Member : RefTo'[x] = RefTo[x],
         Modified' = Modified, lost' = lost, saved' = saved,
         Saver \in Readers => SaveReads' /\ (at'[Saver] = "saved" /\ ~ touched' => at[Saver] = "saved" /\ ~ touched)
  PROVE  SaveInv'
<1>1. SongsOf(Items)' = SongsOf(Items)
  BY SameSongs
<1> QED BY <1>1 DEF SaveInv, Unmodified, SaveEnds

\* Save begins with nothing written, other iterations do not matter.
LEMMA IterateSaves ==
  ASSUME TypeInv, SaveInv, NEW r \in Readers, Iterate(r)
  PROVE  SaveInv'
<1>1. /\ at[r] = "idle" /\ Goto(r, "next") /\ text' = (IF r = Saver THEN <<>> ELSE text)
      /\ touched' = (r # Saver /\ touched) /\ Items' = Items /\ RefTo' = RefTo /\ cur' = cur /\ found' = found
      /\ Modified' = Modified /\ lost' = lost /\ saved' = saved
  BY DEF Iterate, info, history
<1>2. ASSUME r = Saver
      PROVE  SaveReads' /\ at'[Saver] = "next"
  <2>1. cur[Saver] = NULL /\ at'[Saver] = "next" /\ text' = <<>>
    BY <1>1, <1>2, GoesTo DEF SaveInv, SaveReads, Iterating
  <2>2. Written' = 0
    BY <1>1, <2>1 DEF Written
  <2>3. [i \in 1 .. 0 |-> RefTo'[Items'[i]]] = <<>>
    OBVIOUS
  <2>4. text' = [i \in 1 .. Written |-> RefTo[Items[i]]]'
    BY <2>1, <2>2, <2>3
  <2>5. Writes'
    BY <1>1, <2>1, <2>4 DEF Writes
  <2> QED BY <2>1, <2>5 DEF SaveReads, Iterating
<1>3. ASSUME r # Saver, Saver \in Readers
      PROVE  SaveReads' /\ at'[Saver] = at[Saver] /\ (touched' <=> touched)
  <2>1. at'[Saver] = at[Saver] /\ (touched' <=> touched) /\ text' = text
    BY <1>1, <1>3, GoesTo
  <2>2. Aside
    BY <2>1 DEF Aside
  <2> QED BY <1>1, <1>3, <2>1, <2>2, ReadsKept DEF SaveInv
<1>4. Saver \in Readers => SaveReads' /\ (at'[Saver] = "saved" /\ ~ touched' => at[Saver] = "saved" /\ ~ touched)
  BY <1>2, <1>3
<1> QED BY <1>1, <1>4, ReadEnds

\* What Save finds is what follows in the list, unless it was touched.
LEMMA GetNextSaves ==
  ASSUME TypeInv, SaveInv, NEW r \in Readers, GetNext(r)
  PROVE  SaveInv'
<1>1. /\ at[r] = "next" /\ Goto(r, "take") /\ text' = text
      /\ touched' = (touched \/ ~ playlist) /\ Items' = Items /\ RefTo' = RefTo /\ cur' = cur
      /\ Modified' = Modified /\ lost' = lost /\ saved' = saved
  BY DEF GetNext, info, history
<1>2. found' = [found EXCEPT ![r] = IF ~ playlist THEN NULL
                                    ELSE IF cur[r] = NULL \/ Contains(Items, cur[r]) THEN NextOf(Items, cur[r])
                                    ELSE after[cur[r]]]
  BY DEF GetNext
<1>3. ASSUME r = Saver
      PROVE  SaveReads' /\ at'[Saver] = "take"
  <2>1. at'[Saver] = "take" /\ at[Saver] = "next"
    BY <1>1, <1>3, GoesTo
  <2>2. ASSUME ~ touched' PROVE Writes'
    <3>1. playlist /\ ~ touched
      BY <1>1, <2>2
    <3>2. Writes
      BY <1>3, <2>1, <3>1 DEF SaveInv, SaveReads, Iterating
    <3>3. cur[Saver] = NULL \/ Contains(Items, cur[Saver])
      BY <3>2 DEF Writes, Contains, Member, ToSet
    <3>4. found'[Saver] = NextOf(Items, cur[Saver])
      BY <1>2, <1>3, <3>1, <3>3 DEF TypeInv
    <3>5. Written' = Written /\ Member' = Member
      BY <1>1 DEF Written, Pos, Member
    <3>6. NextOf(Items, cur[Saver])' = NextOf(Items, cur[Saver])
      BY <1>1 DEF NextOf, Pos, Last
    <3>7. text' = [i \in 1 .. Written |-> RefTo[Items[i]]]'
      BY <1>1, <3>2, <3>5 DEF Writes
    <3> QED BY <1>1, <3>2, <3>4, <3>5, <3>6, <3>7 DEF Writes
  <2> QED BY <2>1, <2>2 DEF SaveReads, Iterating
<1>4. ASSUME r # Saver, Saver \in Readers
      PROVE  SaveReads' /\ at'[Saver] = at[Saver] /\ (~ touched' => ~ touched)
  <2>1. at'[Saver] = at[Saver] /\ (~ touched' => ~ touched)
    BY <1>1, <1>4, GoesTo
  <2>2. found'[Saver] = found[Saver]
    BY <1>2, <1>4 DEF TypeInv
  <2>3. Aside
    BY <2>1 DEF Aside
  <2> QED BY <1>1, <1>4, <2>1, <2>2, <2>3, ReadsKept DEF SaveInv
<1>5. Saver \in Readers => SaveReads' /\ (at'[Saver] = "saved" /\ ~ touched' => at[Saver] = "saved" /\ ~ touched)
  BY <1>3, <1>4
<1> QED BY <1>1, <1>5, ReadEnds

\* Whoever takes an entry, the second invariant is preserved.
LEMMA TakeSaves ==
  ASSUME TypeInv, SaveInv, NEW r \in Readers, Take(r)
  PROVE  SaveInv'
<1> DEFINE e == found[r]
           gone == e # NULL /\ e \in Free
           label == IF gone THEN "idle" ELSE IF e # NULL THEN "next" ELSE IF r = Saver THEN "write" ELSE "idle"
<1>1. Edited /\ Items' = Items /\ \A x \in Member : RefTo'[x] = RefTo[x]
  BY TakeEdits
<1>2. /\ Goto(r, label) /\ cur' = [cur EXCEPT ![r] = IF gone THEN NULL ELSE e]
      /\ found' = [found EXCEPT ![r] = NULL] /\ (r # Saver => text' = text)
      /\ Modified' = Modified /\ lost' = lost /\ saved' = saved
  BY DEF Take, info, history
<1>3. touched' <=> touched
  BY <1>1 DEF Edited, Steady
<1>4. label # "saved"
  OBVIOUS
<1> HIDE DEF label, gone, e
<1>5. ASSUME r = Saver PROVE SaveReads' /\ at'[Saver] # "saved"
  <2>1. at'[Saver] = label
    BY <1>2, <1>5, GoesTo
  <2>2. SaveReads'
    BY <1>5, TakeWrites DEF SaveInv
  <2> QED BY <1>4, <2>1, <2>2
<1>6. ASSUME r # Saver, Saver \in Readers PROVE SaveReads' /\ at'[Saver] = at[Saver]
  <2>1. at'[Saver] = at[Saver]
    BY <1>2, <1>6, GoesTo
  <2>2. cur'[Saver] = cur[Saver] /\ found'[Saver] = found[Saver]
    BY <1>2, <1>6 DEF TypeInv, HeldEntries
  <2>3. Aside
    BY <2>1 DEF Aside
  <2> QED BY <1>1, <1>2, <1>3, <1>6, <2>1, <2>2, <2>3, ReadsKept DEF SaveInv
<1>7. Saver \in Readers => SaveReads' /\ (at'[Saver] = "saved" /\ ~ touched' => at[Saver] = "saved" /\ ~ touched)
  BY <1>3, <1>5, <1>6
<1> QED BY <1>1, <1>2, <1>7, ReadEnds

\* What Save has written is what was in the list, unless it was touched.
LEMMA FileSaves ==
  ASSUME TypeInv, SaveInv, Saver \in Readers, SaveFile
  PROVE  SaveInv'
<1>1. /\ at[Saver] = "write" /\ saved' = (IF touched THEN <<>> ELSE text) /\ lost' = (~ Modified /\ (lost \/ touched))
      /\ Goto(Saver, "saved") /\ Items' = Items /\ RefTo' = RefTo /\ (touched' <=> touched) /\ Modified' = Modified
      /\ cur' = cur
  BY DEF SaveFile, list, info
<1>2. at'[Saver] = "saved" /\ cur'[Saver] = NULL
  BY <1>1, GoesTo DEF SaveInv, SaveReads, Iterating
<1>3. SongsOf(Items)' = SongsOf(Items)
  BY <1>1, SameSongs
<1>4. ~ touched => saved' = SongsOf(Items)
  BY <1>1 DEF SaveInv, SaveReads
<1>5. SaveReads' /\ SaveEnds'
  BY <1>1, <1>2, <1>3, <1>4 DEF SaveReads, SaveEnds, Iterating
<1>6. Unmodified'
  BY <1>1, <1>3, <1>4 DEF Unmodified
<1> QED BY <1>5, <1>6 DEF SaveInv

\* Save resets the mark.
LEMMA DoneSaves ==
  ASSUME TypeInv, SaveInv, Saver \in Readers, SaveDone
  PROVE  SaveInv'
<1>1. /\ at[Saver] = "saved" /\ lost' = touched /\ touched' = TRUE /\ Goto(Saver, "idle")
      /\ Items' = Items /\ RefTo' = RefTo /\ saved' = saved /\ cur' = cur
  BY DEF SaveDone, reading
<1>2. at'[Saver] = "idle" /\ cur'[Saver] = NULL
  BY <1>1, GoesTo DEF SaveInv, SaveReads, Iterating
<1>3. SongsOf(Items)' = SongsOf(Items)
  BY <1>1, SameSongs
<1>4. SaveReads' /\ SaveEnds'
  BY <1>1, <1>2 DEF SaveReads, SaveEnds, Iterating
<1>5. Unmodified'
  BY <1>1, <1>3 DEF Unmodified, SaveInv, SaveEnds
<1> QED BY <1>4, <1>5 DEF SaveInv

\* Every step preserves the second invariant.
LEMMA SaveNext ==
  ASSUME TypeInv, SaveInv, ~ IsFiniteSet(Entries), IsFiniteSet(Readers), [Next]_vars
  PROVE  SaveInv'
<1>1. CASE Edit
  BY <1>1, EditSaves
<1>2. CASE \E l \in Loaders : Load(l)
  BY <1>2, LoadSaves
<1>3. CASE \E what \in Invalidations : Invalidate(what)
  <2>1. UNCHANGED <<list, info, saved, at, reading, history>>
    BY <1>3 DEF Invalidate
  <2>2. Aside
    BY <2>1 DEF Aside
  <2> QED BY <2>1, <2>2, Elsewhere DEF info, history
<1>4. CASE \E r \in Readers : Read(r)
  BY <1>4, IterateSaves, GetNextSaves, TakeSaves DEF Read
<1>5. CASE Saver \in Readers /\ (SaveFile \/ SaveDone)
  BY <1>5, FileSaves, DoneSaves
<1>6. CASE UNCHANGED vars
  <2>1. UNCHANGED <<list, info, saved, at, reading, history>>
    BY <1>6 DEF vars
  <2>2. Aside
    BY <2>1 DEF Aside
  <2> QED BY <2>1, <2>2, Elsewhere DEF info, history
<1> QED BY <1>1, <1>2, <1>3, <1>4, <1>5, <1>6 DEF Next

\* A playlist that is not marked as modified (core/playable.h:153) consists of the songs
\* that were loaded last or that Save has written, whatever edits, loads and iterations
\* have come between - unless it has been edited while Save was iterating, which does
\* not hold the mutex and resets the mark at its end.
THEOREM UnmodifiedWasSaved ==
  ASSUME ~ IsFiniteSet(Entries), IsFiniteSet(Readers)
  PROVE  Spec => []UnmodifiedIsSaved
<1>1. Init => TypeInv /\ SaveInv
  BY TypeInit, SaveInit, PlaylistAssumption
<1>2. TypeInv /\ SaveInv /\ [Next]_vars => TypeInv' /\ SaveInv'
  BY TypeNext, SaveNext
<1>3. SaveInv => UnmodifiedIsSaved
  BY DEF SaveInv, Unmodified, UnmodifiedIsSaved
<1> QED BY <1>1, <1>2, <1>3, PTL DEF Spec
=============================================================================
