------------------------- MODULE DelegateEventProofs -------------------------
(***************************************************************************)
(* Proofs about DelegateEvent for any number of delegates and              *)
(* notifications.                                                          *)
(***************************************************************************)
EXTENDS DelegateEvent, FiniteSetTheorems, WellFoundedInduction, TLAPS

(***************************************************************************)
(* Reached is a recursive function on the places of a walk along the       *)
(* links.  The function exists, and as many places as there are elements   *)
(* are enough to see the whole list.                                       *)
(***************************************************************************)

\* A set of numbers that is not empty has a least one.
LEMMA LeastElement ==
  ASSUME NEW S \in SUBSET Nat, S # {}
  PROVE  \E x \in S : \A y \in S : x <= y
<1>1. PICK x \in S : \A y \in S : <<y, x>> \notin OpToRel(<, Nat)
  BY NatLessThanWellFounded, WFMin
<1>2. \A y \in Nat : y < x => <<y, x>> \in OpToRel(<, Nat)
  BY DEF OpToRel
<1>3. \A y \in S : ~ (y < x)
  BY <1>1, <1>2, Zenon
<1> QED BY <1>3

\* Induction up to n, for a set.
LEMMA Upwards ==
  ASSUME NEW n \in Nat, NEW D, 0 \in D, \A i \in 0 .. n : i \in D /\ i < n => i + 1 \in D
  PROVE  n \in D
<1> DEFINE N == {i \in 0 .. n : i \notin D}
<1>1. ASSUME N # {} PROVE FALSE
  <2>1. PICK m \in N : \A k \in N : m <= k
    <3>1. N \in SUBSET Nat
      OBVIOUS
    <3> HIDE DEF N
    <3> QED BY <1>1, <3>1, LeastElement
  <2>2. m \in 0 .. n /\ m \notin D /\ m # 0
    BY <2>1
  <2>3. m - 1 \in 0 .. n /\ m - 1 < n /\ (m - 1) + 1 = m
    BY <2>2
  <2>4. m - 1 \in N
    BY <2>2, <2>3
  <2> QED BY <2>1, <2>2, <2>4
<1> QED BY <1>1

\* p follows the links from x on, for n places.
IsWalk(p, link, x, n) ==
  p = [k \in 1 .. n |-> IF k = 1 THEN x ELSE IF p[k - 1] = NULL THEN NULL ELSE link[p[k - 1]]]

\* There is such a walk, of any length.
LEMMA WalkExists ==
  ASSUME NEW link, NEW x, NEW n \in Nat
  PROVE  \E p : IsWalk(p, link, x, n)
<1> DEFINE D == {m \in 0 .. n : \E p : IsWalk(p, link, x, m)}
<1>1. 0 \in D
  <2> DEFINE p == [k \in 1 .. 0 |-> x]
  <2>1. p = [k \in 1 .. 0 |-> IF k = 1 THEN x ELSE IF p[k - 1] = NULL THEN NULL ELSE link[p[k - 1]]]
    OBVIOUS
  <2> HIDE DEF p
  <2>2. IsWalk(p, link, x, 0)
    BY <2>1 DEF IsWalk
  <2> QED BY <2>2
<1>2. ASSUME NEW m \in 0 .. n, m \in D, m < n PROVE m + 1 \in D
  <2>1. PICK p : IsWalk(p, link, x, m)
    BY <1>2
  <2>2. \A k \in 1 .. m : p[k] = IF k = 1 THEN x ELSE IF p[k - 1] = NULL THEN NULL ELSE link[p[k - 1]]
    BY <2>1 DEF IsWalk
  <2> DEFINE q == [k \in 1 .. m + 1 |->
                     IF k <= m THEN p[k] ELSE IF k = 1 THEN x ELSE IF p[m] = NULL THEN NULL ELSE link[p[m]]]
             r == [k \in 1 .. m + 1 |-> IF k = 1 THEN x ELSE IF q[k - 1] = NULL THEN NULL ELSE link[q[k - 1]]]
  <2>3. \A k \in 1 .. m : q[k] = p[k]
    BY <1>2
  <2>4. ASSUME NEW k \in 1 .. m + 1 PROVE q[k] = IF k = 1 THEN x ELSE IF q[k - 1] = NULL THEN NULL ELSE link[q[k - 1]]
    <3>1. CASE k = 1
      <4>1. CASE m = 0
        BY <3>1, <4>1
      <4>2. CASE m # 0
        BY <3>1, <4>2, <2>2, <2>3, <1>2
      <4> QED BY <4>1, <4>2
    <3>2. CASE k # 1 /\ k <= m
      <4>1. k - 1 \in 1 .. m /\ k \in 1 .. m
        BY <3>2, <1>2
      <4>2. q[k] = p[k] /\ q[k - 1] = p[k - 1]
        BY <2>3, <4>1
      <4> HIDE DEF q
      <4> QED BY <3>2, <4>1, <4>2, <2>2
    <3>3. CASE k # 1 /\ k = m + 1
      <4>1. m \in 1 .. m /\ k - 1 = m
        BY <3>3, <1>2
      <4>2. q[m] = p[m]
        BY <2>3, <4>1
      <4>3. q[k] = IF p[m] = NULL THEN NULL ELSE link[p[m]]
        BY <3>3, <1>2
      <4> HIDE DEF q
      <4> QED BY <3>3, <4>1, <4>2, <4>3
    <3> QED BY <3>1, <3>2, <3>3, <1>2
  <2>5. q = [k \in 1 .. m + 1 |-> q[k]]
    OBVIOUS
  <2> HIDE DEF q
  <2>6. q = r
    BY <2>4, <2>5
  <2>7. IsWalk(q, link, x, m + 1)
    BY <2>6 DEF IsWalk
  <2> QED BY <1>2, <2>7
<1>3. n \in D
  <2> HIDE DEF D
  <2> QED BY <1>1, <1>2, Upwards
<1> QED BY <1>3

\* A list is what a walk through as many places as there are elements comes to.
LEMMA ReachedIs ==
  ASSUME NEW link, NEW x, NEW n \in Nat, n = Cardinality(DOMAIN link)
  PROVE  \E p : /\ Reached(link, x) = {p[k] : k \in 1 .. n} \ {NULL}
                /\ \A k \in 1 .. n : p[k] = IF k = 1 THEN x ELSE IF p[k - 1] = NULL THEN NULL ELSE link[p[k - 1]]
<1> DEFINE E(p) == [k \in 1 .. n |-> IF k = 1 THEN x ELSE IF p[k - 1] = NULL THEN NULL ELSE link[p[k - 1]]]
           w == CHOOSE p : p = E(p)
<1>1. Reached(link, x) = {w[k] : k \in DOMAIN w} \ {NULL}
  BY DEF Reached
<1>0. \A p : IsWalk(p, link, x, n) <=> p = E(p)
  BY DEF IsWalk
<1> HIDE DEF E
<1>2. \E p : p = E(p)
  <2>1. PICK p : IsWalk(p, link, x, n)
    BY WalkExists
  <2> QED BY <1>0, <2>1
<1>3. w = E(w)
  BY <1>2
<1> HIDE DEF w
<1>4. DOMAIN w = 1 .. n /\ \A k \in 1 .. n : w[k] = IF k = 1 THEN x ELSE IF w[k - 1] = NULL THEN NULL ELSE link[w[k - 1]]
  BY <1>3 DEF E
<1> QED BY <1>1, <1>4

\* No link leads out of S.
Closed(link, S) == \A y \in S : link[y] \in S \cup {NULL}

\* link is a list of elements of D.
Links(link, D) == link \in [D -> D \cup {NULL}] /\ IsFiniteSet(D) /\ NULL \notin D

\* A list stays in every set it begins in and that no link leads out of.
LEMMA ReachedLeast ==
  ASSUME NEW D, NEW link, Links(link, D), NEW S, NEW x \in S \cup {NULL}, Closed(link, S)
  PROVE  Reached(link, x) \subseteq S
<1> DEFINE n == Cardinality(D)
<1>1. n \in Nat /\ n = Cardinality(DOMAIN link)
  BY FS_CardinalityType DEF Links
<1>2. PICK p : /\ Reached(link, x) = {p[k] : k \in 1 .. n} \ {NULL}
               /\ \A k \in 1 .. n : p[k] = IF k = 1 THEN x ELSE IF p[k - 1] = NULL THEN NULL ELSE link[p[k - 1]]
  <2> HIDE DEF n
  <2> QED BY <1>1, ReachedIs
<1> HIDE DEF n
<1> DEFINE T == {m \in 0 .. n : \A k \in 1 .. m : p[k] \in S \cup {NULL}}
<1>3. 0 \in T
  BY <1>1
<1>4. ASSUME NEW m \in 0 .. n, m \in T, m < n PROVE m + 1 \in T
  <2>1. m + 1 \in 1 .. n
    BY <1>1, <1>4
  <2>2. CASE m = 0
    <3>1. p[1] = x
      BY <1>2, <2>1, <2>2
    <3> QED BY <2>1, <2>2, <3>1
  <2>3. CASE m # 0
    <3>1. p[m] \in S \cup {NULL} /\ p[m + 1] = IF p[m] = NULL THEN NULL ELSE link[p[m]]
      BY <1>2, <1>4, <2>1, <2>3
    <3>2. p[m + 1] \in S \cup {NULL}
      BY <3>1 DEF Closed
    <3>3. \A k \in 1 .. m + 1 : k \in 1 .. m \/ k = m + 1
      BY <1>4
    <3> QED BY <1>4, <2>1, <3>2, <3>3
  <2> QED BY <2>2, <2>3
<1>5. n \in T
  <2> HIDE DEF T
  <2> QED BY <1>1, <1>3, <1>4, Upwards
<1> QED BY <1>2, <1>5

\* No link leads out of a list: it has at most as many elements as there are.
LEMMA ReachedClosed ==
  ASSUME NEW D, NEW link, Links(link, D), NEW x \in D \cup {NULL}
  PROVE  /\ Reached(link, x) \subseteq D
         /\ x \in Reached(link, x) \cup {NULL}
         /\ Closed(link, Reached(link, x))
<1> DEFINE n == Cardinality(D)
<1>1. n \in Nat /\ n = Cardinality(DOMAIN link)
  BY FS_CardinalityType DEF Links
<1>2. PICK p : /\ Reached(link, x) = {p[k] : k \in 1 .. n} \ {NULL}
               /\ \A k \in 1 .. n : p[k] = IF k = 1 THEN x ELSE IF p[k - 1] = NULL THEN NULL ELSE link[p[k - 1]]
  <2> HIDE DEF n
  <2> QED BY <1>1, ReachedIs
<1>3. Reached(link, x) \subseteq D
  BY ReachedLeast DEF Links, Closed
<1>4. CASE D = {}
  BY <1>3, <1>4 DEF Closed
<1>5. CASE D # {}
  <2>1. n >= 1
    BY <1>1, <1>5, FS_EmptySet DEF Links
  <2> HIDE DEF n
  <2>2. p[1] = x
    BY <1>1, <1>2, <2>1
  <2> DEFINE R(k) == {p[i] : i \in 1 .. k} \ {NULL}
             T == {k \in 0 .. n : Closed(link, R(k)) \/ Cardinality(R(k)) >= k}
  <2>3. \A k \in 0 .. n : R(k) \subseteq D /\ IsFiniteSet(R(k)) /\ Cardinality(R(k)) \in Nat
    <3>1. TAKE k \in 0 .. n
    <3>2. R(k) \subseteq R(n)
      BY <1>1
    <3>3. R(n) = Reached(link, x)
      BY <1>2
    <3> HIDE DEF R
    <3>4. R(k) \subseteq D
      BY <3>2, <3>3, <1>3
    <3> QED BY <3>4, FS_Subset, FS_CardinalityType DEF Links
  <2>4. 0 \in T
    <3>1. R(0) = {}
      OBVIOUS
    <3> HIDE DEF R
    <3>2. Closed(link, R(0))
      BY <3>1 DEF Closed
    <3> QED BY <1>1, <3>2
  <2>5. ASSUME NEW k \in 0 .. n, k \in T, k < n PROVE k + 1 \in T
    <3>0. k + 1 \in 1 .. n /\ k + 1 \in 0 .. n
      BY <1>1, <2>5
    <3>1. R(k + 1) = R(k) \cup ({p[k + 1]} \ {NULL})
      <4>1. 1 .. (k + 1) = 1 .. k \cup {k + 1}
        BY <3>0
      <4> QED BY <4>1
    <3>2. CASE k = 0
      <4>1. R(k) = {}
        BY <3>2
      <4>2. p[k + 1] = x
        BY <2>2, <3>2
      <4> HIDE DEF R
      <4>3. CASE x = NULL
        <5>1. R(k + 1) = {}
          BY <3>1, <4>1, <4>2, <4>3
        <5>2. Closed(link, R(k + 1))
          BY <5>1 DEF Closed
        <5> QED BY <3>0, <5>2
      <4>4. CASE x # NULL
        <5>1. R(k + 1) = {} \cup {x}
          BY <3>1, <4>1, <4>2, <4>4
        <5>2. Cardinality(R(k + 1)) = 1
          BY <5>1, FS_AddElement, FS_EmptySet
        <5> QED BY <3>0, <3>2, <5>2
      <4> QED BY <4>3, <4>4
    <3>3. CASE k # 0
      <4>0. k \in 1 .. k /\ k \in 1 .. n /\ k \in Nat
        BY <3>3, <3>0
      <4>1. p[k + 1] = IF p[k] = NULL THEN NULL ELSE link[p[k]]
        BY <1>2, <3>0, <3>3
      <4>2. p[k] \in R(k) \cup {NULL}
        BY <4>0
      <4>3. CASE Closed(link, R(k))
        <5>1. p[k + 1] \in R(k) \cup {NULL}
          BY <4>1, <4>2, <4>3 DEF Closed
        <5> HIDE DEF R
        <5>2. R(k + 1) = R(k)
          BY <3>1, <5>1
        <5>3. Closed(link, R(k + 1))
          BY <4>3, <5>2
        <5> QED BY <3>0, <5>3
      <4>4. CASE ~ Closed(link, R(k))
        <5>1. PICK y \in R(k) : link[y] \notin R(k) \cup {NULL}
          BY <4>4 DEF Closed
        <5>2. PICK i \in 1 .. k : y = p[i] /\ p[i] # NULL
          BY <5>1
        <5>3. i = k
          <6>1. ASSUME i # k PROVE FALSE
            <7> HIDE DEF R
            <7>1. i \in Nat /\ 1 <= i /\ i < k /\ k <= n
              BY <6>1, <4>0
            <7>4. i + 1 \in 1 .. k /\ i + 1 \in 1 .. n /\ i + 1 # 1 /\ (i + 1) - 1 = i
              BY <7>1, <4>0, <1>1
            <7>2. p[i + 1] = link[y]
              BY <1>2, <5>2, <7>4
            <7>3. p[i + 1] \in R(k) \cup {NULL}
              BY <7>4 DEF R
            <7> QED BY <5>1, <7>2, <7>3
          <6> QED BY <6>1
        <5>4. p[k + 1] = link[y]
          BY <4>1, <5>2, <5>3
        <5> HIDE DEF R
        <5>5. R(k + 1) = R(k) \cup {link[y]} /\ link[y] \notin R(k)
          BY <3>1, <5>1, <5>4
        <5>6. Cardinality(R(k + 1)) = Cardinality(R(k)) + 1
          BY <2>3, <5>5, FS_AddElement
        <5>7. Cardinality(R(k)) >= k
          BY <2>5, <4>4
        <5>8. Cardinality(R(k + 1)) >= k + 1
          BY <2>3, <5>6, <5>7, <4>0
        <5> QED BY <3>0, <5>8
      <4> QED BY <4>3, <4>4
    <3> QED BY <3>2, <3>3
  <2>6. n \in T
    <3> HIDE DEF T
    <3> QED BY <1>1, <2>4, <2>5, Upwards
  <2>7. R(n) = Reached(link, x)
    BY <1>2
  <2>8. x \in R(n) \cup {NULL}
    BY <2>1, <2>2, <1>1
  <2> HIDE DEF R
  <2>9. Closed(link, R(n))
    <3>1. CASE Cardinality(R(n)) >= n
      <4>1. R(n) \in SUBSET D /\ Cardinality(R(n)) \in Nat
        BY <1>1, <2>3
      <4>2. Cardinality(R(n)) = Cardinality(D)
        BY <3>1, <4>1, <1>1, FS_Subset DEF Links, n
      <4>3. R(n) = D
        BY <4>1, <4>2, FS_Subset DEF Links
      <4> QED BY <4>3 DEF Links, Closed
    <3> QED BY <2>6, <3>1
  <2> QED BY <1>3, <2>7, <2>8, <2>9
<1> QED BY <1>4, <1>5

(***************************************************************************)
(* Lists: a list is the least set that has the first element and that no   *)
(* link leads out of.  What the steps of the event do to an acyclic list.  *)
(***************************************************************************)

\* The empty list.
LEMMA ReachedNull ==
  ASSUME NEW D, NEW link, Links(link, D)
  PROVE  Reached(link, NULL) = {}
<1>1. Closed(link, {})
  BY DEF Closed
<1>2. Reached(link, NULL) \subseteq {}
  BY <1>1, ReachedLeast
<1> QED BY <1>2

\* A list begins with its first element and goes on with the rest.
LEMMA ReachedRest ==
  ASSUME NEW D, NEW link, Links(link, D), NEW y \in D
  PROVE  Reached(link, y) = {y} \cup Reached(link, link[y])
<1> DEFINE A == Reached(link, y)
           B == Reached(link, link[y])
<1>0. y # NULL /\ link[y] \in D \cup {NULL}
  BY DEF Links
<1>1. y \in A /\ Closed(link, A) /\ A \subseteq D
  BY <1>0, ReachedClosed
<1>2. link[y] \in B \cup {NULL} /\ Closed(link, B) /\ B \subseteq D
  BY <1>0, ReachedClosed
<1>3. A \subseteq {y} \cup B
  <2>1. Closed(link, {y} \cup B)
    BY <1>2 DEF Closed
  <2>2. y \in ({y} \cup B) \cup {NULL}
    OBVIOUS
  <2> HIDE DEF B
  <2> QED BY <2>1, <2>2, ReachedLeast
<1>4. B \subseteq A
  <2>1. link[y] \in A \cup {NULL}
    BY <1>1 DEF Closed
  <2> HIDE DEF A
  <2> QED BY <1>1, <2>1, ReachedLeast
<1> QED BY <1>1, <1>3, <1>4

\* What is in a list is followed by a part of it.
LEMMA ReachedPart ==
  ASSUME NEW D, NEW link, Links(link, D), NEW x \in D \cup {NULL}, NEW y \in Reached(link, x) \cup {NULL}
  PROVE  Reached(link, y) \subseteq Reached(link, x)
<1> DEFINE A == Reached(link, x)
<1>1. Closed(link, A)
  BY ReachedClosed
<1>2. y \in A \cup {NULL}
  OBVIOUS
<1> HIDE DEF A
<1>3. Reached(link, y) \subseteq A
  BY <1>1, <1>2, ReachedLeast
<1> QED BY <1>3 DEF A

\* A list is the same for links that are the same in it.
LEMMA SameReached ==
  ASSUME NEW D, NEW link, Links(link, D), NEW link2, Links(link2, D), NEW x \in D \cup {NULL},
         \A y \in Reached(link, x) : link2[y] = link[y]
  PROVE  Reached(link2, x) = Reached(link, x)
<1> DEFINE A == Reached(link, x)
           B == Reached(link2, x)
<1>1. Closed(link, A) /\ x \in A \cup {NULL}
  BY ReachedClosed
<1>2. Closed(link2, A)
  BY <1>1 DEF Closed
<1>3. B \subseteq A
  <2> HIDE DEF A
  <2> QED BY <1>1, <1>2, ReachedLeast
<1>4. Closed(link2, B) /\ x \in B \cup {NULL}
  BY ReachedClosed
<1>5. Closed(link, B)
  BY <1>3, <1>4 DEF Closed
<1>6. A \subseteq B
  <2> HIDE DEF B
  <2> QED BY <1>4, <1>5, ReachedLeast
<1> QED BY <1>3, <1>6

\* No element of a list comes again after itself.
Acyclic(link, x) == \A y \in Reached(link, x) : y \notin Reached(link, link[y])

\* A new element at the head.
LEMMA Pushed ==
  ASSUME NEW D, NEW link, Links(link, D), NEW x \in D \cup {NULL}, NEW e \in D,
         e \notin Reached(link, x), Acyclic(link, x), NEW link2, Links(link2, D),
         link2[e] = x, \A y \in D : y # e => link2[y] = link[y]
  PROVE  /\ Reached(link2, e) = {e} \cup Reached(link, x)
         /\ Acyclic(link2, e)
         /\ \A z \in D \cup {NULL} : e \notin Reached(link, z) => Reached(link2, z) = Reached(link, z)
<1>1. Links(link2, D) /\ link2[e] = x /\ \A y \in D : y # e => link2[y] = link[y]
  OBVIOUS
<1>2. ASSUME NEW z \in D \cup {NULL}, e \notin Reached(link, z)
      PROVE  Reached(link2, z) = Reached(link, z)
  <2>1. Reached(link, z) \subseteq D
    BY ReachedClosed
  <2>2. \A y \in Reached(link, z) : link2[y] = link[y]
    BY <1>1, <1>2, <2>1
  <2> QED BY <1>1, <2>2, SameReached
<1>3. Reached(link2, e) = {e} \cup Reached(link, x)
  BY <1>1, <1>2, ReachedRest
<1>4. ASSUME NEW y \in Reached(link2, e) PROVE y \notin Reached(link2, link2[y])
  <2>1. CASE y = e
    BY <1>1, <1>2, <2>1
  <2>2. CASE y # e
    <3>1. y \in Reached(link, x) /\ y \in D /\ y \notin Reached(link, link[y])
      BY <1>3, <1>4, <2>2, ReachedClosed DEF Acyclic
    <3>2. link2[y] = link[y] /\ link[y] \in D \cup {NULL} /\ link[y] \in Reached(link, x) \cup {NULL}
      BY <1>1, <2>2, <3>1, ReachedClosed DEF Links, Closed
    <3>3. e \notin Reached(link, link[y])
      BY <3>2, ReachedPart
    <3>4. Reached(link2, link[y]) = Reached(link, link[y])
      BY <1>2, <3>2, <3>3
    <3> QED BY <3>1, <3>2, <3>4
  <2> QED BY <2>1, <2>2
<1> QED BY <1>1, <1>2, <1>3, <1>4 DEF Acyclic

\* Of two elements of a list one comes after the other.
LEMMA Comparable ==
  ASSUME NEW D, NEW link, Links(link, D), NEW x \in D \cup {NULL},
         NEW y \in Reached(link, x), NEW z \in Reached(link, x)
  PROVE  y \in Reached(link, z) \/ z \in Reached(link, y)
<1> DEFINE A == Reached(link, x)
           S == {v \in A : y \in Reached(link, v) \/ v \in Reached(link, y)}
<1>1. A \subseteq D /\ x \in A \cup {NULL} /\ Closed(link, A)
  BY ReachedClosed
<1>2. y \in D /\ z \in A
  BY <1>1
<1>3. ASSUME NEW v \in S PROVE link[v] \in S \cup {NULL}
  <2>0. v \in A /\ v \in D /\ link[v] \in A \cup {NULL}
    BY <1>1 DEF Closed
  <2>1. CASE v \in Reached(link, y)
    <3>1. link[v] \in Reached(link, y) \cup {NULL}
      BY <1>2, <2>1, ReachedClosed DEF Closed
    <3> QED BY <2>0, <3>1
  <2>2. CASE v \notin Reached(link, y)
    <3>1. y \in Reached(link, v) /\ v # y
      <4>1. y \in Reached(link, y)
        BY <1>2, ReachedRest
      <4> QED BY <2>2, <4>1
    <3>2. y \in Reached(link, link[v])
      BY <2>0, <3>1, ReachedRest
    <3> QED BY <2>0, <3>2
  <2> QED BY <2>1, <2>2
<1>4. x \in S \cup {NULL}
  BY <1>1
<1>5. A \subseteq S
  <2>1. Closed(link, S)
    BY <1>3 DEF Closed
  <2> HIDE DEF S
  <2> QED BY <1>4, <2>1, ReachedLeast
<1> QED BY <1>2, <1>5

\* Only one element of a list leads to another one.
LEMMA OneLeads ==
  ASSUME NEW D, NEW link, Links(link, D), NEW x \in D \cup {NULL}, Acyclic(link, x),
         NEW y \in Reached(link, x), NEW z \in Reached(link, x), link[y] = link[z]
  PROVE  y = z
<1>1. y \in D /\ z \in D
  BY ReachedClosed
<1>2. y \notin Reached(link, link[y]) /\ z \notin Reached(link, link[z])
  BY DEF Acyclic
<1>3. y \in Reached(link, z) \/ z \in Reached(link, y)
  BY Comparable
<1> QED BY <1>1, <1>2, <1>3, ReachedRest

\* The list begins behind e, which is unlinked.
LEMMA Popped ==
  ASSUME NEW D, NEW link, Links(link, D), NEW x \in D \cup {NULL}, Acyclic(link, x),
         NEW e \in Reached(link, x), NEW link2, Links(link2, D), \A y \in D : y # e => link2[y] = link[y]
  PROVE  /\ link[e] \in D \cup {NULL}
         /\ e \notin Reached(link, link[e])
         /\ Reached(link, link[e]) \subseteq Reached(link, x)
         /\ \A z \in Reached(link, link[e]) \cup {link[e], NULL} : Reached(link2, z) = Reached(link, z)
         /\ Acyclic(link2, link[e])
<1> DEFINE f == link[e]
           A == Reached(link, f)
<1>1. Links(link2, D) /\ f \in D \cup {NULL} /\ \A y \in D : y # e => link2[y] = link[y]
  BY ReachedClosed DEF Links
<1>2. f \in Reached(link, x) \cup {NULL}
  BY ReachedClosed DEF Closed
<1>3. e \notin A
  BY DEF Acyclic
<1>4. A \subseteq Reached(link, x) /\ A \subseteq D /\ Closed(link, A)
  BY <1>1, <1>2, ReachedPart, ReachedClosed
<1>5. ASSUME NEW z \in A \cup {f, NULL} PROVE Reached(link2, z) = Reached(link, z)
  <2>1. z \in D \cup {NULL} /\ Reached(link, z) \subseteq A
    <3>1. CASE z = f
      BY <1>1, <3>1
    <3>2. CASE z \in A \cup {NULL}
      BY <1>1, <1>4, <3>2, ReachedPart
    <3> QED BY <3>1, <3>2
  <2>2. \A y \in Reached(link, z) : link2[y] = link[y]
    BY <1>1, <1>3, <1>4, <2>1
  <2> QED BY <1>1, <2>1, <2>2, SameReached
<1>6. ASSUME NEW y \in Reached(link2, f) PROVE y \notin Reached(link2, link2[y])
  <2>1. y \in A /\ y \in D /\ y # e
    BY <1>3, <1>4, <1>5, <1>6
  <2>2. link2[y] = link[y] /\ link[y] \in A \cup {NULL}
    BY <1>1, <1>4, <2>1 DEF Closed
  <2>3. Reached(link2, link2[y]) = Reached(link, link[y])
    BY <1>5, <2>2
  <2>4. y \notin Reached(link, link[y])
    BY <1>4, <2>1 DEF Acyclic
  <2> QED BY <2>3, <2>4
<1> QED BY <1>1, <1>3, <1>4, <1>5, <1>6 DEF Acyclic

\* What led to e leads behind it.
LEMMA Bypassed ==
  ASSUME NEW D, NEW link, Links(link, D), NEW x \in D \cup {NULL}, Acyclic(link, x),
         NEW e \in D, x # e, NEW link2, Links(link2, D),
         \A y \in Reached(link, x) \ {e} : link2[y] = IF link[y] = e THEN link[e] ELSE link[y]
  PROVE  /\ Reached(link2, x) = Reached(link, x) \ {e}
         /\ \A z \in Reached(link, x) \ {e} : Reached(link2, z) = Reached(link, z) \ {e}
         /\ Acyclic(link2, x)
<1> DEFINE R == Reached(link, x)
<1>1. R \subseteq D /\ x \in R \cup {NULL} /\ Closed(link, R)
  BY ReachedClosed
<1>2. e \in R => link[e] # e
  <2>1. ASSUME e \in R, link[e] = e PROVE FALSE
    <3>1. e \notin Reached(link, e)
      BY <2>1 DEF Acyclic
    <3> QED BY <3>1, ReachedRest
  <2> QED BY <2>1
<1>3. \A y \in R \ {e} : link2[y] = IF link[y] = e THEN link[e] ELSE link[y]
  OBVIOUS
<1>4. \A z \in R \cup {NULL} : Reached(link, z) \subseteq R
  BY ReachedPart
<1> HIDE DEF R
<1>5. ASSUME NEW z \in R \ {e} PROVE Reached(link2, z) = Reached(link, z) \ {e}
  <2> DEFINE A == Reached(link, z)
             B == Reached(link2, z)
  <2>1. z \in D /\ A \subseteq R /\ Closed(link, A) /\ z \in A \cup {NULL}
    BY <1>1, <1>4, ReachedClosed
  <2>2. B \subseteq A \ {e}
    <3>1. ASSUME NEW y \in A \ {e} PROVE link2[y] \in (A \ {e}) \cup {NULL}
      <4>1. link2[y] = IF link[y] = e THEN link[e] ELSE link[y]
        BY <1>3, <2>1
      <4>2. link[y] \in A \cup {NULL}
        BY <2>1 DEF Closed
      <4>3. CASE link[y] = e
        <5>1. e \in A /\ e \in R
          <6>1. e # NULL
            BY DEF Links
          <6> QED BY <2>1, <4>2, <4>3, <6>1
        <5>2. link[e] \in A \cup {NULL} /\ link[e] # e
          BY <1>2, <2>1, <5>1 DEF Closed
        <5> QED BY <4>1, <4>3, <5>2
      <4>4. CASE link[y] # e
        BY <4>1, <4>2, <4>4
      <4> QED BY <4>3, <4>4
    <3>2. Closed(link2, A \ {e}) /\ z \in (A \ {e}) \cup {NULL}
      BY <2>1, <3>1 DEF Closed
    <3> HIDE DEF A
    <3> QED BY <3>2, ReachedLeast
  <2>3. Closed(link2, B) /\ z \in B \cup {NULL}
    BY <2>1, ReachedClosed
  <2>4. \A y \in B : link2[y] = IF link[y] = e THEN link[e] ELSE link[y]
    BY <1>3, <2>1, <2>2
  <2> HIDE DEF A, B
  <2>5. A \subseteq B \cup {e}
    <3>1. CASE \E v \in B : link[v] = e
      <4>1. PICK v \in B : link[v] = e
        BY <3>1
      <4>2. link[e] \in B \cup {NULL}
        BY <2>3, <2>4, <4>1 DEF Closed
      <4>3. \A y \in B : link[y] \in B \cup {e, NULL}
        BY <2>3, <2>4 DEF Closed
      <4>4. Closed(link, B \cup {e}) /\ z \in (B \cup {e}) \cup {NULL}
        BY <2>3, <4>2, <4>3 DEF Closed
      <4> QED BY <4>4, ReachedLeast DEF A
    <3>2. CASE ~ \E v \in B : link[v] = e
      <4>1. Closed(link, B)
        BY <2>3, <2>4, <3>2 DEF Closed
      <4>2. A \subseteq B
        BY <2>3, <4>1, ReachedLeast DEF A
      <4> QED BY <4>2
    <3> QED BY <3>1, <3>2
  <2>6. B = A \ {e}
    BY <2>2, <2>5
  <2> QED BY <2>6 DEF A, B
<1>6. Reached(link2, x) = R \ {e}
  <2>1. CASE x = NULL
    <3>1. Reached(link2, x) = {} /\ R = {}
      BY <2>1, ReachedNull DEF R
    <3> QED BY <3>1
  <2>2. CASE x # NULL
    BY <1>1, <1>5, <2>2 DEF R
  <2> QED BY <2>1, <2>2
<1>7. ASSUME NEW y \in R \ {e} PROVE y \notin Reached(link2, link2[y])
  <2>1. y \notin Reached(link, link[y]) /\ link[y] \in R \cup {NULL}
    BY <1>1 DEF Acyclic, R, Closed
  <2>2. CASE link[y] = e
    <3>1. e \in R /\ link2[y] = link[e] /\ link[e] \in (R \cup {NULL}) \ {e}
      <4>1. e # NULL
        BY DEF Links
      <4>2. e \in R
        BY <2>1, <2>2, <4>1
      <4> QED BY <1>1, <1>2, <1>3, <2>2, <4>2 DEF Closed
    <3>2. Reached(link2, link[e]) \subseteq Reached(link, link[e])
      <4>1. CASE link[e] = NULL
        BY <4>1, ReachedNull
      <4>2. CASE link[e] # NULL
        BY <1>5, <3>1, <4>2
      <4> QED BY <4>1, <4>2
    <3>3. Reached(link, link[e]) \subseteq Reached(link, e)
      BY ReachedRest
    <3> QED BY <2>1, <2>2, <3>1, <3>2, <3>3
  <2>3. CASE link[y] # e
    <3>1. link2[y] = link[y]
      BY <1>3, <2>3
    <3>2. Reached(link2, link[y]) \subseteq Reached(link, link[y])
      <4>1. CASE link[y] = NULL
        BY <4>1, ReachedNull
      <4>2. CASE link[y] # NULL
        BY <1>5, <2>1, <2>3, <4>2
      <4> QED BY <4>1, <4>2
    <3> QED BY <2>1, <3>1, <3>2
  <2> QED BY <2>2, <2>3
<1> QED BY <1>5, <1>6, <1>7 DEF Acyclic, R

(***************************************************************************)
(* The inductive invariant.  The exchange of Ev decides who detaches a     *)
(* delegate; that Ev stays reset meanwhile (Claimed) needs that only the   *)
(* owner attaches a delegate again, who is not detaching it (OwnerAtOwn),  *)
(* and only when no handler still is at it (Fresh).                        *)
(***************************************************************************)

Shapes ==
  /\ at = [t \in Threads |-> at[t]]
  /\ mp = [t \in Threads |-> mp[t]]
  /\ Ev \in [Delegates -> BOOLEAN]

Claimed    == \A t \in Threads : Detaching(t) => mp[t] \in Delegates /\ ~ Ev[mp[t]]
OwnerAtOwn == \A d \in Delegates : Detaching(d) => mp[d] = d

IInv == Shapes /\ OneDetaches /\ Claimed /\ OwnerAtOwn

\* Initially nobody detaches anything.
LEMMA InitIInv == Init => IInv
  BY DEF Init, IInv, Shapes, OneDetaches, Claimed, OwnerAtOwn, Detaching, Threads

\* A thread that is at work on no delegate's removal after its step disturbs nothing.
LEMMA Leaving ==
  ASSUME IInv, NEW t \in Threads, NEW l,
         l \notin {"lock", "find", "unlinkhead"}, Goto(t, l),
         mp' = mp \/ \E x : Look(t, x),
         Ev' = Ev
  PROVE  IInv'
<1>1. Shapes'
  BY DEF IInv, Shapes, Goto, Look
<1>2. \A u \in Threads : Detaching(u)' => u # t /\ Detaching(u) /\ mp'[u] = mp[u]
  BY DEF IInv, Shapes, Goto, Look, Detaching
<1>3. OneDetaches' /\ Claimed'
  BY <1>2 DEF IInv, OneDetaches, Claimed
<1>4. OwnerAtOwn'
  BY <1>2 DEF IInv, OwnerAtOwn, Threads
<1> QED BY <1>1, <1>3, <1>4 DEF IInv

\* A thread that goes on with the removal it is at disturbs nothing.
LEMMA GoingOn ==
  ASSUME IInv, NEW t \in Threads, NEW l, Detaching(t), Goto(t, l),
         mp' = mp, Ev' = Ev
  PROVE  IInv'
<1>1. Shapes'
  BY DEF IInv, Shapes, Goto
<1>2. \A u \in Threads : Detaching(u)' => Detaching(u)
  BY DEF IInv, Shapes, Goto, Detaching
<1>3. OneDetaches' /\ Claimed'
  BY <1>2 DEF IInv, OneDetaches, Claimed
<1>4. OwnerAtOwn'
  BY <1>2 DEF IInv, OwnerAtOwn, Threads
<1> QED BY <1>1, <1>3, <1>4 DEF IInv

\* operator+=: a delegate that is attached is nobody's to detach.
LEMMA AttachKeeps == ASSUME IInv, NEW d \in Delegates, Attach(d) PROVE IInv'
<1>1. Shapes'
  BY DEF IInv, Shapes, Attach, Goto
<1>2. \A u \in Threads : Detaching(u)' => u # d /\ Detaching(u)
  BY DEF IInv, Shapes, Attach, Goto, Detaching
<1>3. mp' = mp
  BY DEF Attach
<1>4. ASSUME NEW u \in Threads, Detaching(u), u # d PROVE mp[u] # d
  <2>1. CASE u \in Delegates
    BY <1>4, <2>1 DEF IInv, OwnerAtOwn
  <2>2. CASE u \in Notifiers
    BY <2>2 DEF Attach, Fresh
  <2> QED BY <2>1, <2>2 DEF Threads
<1>5. OneDetaches'
  BY <1>2, <1>3 DEF IInv, OneDetaches
<1>6. Claimed'
  BY <1>2, <1>3, <1>4 DEF IInv, Claimed, Shapes, Attach
<1>7. OwnerAtOwn'
  BY <1>2, <1>3 DEF IInv, OwnerAtOwn, Threads
<1> QED BY <1>1, <1>5, <1>6, <1>7 DEF IInv

\* operator-=: whoever finds Ev set is the only one to remove the delegate.
LEMMA DetachKeeps ==
  ASSUME IInv, NEW t \in Threads, NEW d \in Delegates, Detach(t, d) PROVE IInv'
<1>1. at' = [at EXCEPT ![t] = IF Ev[d] THEN "lock" ELSE After(t)]
  BY DEF Detach, Goto
<1>2. mp' = [mp EXCEPT ![t] = IF Ev[d] THEN d ELSE NULL]
  BY DEF Detach, Look
<1>3. Ev' = [Ev EXCEPT ![d] = FALSE]
  BY DEF Detach
<1>4. After(t) \in {"idle", "fetch"}
  BY DEF After
<1>5. Shapes'
  BY <1>1, <1>2, <1>3, <1>4 DEF IInv, Shapes
<1>6. \A u \in Threads : u # t => (Detaching(u)' <=> Detaching(u)) /\ mp'[u] = mp[u]
  BY <1>1, <1>2 DEF IInv, Shapes, Detaching
<1>7. Detaching(t)' => Ev[d] /\ mp'[t] = d
  BY <1>1, <1>2, <1>4 DEF IInv, Shapes, Detaching
<1>8. \A u \in Threads : Detaching(u) /\ mp[u] = d => ~ Ev[d]
  BY DEF IInv, Claimed
<1>9. OneDetaches'
  BY <1>6, <1>7, <1>8 DEF IInv, OneDetaches
<1>10. Claimed'
  BY <1>3, <1>6, <1>7 DEF IInv, Claimed, Shapes
<1>11. OwnerAtOwn'
  <2>1. ASSUME t \in Delegates, Detaching(t)' PROVE mp'[t] = t
    <3>1. mp'[t] = d
      BY <1>7, <2>1
    <3>2. t = d
      BY <2>1, RolesAssumption DEF Detach
    <3> QED BY <3>1, <3>2
  <2> QED BY <1>6, <2>1 DEF IInv, OwnerAtOwn, Threads
<1> QED BY <1>5, <1>9, <1>10, <1>11 DEF IInv

\* The removal of a detached delegate.
LEMMA RemoveKeeps == ASSUME IInv, NEW t \in Threads, Remove(t) PROVE IInv'
<1>1. CASE MoveIterators(t)
  <2>1. Detaching(t) /\ Goto(t, "find") /\ mp' = mp /\ Ev' = Ev
    BY <1>1 DEF MoveIterators, Detaching, list
  <2> QED BY <2>1, GoingOn
<1>2. CASE FindHead(t)
  <2>1. Detaching(t) /\ Goto(t, "unlinkhead") /\ mp' = mp /\ Ev' = Ev
    BY <1>2 DEF FindHead, Detaching, list
  <2> QED BY <2>1, GoingOn
<1>3. CASE Unlink(t) \/ UnlinkHead(t) \/ NotFound(t)
  <2>1. After(t) \notin {"lock", "find", "unlinkhead"}
    BY DEF After
  <2>2. Goto(t, After(t)) /\ Look(t, NULL)
    BY <1>3 DEF Unlink, UnlinkHead, NotFound, Detached
  <2>3. Ev' = Ev
    BY <1>3 DEF Unlink, UnlinkHead, NotFound, list
  <2> QED BY <2>1, <2>2, <2>3, Leaving
<1> QED BY <1>1, <1>2, <1>3 DEF Remove

\* A notification removes nothing itself.
LEMMA RaiseKeeps == ASSUME IInv, NEW n \in Notifiers, Raise(n) PROVE IInv'
<1>1. n \in Threads
  BY DEF Threads
<1>2. Ev' = Ev
  BY DEF Raise, RegisterIterator, ReadDeleg, SetNext, Fetch, Call, Return, LeaveHead,
         WriteIter, Leave, Left, list
<1>3. mp' = mp \/ \E x : Look(n, x)
  <2>1. CASE RegisterIterator(n) \/ ReadDeleg(n) \/ SetNext(n)
    BY <2>1 DEF RegisterIterator, ReadDeleg, SetNext
  <2>2. CASE Fetch(n)
    BY <2>2 DEF Fetch
  <2>3. CASE Call(n) \/ Return(n)
    BY <2>3 DEF Call, Return
  <2>4. CASE LeaveHead(n) \/ WriteIter(n) \/ Leave(n)
    BY <2>4 DEF LeaveHead, WriteIter, Leave, Left
  <2> QED BY <2>1, <2>2, <2>3, <2>4 DEF Raise
<1>4. \E l \in {"read", "set", "fetch", "check", "call", "leave", "leavehead", "idle"} :
        Goto(n, l)
  <2>1. CASE RegisterIterator(n) \/ ReadDeleg(n) \/ SetNext(n)
    BY <2>1 DEF RegisterIterator, ReadDeleg, SetNext
  <2>2. CASE Fetch(n)
    BY <2>2 DEF Fetch
  <2>3. CASE Call(n) \/ Return(n)
    BY <2>3 DEF Call, Return
  <2>4. CASE LeaveHead(n) \/ WriteIter(n) \/ Leave(n)
    BY <2>4 DEF LeaveHead, WriteIter, Leave, Left
  <2> QED BY <2>1, <2>2, <2>3, <2>4 DEF Raise
<1>5. PICK l : l \notin {"lock", "find", "unlinkhead"} /\ Goto(n, l)
  BY <1>4
<1> QED BY <1>1, <1>2, <1>3, <1>5, Leaving

\* No step of any thread breaks the invariant.
LEMMA StepIInv == IInv /\ [Step]_vars => IInv'
<1> SUFFICES ASSUME IInv, [Step]_vars PROVE IInv'
  OBVIOUS
<1>1. ASSUME NEW d \in Delegates, Attach(d) PROVE IInv'
  BY <1>1, AttachKeeps
<1>2. ASSUME NEW d \in Delegates, Register(d) PROVE IInv'
  <2>1. d \in Threads /\ Goto(d, "live") /\ mp' = mp /\ Ev' = Ev
    BY <1>2 DEF Register, Threads
  <2> QED BY <2>1, Leaving
<1>3. ASSUME NEW t \in Threads, NEW d \in Delegates, Detach(t, d) PROVE IInv'
  BY <1>3, DetachKeeps
<1>4. ASSUME NEW t \in Threads, Remove(t) PROVE IInv'
  BY <1>4, RemoveKeeps
<1>5. ASSUME NEW n \in Notifiers, Raise(n) PROVE IInv'
  BY <1>5, RaiseKeeps
<1>6. CASE UNCHANGED vars
  BY <1>6 DEF vars, list, IInv, Shapes, OneDetaches, Claimed, OwnerAtOwn, Detaching
<1> QED BY <1>1, <1>2, <1>3, <1>4, <1>5, <1>6 DEF Step

\* detach succeeds for one thread only, however the owner and the handlers of a
\* delegate compete: nobody is told twice that the delegate was removed.
THEOREM DetachExclusive == Spec => []OneDetaches
<1>1. Spec => []IInv
  BY InitIInv, StepIInv, PTL DEF Spec
<1>2. IInv => OneDetaches
  BY DEF IInv
<1> QED BY <1>1, <1>2, PTL

(***************************************************************************)
(* Types.  The links stay in their range because a thread that removes a   *)
(* delegate is at one (Claimed).  The mutex is held by the one thread      *)
(* whose place is in a critical section.                                   *)
(***************************************************************************)

Critical == {"find", "unlinkhead", "leavehead"}

MutexHeld == \A t \in Threads : Mtx = t <=> at[t] \in Critical

Typed ==
  /\ Deleg \in Delegates \cup {NULL} /\ Link \in [Delegates -> Delegates \cup {NULL}]
  /\ Ev \in [Delegates -> BOOLEAN]
  /\ Iter \in Notifiers \cup {NULL} /\ IterLink \in [Notifiers -> Notifiers \cup {NULL}]
  /\ Next \in [Notifiers -> Delegates \cup {NULL}] /\ mp \in [Threads -> Delegates \cup {NULL}]
  /\ due \in [Notifiers -> SUBSET Delegates]
  /\ lost \subseteq Delegates /\ blind \subseteq Notifiers
  /\ Mtx \in Threads \cup {NULL}

\* Nobody enters or leaves a critical section without the mutex changing hands.
LEMMA MutexKept ==
  ASSUME Shapes, MutexHeld, NEW t \in Threads, NEW l, Goto(t, l),
         at[t] \in Critical <=> l \in Critical, Mtx' = Mtx
  PROVE  MutexHeld'
  BY DEF Shapes, MutexHeld, Goto, Critical

LEMMA MutexTaken ==
  ASSUME Shapes, MutexHeld, NEW t \in Threads, NEW l \in Critical, Goto(t, l),
         Mtx = NULL, Mtx' = t
  PROVE  MutexHeld'
  BY RolesAssumption DEF Shapes, MutexHeld, Goto, Critical

LEMMA MutexReleased ==
  ASSUME Shapes, MutexHeld, NEW t \in Threads, NEW l, l \notin Critical, Goto(t, l),
         at[t] \in Critical, Mtx' = NULL
  PROVE  MutexHeld'
  BY RolesAssumption DEF Shapes, MutexHeld, Goto, Critical

\* operator+= and the first half of operator-= do not touch the mutex.
LEMMA OwnerType ==
  ASSUME IInv, TypeOK, MutexHeld, NEW d \in Delegates,
         Attach(d) \/ Register(d) \/ \E t \in Threads : Detach(t, d)
  PROVE  Typed' /\ MutexHeld'
<1>1. d \in Threads
  BY DEF Threads
<1>2. CASE Attach(d)
  <2>1. Typed'
    BY <1>2 DEF Attach, Typed, TypeOK, iters, history
  <2>2. MutexHeld'
    <3>1. Goto(d, "attach") /\ at[d] = "idle" /\ Mtx' = Mtx
      BY <1>2 DEF Attach
    <3> QED BY <1>1, <3>1, MutexKept DEF IInv, Critical
  <2> QED BY <2>1, <2>2
<1>3. CASE Register(d)
  <2>1. Typed'
    BY <1>3 DEF Register, Typed, TypeOK, iters
  <2>2. MutexHeld'
    <3>1. Goto(d, "live") /\ at[d] = "attach" /\ Mtx' = Mtx
      BY <1>3 DEF Register
    <3> QED BY <1>1, <3>1, MutexKept DEF IInv, Critical
  <2> QED BY <2>1, <2>2
<1>4. ASSUME NEW t \in Threads, Detach(t, d) PROVE Typed' /\ MutexHeld'
  <2>1. Typed'
    BY <1>4 DEF Detach, Look, Typed, TypeOK, iters
  <2>2. MutexHeld'
    <3>1. PICK l : l \notin Critical /\ Goto(t, l)
      BY <1>4 DEF Detach, After, Critical
    <3>2. at[t] \notin Critical /\ Mtx' = Mtx
      BY <1>4 DEF Detach, Critical
    <3> QED BY <3>1, <3>2, MutexKept DEF IInv
  <2> QED BY <2>1, <2>2
<1> QED BY <1>2, <1>3, <1>4

\* The removal links delegates to delegates, under the mutex.
LEMMA RemoveType ==
  ASSUME IInv, TypeOK, MutexHeld, NEW t \in Threads, Remove(t)
  PROVE  Typed' /\ MutexHeld'
<1>1. mp[t] \in Delegates
  <2>1. Detaching(t)
    BY DEF Remove, MoveIterators, FindHead, Unlink, UnlinkHead, NotFound, Detaching
  <2> QED BY <2>1 DEF IInv, Claimed
<1>2. CASE MoveIterators(t)
  <2>1. Typed'
    BY <1>1, <1>2 DEF MoveIterators, Typed, TypeOK, Running, list
  <2>2. MutexHeld'
    <3>1. Goto(t, "find") /\ Mtx = NULL /\ Mtx' = t
      BY <1>2 DEF MoveIterators
    <3> QED BY <3>1, MutexTaken DEF IInv, Critical
  <2> QED BY <2>1, <2>2
<1>3. CASE FindHead(t)
  <2>1. Typed'
    BY <1>3 DEF FindHead, Typed, TypeOK, list, iters, history
  <2>2. MutexHeld'
    <3>1. Goto(t, "unlinkhead") /\ at[t] = "find" /\ Mtx' = Mtx
      BY <1>3 DEF FindHead
    <3> QED BY <3>1, MutexKept DEF IInv, Critical
  <2> QED BY <2>1, <2>2
<1>4. CASE Unlink(t) \/ UnlinkHead(t) \/ NotFound(t)
  <2>1. Goto(t, After(t)) /\ at[t] \in Critical /\ Look(t, NULL) /\ Mtx' = NULL
    BY <1>4 DEF Unlink, UnlinkHead, NotFound, Detached, Critical
  <2>2. MutexHeld'
    <3>1. After(t) \notin Critical
      BY DEF After, Critical
    <3> QED BY <2>1, <3>1, MutexReleased DEF IInv
  <2>3. Link' \in [Delegates -> Delegates \cup {NULL}] /\ Deleg' \in Delegates \cup {NULL}
    BY <1>1, <1>4 DEF Unlink, UnlinkHead, NotFound, TypeOK, list
  <2>4. UNCHANGED <<Ev, iters, history>>
    BY <1>4 DEF Unlink, UnlinkHead, NotFound, list
  <2>5. Typed'
    BY <2>1, <2>3, <2>4 DEF Typed, TypeOK, Look, iters, history
  <2> QED BY <2>2, <2>5
<1> QED BY <1>2, <1>3, <1>4 DEF Remove

\* A notification: the mutex is taken and left by the removal of the head of the
\* iterators only; what else runs under it is one step.
LEMMA RaiseType ==
  ASSUME IInv, TypeOK, MutexHeld, NEW n \in Notifiers, Raise(n)
  PROVE  Typed' /\ MutexHeld'
<1>1. n \in Threads
  BY DEF Threads
<1>2. CASE RegisterIterator(n)
  <2>1. Typed'
    BY <1>2 DEF RegisterIterator, Typed, TypeOK, list
  <2>2. Goto(n, "read") /\ at[n] = "idle" /\ Mtx' = Mtx
    BY <1>2 DEF RegisterIterator
  <2> QED BY <1>1, <2>1, <2>2, MutexKept DEF IInv, Critical
<1>3. CASE ReadDeleg(n) \/ SetNext(n)
  <2>1. Typed'
    BY <1>1, <1>3 DEF ReadDeleg, SetNext, Look, Typed, TypeOK, list, iters, history
  <2>2. PICK l \in {"set", "fetch"} : Goto(n, l)
    BY <1>3 DEF ReadDeleg, SetNext
  <2>3. at[n] \in {"read", "set"} /\ Mtx' = Mtx
    BY <1>3 DEF ReadDeleg, SetNext
  <2> QED BY <1>1, <2>1, <2>2, <2>3, MutexKept DEF IInv, Critical
<1>4. CASE Fetch(n)
  <2>1. Next' \in [Notifiers -> Delegates \cup {NULL}]
    BY <1>4 DEF Fetch, TypeOK
  <2>2. mp' \in [Threads -> Delegates \cup {NULL}]
    BY <1>4 DEF Fetch, Look, TypeOK
  <2>3. UNCHANGED <<list, Iter, IterLink, Mtx, history>> /\ at[n] = "fetch"
    BY <1>4 DEF Fetch
  <2>4. Typed'
    BY <2>1, <2>2, <2>3 DEF Typed, TypeOK, list, history
  <2>5. PICK l \in {"leave", "check"} : Goto(n, l)
    BY <1>4 DEF Fetch
  <2> QED BY <1>1, <2>3, <2>4, <2>5, MutexKept DEF IInv, Critical
<1>5. CASE Call(n) \/ Return(n)
  <2>1. Typed'
    BY <1>1, <1>5 DEF Call, Return, Look, Typed, TypeOK, list, iters, history
  <2>2. PICK l \in {"call", "fetch"} : Goto(n, l)
    BY <1>5 DEF Call, Return
  <2>3. at[n] \in {"check", "call"} /\ Mtx' = Mtx
    BY <1>5 DEF Call, Return
  <2> QED BY <1>1, <2>1, <2>2, <2>3, MutexKept DEF IInv, Critical
<1>6. CASE LeaveHead(n)
  <2>1. Typed'
    BY <1>1, <1>6 DEF LeaveHead, Typed, TypeOK, list, iters, history
  <2>2. Goto(n, "leavehead") /\ Mtx = NULL /\ Mtx' = n
    BY <1>6 DEF LeaveHead
  <2> QED BY <1>1, <2>1, <2>2, MutexTaken DEF IInv, Critical
<1>7. CASE WriteIter(n)
  <2>1. Typed'
    BY <1>7 DEF WriteIter, Left, Typed, TypeOK, list
  <2>2. Goto(n, "idle") /\ at[n] = "leavehead" /\ Mtx' = NULL
    BY <1>7 DEF WriteIter, Left
  <2> QED BY <1>1, <2>1, <2>2, MutexReleased DEF IInv, Critical
<1>8. CASE Leave(n)
  <2>1. IterLink' \in [Notifiers -> Notifiers \cup {NULL}]
    BY <1>8 DEF Leave, TypeOK
  <2>2. Typed'
    BY <1>8, <2>1 DEF Leave, Left, Typed, TypeOK, list
  <2>3. Goto(n, "idle") /\ at[n] = "leave" /\ Mtx' = Mtx
    BY <1>8 DEF Leave, Left
  <2> QED BY <1>1, <2>2, <2>3, MutexKept DEF IInv, Critical
<1> QED BY <1>2, <1>3, <1>4, <1>5, <1>6, <1>7, <1>8 DEF Raise

\* TypeOK consists of the two parts.
LEMMA TypeParts == TypeOK <=> Typed /\ MutexHeld
  BY DEF TypeOK, Typed, MutexHeld, Critical

\* Links, iterators and the places of the threads keep their types, and the mutex of
\* the event is held from the move of the iterators to the end of the removal and
\* while the head of the iterators is replaced, and at no other time.
THEOREM TypeCorrect == Spec => []TypeOK
<1>1. Init => TypeOK
  BY RolesAssumption DEF Init, TypeOK, Threads
<1>2. IInv /\ TypeOK /\ [Step]_vars => TypeOK'
  <2> SUFFICES ASSUME IInv, TypeOK, [Step]_vars PROVE TypeOK'
    OBVIOUS
  <2>1. MutexHeld
    BY TypeParts
  <2>2. TypeOK' <=> Typed' /\ MutexHeld'
    BY DEF TypeOK, Typed, MutexHeld, Critical
  <2>3. CASE \E d \in Delegates : Attach(d) \/ Register(d)
    BY <2>1, <2>2, <2>3, OwnerType
  <2>4. CASE \E t \in Threads, d \in Delegates : Detach(t, d)
    BY <2>1, <2>2, <2>4, OwnerType
  <2>5. CASE \E t \in Threads : Remove(t)
    BY <2>1, <2>2, <2>5, RemoveType
  <2>6. CASE \E n \in Notifiers : Raise(n)
    BY <2>1, <2>2, <2>6, RaiseType
  <2>7. CASE UNCHANGED vars
    BY <2>7 DEF vars, list, iters, history, TypeOK
  <2> QED BY <2>3, <2>4, <2>5, <2>6, <2>7 DEF Step
<1>3. Spec => []IInv
  BY InitIInv, StepIInv, PTL DEF Spec
<1> QED BY <1>1, <1>2, <1>3, PTL DEF Spec

(***************************************************************************)
(* The list of the iterators.                                              *)
(***************************************************************************)

\* The iterators and the delegates of the lists.
InIter == Reached(IterLink, Iter)
InList == Reached(Link, Deleg)

\* A notification that replaces the head of the iterators is still in the list:
\* it holds the mutex, and the others only push to the front meanwhile.
IterInv ==
  /\ IteratorsRunning
  /\ Acyclic(IterLink, Iter)
  /\ \A n \in Notifiers : at[n] = "leavehead" => n \in InIter

\* Initially no notification is running.
LEMMA InitIterInv == Init => IterInv
<1> SUFFICES ASSUME Init PROVE IterInv
  OBVIOUS
<1>1. Links(IterLink, Notifiers)
  BY RolesAssumption, FiniteAssumption DEF Init, Links, Threads
<1>2. Reached(IterLink, Iter) = {}
  BY <1>1, ReachedNull DEF Init
<1>3. \A n \in Notifiers : at[n] = "idle"
  BY DEF Init, Threads
<1> QED BY <1>2, <1>3 DEF IterInv, IteratorsRunning, Acyclic, InIter

\* The iterators are a list.
LEMMA IterLinks ==
  TypeOK => Links(IterLink, Notifiers) /\ Iter \in Notifiers \cup {NULL}
  BY RolesAssumption, FiniteAssumption DEF TypeOK, Links, Threads

\* A step that leaves the iterators alone, of a notification that goes on.
LEMMA IterKept ==
  ASSUME Shapes, IterInv, UNCHANGED <<Iter, IterLink>>, NEW t \in Threads, NEW l, Goto(t, l),
         t \in Notifiers => l # "idle", l = "leavehead" => t \in InIter
  PROVE  IterInv'
<1>1. InIter' = InIter
  BY DEF InIter
<1>2. \A n \in Notifiers : at'[n] = IF n = t THEN l ELSE at[n]
  BY DEF Shapes, Goto, Threads
<1>3. Running \subseteq Running'
  BY <1>2 DEF Running
<1>4. IteratorsRunning'
  BY <1>1, <1>3 DEF IterInv, IteratorsRunning, InIter
<1>5. Acyclic(IterLink, Iter)'
  BY DEF IterInv
<1> QED BY <1>1, <1>2, <1>4, <1>5 DEF IterInv

\* The constructor of an iterator puts it at the front.
LEMMA RegisterIteratorIter ==
  ASSUME IInv, TypeOK, IterInv, NEW n \in Notifiers, RegisterIterator(n) PROVE IterInv'
<1>1. Links(IterLink, Notifiers) /\ Iter \in Notifiers \cup {NULL}
  BY IterLinks
<1>2. n \notin Reached(IterLink, Iter)
  BY DEF RegisterIterator, IterInv, IteratorsRunning, Running
<1>3. /\ Links(IterLink', Notifiers) /\ IterLink'[n] = Iter /\ Iter' = n
      /\ \A y \in Notifiers : y # n => IterLink'[y] = IterLink[y]
  BY <1>1 DEF RegisterIterator, Links
<1>4. Reached(IterLink', n) = {n} \cup Reached(IterLink, Iter) /\ Acyclic(IterLink', n)
  BY <1>1, <1>2, <1>3, Pushed DEF IterInv
<1>5. \A k \in Notifiers : at'[k] = IF k = n THEN "read" ELSE at[k]
  BY DEF RegisterIterator, IInv, Shapes, Goto, Threads
<1>6. InIter' = {n} \cup InIter
  BY <1>3, <1>4 DEF InIter
<1>7. IteratorsRunning'
  BY <1>5, <1>6 DEF IterInv, IteratorsRunning, Running, InIter
<1>8. Acyclic(IterLink, Iter)'
  BY <1>3, <1>4
<1> QED BY <1>5, <1>6, <1>7, <1>8 DEF IterInv

\* The head is replaced by what follows the iterator, not by what follows the head:
\* those that came to the front since are lost, and nothing else.
LEMMA WriteIterIter ==
  ASSUME IInv, TypeOK, IterInv, NEW n \in Notifiers, WriteIter(n) PROVE IterInv'
<1>1. Links(IterLink, Notifiers) /\ Iter \in Notifiers \cup {NULL}
  BY IterLinks
<1>2. n \in Reached(IterLink, Iter) /\ at[n] = "leavehead"
  BY DEF WriteIter, IterInv, InIter
<1>3. /\ Links(IterLink', Notifiers) /\ Iter' = IterLink[n]
      /\ \A y \in Notifiers : y # n => IterLink'[y] = IterLink[y]
  BY <1>1 DEF WriteIter, Links
<1>4. /\ n \notin Reached(IterLink, Iter')
      /\ Reached(IterLink, Iter') \subseteq Reached(IterLink, Iter)
      /\ Reached(IterLink', Iter') = Reached(IterLink, Iter')
      /\ Acyclic(IterLink', Iter')
  BY <1>1, <1>2, <1>3, Popped DEF IterInv
<1>5. \A k \in Notifiers : at'[k] = IF k = n THEN "idle" ELSE at[k]
  BY DEF WriteIter, Left, IInv, Shapes, Goto, Threads
<1>6. InIter' \subseteq InIter \ {n}
  BY <1>4 DEF InIter
<1>7. IteratorsRunning'
  BY <1>5, <1>6 DEF IterInv, IteratorsRunning, Running, InIter
<1>8. \A k \in Notifiers : at'[k] # "leavehead"
  <2>1. \A k \in Notifiers : at[k] = "leavehead" => Mtx = k
    BY DEF TypeOK, Threads
  <2> QED BY <1>2, <1>5, <2>1
<1>9. Acyclic(IterLink, Iter)'
  BY <1>4
<1> QED BY <1>7, <1>8, <1>9 DEF IterInv

\* What led to the iterator leads behind it.
LEMMA LeaveIter ==
  ASSUME IInv, TypeOK, IterInv, NEW n \in Notifiers, Leave(n) PROVE IterInv'
<1>1. Links(IterLink, Notifiers) /\ Iter \in Notifiers \cup {NULL}
  BY IterLinks
<1>2. Iter # n /\ Iter' = Iter /\ Mtx = NULL
  BY DEF Leave
<1>3. Links(IterLink', Notifiers)
  BY <1>1 DEF Leave, Links
<1>4. \A y \in Reached(IterLink, Iter) \ {n} :
        IterLink'[y] = IF IterLink[y] = n THEN IterLink[n] ELSE IterLink[y]
  <2>1. Reached(IterLink, Iter) \subseteq Notifiers
    BY <1>1, ReachedClosed
  <2> QED BY <2>1 DEF Leave
<1>5. Reached(IterLink', Iter) = Reached(IterLink, Iter) \ {n} /\ Acyclic(IterLink', Iter)
  BY <1>1, <1>2, <1>3, <1>4, Bypassed DEF IterInv
<1>6. \A k \in Notifiers : at'[k] = IF k = n THEN "idle" ELSE at[k]
  BY DEF Leave, Left, IInv, Shapes, Goto, Threads
<1>7. InIter' = InIter \ {n}
  BY <1>2, <1>5 DEF InIter
<1>8. IteratorsRunning'
  BY <1>6, <1>7 DEF IterInv, IteratorsRunning, Running, InIter
<1>9. \A k \in Notifiers : at'[k] # "leavehead"
  <2>1. \A k \in Notifiers : at[k] = "leavehead" => Mtx = k
    BY DEF TypeOK, Threads
  <2> QED BY <1>2, <1>6, <2>1, RolesAssumption DEF Threads
<1>10. Acyclic(IterLink, Iter)'
  BY <1>2, <1>5
<1> QED BY <1>8, <1>9, <1>10 DEF IterInv

\* Every step.
LEMMA StepIterInv == IInv /\ TypeOK /\ IterInv /\ [Step]_vars => IterInv'
<1> SUFFICES ASSUME IInv, TypeOK, IterInv, [Step]_vars PROVE IterInv'
  OBVIOUS
<1>0. Shapes
  BY DEF IInv
<1>1. ASSUME NEW d \in Delegates, Attach(d) \/ Register(d) PROVE IterInv'
  <2>1. PICK l \in {"attach", "live"} : Goto(d, l)
    BY <1>1 DEF Attach, Register
  <2>2. UNCHANGED <<Iter, IterLink>>
    BY <1>1 DEF Attach, Register, iters
  <2>3. d \in Threads /\ d \notin Notifiers
    BY RolesAssumption DEF Threads
  <2> QED BY <1>0, <2>1, <2>2, <2>3, IterKept
<1>2. ASSUME NEW t \in Threads, NEW d \in Delegates, Detach(t, d) PROVE IterInv'
  <2>1. PICK l : l \in {"lock", After(t)} /\ Goto(t, l)
    BY <1>2 DEF Detach
  <2>2. UNCHANGED <<Iter, IterLink>>
    BY <1>2 DEF Detach, iters
  <2>3. (t \in Notifiers => l # "idle") /\ l # "leavehead"
    BY <2>1, RolesAssumption DEF After
  <2> QED BY <1>0, <2>1, <2>2, <2>3, IterKept
<1>3. ASSUME NEW t \in Threads, Remove(t) PROVE IterInv'
  <2>1. PICK l : l \in {"find", "unlinkhead", After(t)} /\ Goto(t, l)
    BY <1>3 DEF Remove, MoveIterators, FindHead, Unlink, UnlinkHead, NotFound, Detached
  <2>2. UNCHANGED <<Iter, IterLink>>
    BY <1>3 DEF Remove, MoveIterators, FindHead, Unlink, UnlinkHead, NotFound, iters
  <2>3. (t \in Notifiers => l # "idle") /\ l # "leavehead"
    BY <2>1, RolesAssumption DEF After
  <2> QED BY <1>0, <2>1, <2>2, <2>3, IterKept
<1>4. ASSUME NEW n \in Notifiers, Raise(n) PROVE IterInv'
  <2>0. n \in Threads
    BY DEF Threads
  <2>1. CASE RegisterIterator(n)
    BY <2>1, RegisterIteratorIter
  <2>2. CASE WriteIter(n)
    BY <2>2, WriteIterIter
  <2>3. CASE Leave(n)
    BY <2>3, LeaveIter
  <2>4. CASE ReadDeleg(n) \/ SetNext(n) \/ Fetch(n) \/ Call(n) \/ Return(n)
    <3>1. PICK l : l \in {"set", "fetch", "leave", "check", "call"} /\ Goto(n, l)
      BY <2>4 DEF ReadDeleg, SetNext, Fetch, Call, Return
    <3>2. UNCHANGED <<Iter, IterLink>>
      BY <2>4 DEF ReadDeleg, SetNext, Fetch, Call, Return, iters
    <3> QED BY <1>0, <2>0, <3>1, <3>2, IterKept
  <2>5. CASE LeaveHead(n)
    <3>1. Goto(n, "leavehead") /\ Iter = n /\ UNCHANGED <<Iter, IterLink>>
      BY <2>5 DEF LeaveHead, iters
    <3>2. n \in InIter
      <4>1. n # NULL
        BY RolesAssumption DEF Threads
      <4> QED BY <3>1, <4>1, IterLinks, ReachedClosed DEF InIter
    <3> QED BY <1>0, <2>0, <3>1, <3>2, IterKept
  <2> QED BY <1>4, <2>1, <2>2, <2>3, <2>4, <2>5 DEF Raise
<1>5. CASE UNCHANGED vars
  BY <1>5 DEF vars, iters, IterInv, IteratorsRunning, Running, InIter
<1> QED BY <1>1, <1>2, <1>3, <1>4, <1>5 DEF Step

\* IteratorsRunning: no list leads to the iterator of a notification that has left,
\* though iterators are pushed without the mutex while the head is replaced (event.cpp,
\* operator() and the destructor of the iterator).
THEOREM IteratorsOfRunning == Spec => []IteratorsRunning
<1>1. Spec => []IInv
  BY InitIInv, StepIInv, PTL DEF Spec
<1>2. Spec => []IterInv
  BY <1>1, TypeCorrect, InitIterInv, StepIterInv, PTL DEF Spec
<1>3. IterInv => IteratorsRunning
  BY DEF IterInv
<1> QED BY <1>2, <1>3, PTL

(***************************************************************************)
(* The list of the delegates.  A head that is removed was read before:     *)
(* what registered since is lost, and that is all that is.                 *)
(***************************************************************************)

\* The parts of ListOfRegistered.
RegisteredIn == \A d \in Delegates \ lost : at[d] = "live" /\ Ev[d] => d \in InList
InRegistered == \A d \in InList : Ev[d] \/ \E t \in Threads : Detaching(t) /\ mp[t] = d
\* Nothing refers to a delegate that is to be registered, and nobody detached it.
AttachFresh  == \A d \in Delegates : at[d] = "attach" => Fresh(d)
AttachSet    == \A d \in Delegates : at[d] = "attach" => Ev[d]
\* While the head is removed what is in front of it has come since, and is lost.
HeadLost     == \A t \in Threads : at[t] = "unlinkhead" =>
                  mp[t] \in InList /\ InList \ lost \subseteq Reached(Link, mp[t])

\* The invariant of the list of delegates.
ListInv == RegisteredIn /\ InRegistered /\ Acyclic(Link, Deleg) /\ AttachFresh /\ AttachSet /\ HeadLost

\* All that is known of the lists.
Inv == IInv /\ TypeOK /\ IterInv /\ ListInv

\* The delegates are a list.
LEMMA ListLinks ==
  TypeOK => Links(Link, Delegates) /\ Deleg \in Delegates \cup {NULL}
  BY RolesAssumption, FiniteAssumption DEF TypeOK, Links, Threads

\* Initially no delegate is registered.
LEMMA InitListInv == Init => ListInv
<1> SUFFICES ASSUME Init PROVE ListInv
  OBVIOUS
<1>1. Links(Link, Delegates)
  BY RolesAssumption, FiniteAssumption DEF Init, Links, Threads
<1>2. InList = {}
  BY <1>1, ReachedNull DEF Init, InList
<1>3. \A t \in Threads : at[t] = "idle"
  BY DEF Init
<1> QED BY <1>2, <1>3 DEF ListInv, RegisteredIn, InRegistered, Acyclic, AttachFresh, AttachSet, HeadLost,
      InList, Threads

\* What nothing refers to is in no list that begins with something else.
LEMMA FreshOutside ==
  ASSUME TypeOK, NEW d \in Delegates, Fresh(d), NEW z \in Delegates \cup {NULL}, z # d
  PROVE  d \notin Reached(Link, z)
<1>1. Links(Link, Delegates)
  BY ListLinks
<1>2. Closed(Link, Delegates \ {d})
  BY <1>1 DEF Fresh, Closed, Links
<1>3. z \in (Delegates \ {d}) \cup {NULL}
  OBVIOUS
<1>4. Reached(Link, z) \subseteq Delegates \ {d}
  BY <1>1, <1>2, <1>3, ReachedLeast
<1> QED BY <1>4

\* operator+= puts the delegate at the front, of this list only.
LEMMA RegisterList ==
  ASSUME Inv, NEW d \in Delegates, Register(d)
  PROVE  /\ Fresh(d) /\ InList' = {d} \cup InList
         /\ Acyclic(Link, Deleg)'
         /\ \A z \in (Delegates \cup {NULL}) \ {d} : Reached(Link', z) = Reached(Link, z)
<1>1. Links(Link, Delegates) /\ Deleg \in Delegates \cup {NULL}
  BY ListLinks DEF Inv
<1>2. Fresh(d)
  BY DEF Inv, ListInv, AttachFresh, Register
<1>3. Deleg # d
  BY <1>2 DEF Fresh
<1>4. \A z \in (Delegates \cup {NULL}) \ {d} : d \notin Reached(Link, z)
  BY <1>2, FreshOutside DEF Inv
<1>5. /\ Links(Link', Delegates) /\ Link'[d] = Deleg /\ Deleg' = d
      /\ \A y \in Delegates : y # d => Link'[y] = Link[y]
  BY <1>1 DEF Register, Links
<1>6. /\ Reached(Link', d) = {d} \cup Reached(Link, Deleg)
      /\ Acyclic(Link', d)
      /\ \A z \in Delegates \cup {NULL} :
           d \notin Reached(Link, z) => Reached(Link', z) = Reached(Link, z)
  BY <1>1, <1>3, <1>4, <1>5, Pushed DEF Inv, ListInv
<1> QED BY <1>2, <1>4, <1>5, <1>6 DEF InList

\* A removal that is not from the head takes the delegate out and nothing else.
LEMMA UnlinkList ==
  ASSUME Inv, NEW t \in Threads, Unlink(t)
  PROVE  /\ mp[t] \in Delegates
         /\ InList' = InList \ {mp[t]}
         /\ Acyclic(Link, Deleg)'
         /\ \A z \in InList \ {mp[t]} : Reached(Link', z) = Reached(Link, z) \ {mp[t]}
<1> DEFINE m == mp[t]
<1>1. Links(Link, Delegates) /\ Deleg \in Delegates \cup {NULL} /\ Acyclic(Link, Deleg)
  BY ListLinks DEF Inv, ListInv
<1>2. m \in Delegates /\ Deleg # m /\ Deleg' = Deleg
  BY DEF Inv, IInv, Claimed, Detaching, Unlink
<1>3. PICK x \in Reached(Link, Deleg) : Link[x] = m /\ Link' = [Link EXCEPT ![x] = Link[m], ![m] = NULL]
  BY DEF Unlink
<1>4. Reached(Link, Deleg) \subseteq Delegates /\ m \in Reached(Link, Deleg)
  <2>1. m # NULL
    BY <1>1, <1>2 DEF Links
  <2> QED BY <1>1, <1>3, <2>1, ReachedClosed DEF Closed
<1>5. x # m
  <2>1. m \notin Reached(Link, Link[m])
    BY <1>1, <1>4 DEF Acyclic
  <2>2. m \in Reached(Link, m)
    BY <1>1, <1>2, ReachedRest
  <2> QED BY <1>3, <2>1, <2>2
<1>6. Links(Link', Delegates)
  BY <1>1, <1>2, <1>3 DEF Links
<1>7. \A y \in Reached(Link, Deleg) \ {m} : Link'[y] = IF Link[y] = m THEN Link[m] ELSE Link[y]
  <2>1. TAKE y \in Reached(Link, Deleg) \ {m}
  <2>2. y \in Delegates /\ x \in Delegates
    BY <1>4
  <2>3. CASE y = x
    BY <1>1, <1>2, <1>3, <1>5, <2>2, <2>3 DEF Links
  <2>4. CASE y # x
    <3>1. Link[y] # m
      BY <1>1, <1>3, <2>4, OneLeads
    <3>2. Link'[y] = Link[y]
      BY <1>1, <1>3, <2>2, <2>4 DEF Links
    <3> QED BY <3>1, <3>2
  <2> QED BY <2>3, <2>4
<1> HIDE DEF m
<1>8. /\ Reached(Link', Deleg) = Reached(Link, Deleg) \ {m}
      /\ \A z \in Reached(Link, Deleg) \ {m} : Reached(Link', z) = Reached(Link, z) \ {m}
      /\ Acyclic(Link', Deleg)
  BY <1>1, <1>2, <1>6, <1>7, Bypassed
<1> QED BY <1>2, <1>8 DEF InList, m

\* A removal from the head leaves what follows the delegate.
LEMMA UnlinkHeadList ==
  ASSUME Inv, NEW t \in Threads, UnlinkHead(t)
  PROVE  /\ mp[t] \in Delegates /\ mp[t] \in InList /\ Deleg' = Link[mp[t]]
         /\ InList' = Reached(Link, Link[mp[t]])
         /\ mp[t] \notin InList' /\ InList' \subseteq InList
         /\ Acyclic(Link, Deleg)'
         /\ \A z \in InList' \cup {NULL} : Reached(Link', z) = Reached(Link, z)
<1> DEFINE m == mp[t]
<1>1. Links(Link, Delegates) /\ Deleg \in Delegates \cup {NULL} /\ Acyclic(Link, Deleg)
  BY ListLinks DEF Inv, ListInv
<1>2. m \in Delegates /\ m \in Reached(Link, Deleg)
  BY DEF Inv, IInv, Claimed, Detaching, UnlinkHead, ListInv, HeadLost, InList
<1>3. /\ Links(Link', Delegates) /\ Deleg' = Link[m]
      /\ \A y \in Delegates : y # m => Link'[y] = Link[y]
  BY <1>1 DEF UnlinkHead, Links
<1> HIDE DEF m
<1>4. /\ m \notin Reached(Link, Link[m])
      /\ Reached(Link, Link[m]) \subseteq Reached(Link, Deleg)
      /\ \A z \in Reached(Link, Link[m]) \cup {Link[m], NULL} : Reached(Link', z) = Reached(Link, z)
      /\ Acyclic(Link', Link[m])
  BY <1>1, <1>2, <1>3, Popped
<1>5. InList' = Reached(Link, Link[m])
  BY <1>3, <1>4 DEF InList
<1> QED BY <1>2, <1>3, <1>4, <1>5 DEF InList, m

\* Nothing comes to refer to a delegate before it is registered: links, iterators
\* and threads get only what something else referred to.
LEMMA AttachFreshKept ==
  ASSUME IInv, TypeOK, AttachFresh, [Step]_vars PROVE AttachFresh'
<1>0. /\ Shapes /\ NULL \notin Delegates /\ Delegates \cap Notifiers = {}
      /\ Delegates \subseteq Threads /\ Notifiers \subseteq Threads
  BY RolesAssumption DEF IInv, Threads
<1>1. ASSUME NEW e \in Delegates, Attach(e) PROVE AttachFresh'
  <2>1. \A d \in Delegates : at'[d] = "attach" => Fresh(d)
    BY <1>0, <1>1 DEF Attach, Goto, Shapes, AttachFresh
  <2>2. \A d \in Delegates : Fresh(d) => Fresh(d)'
    BY <1>1 DEF Attach, Fresh, iters
  <2> QED BY <2>1, <2>2 DEF AttachFresh
<1>2. ASSUME NEW e \in Delegates, Register(e) PROVE AttachFresh'
  <2>1. ASSUME NEW d \in Delegates, at'[d] = "attach" PROVE Fresh(d)'
    <3>1. d # e /\ Fresh(d)
      BY <1>0, <1>2, <2>1 DEF Register, Goto, Shapes, AttachFresh
    <3>2. Link' = [Link EXCEPT ![e] = Deleg] /\ Deleg' = e /\ Next' = Next /\ mp' = mp
      BY <1>2 DEF Register, iters
    <3> QED BY <3>1, <3>2 DEF Fresh, TypeOK
  <2> QED BY <2>1 DEF AttachFresh
<1>3. ASSUME NEW t \in Threads, NEW e \in Delegates, Detach(t, e) PROVE AttachFresh'
  <2>1. ASSUME NEW d \in Delegates, at'[d] = "attach" PROVE Fresh(d)'
    <3>0. After(t) # "attach"
      BY DEF After
    <3>1. Fresh(d)
      BY <1>0, <1>3, <2>1, <3>0 DEF Detach, Goto, Shapes, AttachFresh
    <3>2. Link' = Link /\ Deleg' = Deleg /\ Next' = Next
      BY <1>3 DEF Detach, iters
    <3>3. mp' = [mp EXCEPT ![t] = IF Ev[e] THEN e ELSE NULL] /\ (t \in Notifiers => mp[t] = e)
      BY <1>0, <1>3 DEF Detach, Look
    <3>4. \A n \in Notifiers : mp'[n] # d
      BY <1>0, <3>1, <3>3 DEF Fresh, Shapes
    <3> QED BY <3>1, <3>2, <3>4 DEF Fresh
  <2> QED BY <2>1 DEF AttachFresh
<1>4. ASSUME NEW t \in Threads, Remove(t) PROVE AttachFresh'
  <2>0. mp[t] \in Delegates
    <3>1. Detaching(t)
      BY <1>4 DEF Remove, MoveIterators, FindHead, Unlink, UnlinkHead, NotFound, Detaching
    <3> QED BY <3>1 DEF IInv, Claimed
  <2>1. ASSUME NEW d \in Delegates, at'[d] = "attach" PROVE Fresh(d)'
    <3>0. After(t) # "attach"
      BY DEF After
    <3>1. PICK l : l # "attach" /\ Goto(t, l)
      BY <1>4, <3>0 DEF Remove, MoveIterators, FindHead, Unlink, UnlinkHead, NotFound, Detached
    <3>2. Fresh(d)
      BY <1>0, <2>1, <3>1 DEF Goto, Shapes, AttachFresh
    <3>3. mp' = mp \/ mp' = [mp EXCEPT ![t] = NULL]
      BY <1>4 DEF Remove, MoveIterators, FindHead, Unlink, UnlinkHead, NotFound, Detached, Look
    <3>4. \A n \in Notifiers : mp'[n] # d
      BY <1>0, <3>2, <3>3 DEF Fresh, Shapes
    <3>5. \A n \in Notifiers : Next'[n] # d
      <4>1. CASE MoveIterators(t)
        BY <2>0, <3>2, <4>1 DEF MoveIterators, Fresh
      <4>2. CASE FindHead(t) \/ Unlink(t) \/ UnlinkHead(t) \/ NotFound(t)
        BY <3>2, <4>2 DEF FindHead, Unlink, UnlinkHead, NotFound, Fresh, iters
      <4> QED BY <1>4, <4>1, <4>2 DEF Remove
    <3>6. Deleg' # d /\ \A x \in Delegates : Link'[x] # d
      <4>1. CASE MoveIterators(t) \/ FindHead(t) \/ NotFound(t)
        BY <3>2, <4>1 DEF MoveIterators, FindHead, NotFound, Fresh, list
      <4>2. CASE Unlink(t)
        BY <1>0, <2>0, <3>2, <4>2 DEF Unlink, Fresh, TypeOK
      <4>3. CASE UnlinkHead(t)
        BY <1>0, <2>0, <3>2, <4>3 DEF UnlinkHead, Fresh, TypeOK
      <4> QED BY <1>4, <4>1, <4>2, <4>3 DEF Remove
    <3> QED BY <3>4, <3>5, <3>6 DEF Fresh
  <2> QED BY <2>1 DEF AttachFresh
<1>5. ASSUME NEW n \in Notifiers, Raise(n) PROVE AttachFresh'
  <2>1. ASSUME NEW d \in Delegates, at'[d] = "attach" PROVE Fresh(d)'
    <3>1. at'[d] = at[d]
      <4>1. PICK l : Goto(n, l)
        BY <1>5 DEF Raise, RegisterIterator, ReadDeleg, SetNext, Fetch, Call, Return, LeaveHead,
           WriteIter, Leave, Left
      <4> QED BY <1>0, <4>1 DEF Goto, Shapes
    <3>2. Fresh(d)
      BY <2>1, <3>1 DEF AttachFresh
    <3>3. Link' = Link /\ Deleg' = Deleg
      BY <1>5 DEF Raise, RegisterIterator, ReadDeleg, SetNext, Fetch, Call, Return, LeaveHead,
         WriteIter, Leave, Left, list
    <3>4. \A k \in Notifiers : Next'[k] # d /\ mp'[k] # d
      <4>1. CASE RegisterIterator(n)
        BY <1>0, <3>2, <4>1 DEF RegisterIterator, Fresh, TypeOK
      <4>2. CASE ReadDeleg(n)
        BY <1>0, <3>2, <4>2 DEF ReadDeleg, Look, Fresh, TypeOK, iters
      <4>3. CASE SetNext(n)
        BY <1>0, <3>2, <4>3 DEF SetNext, Look, Fresh, TypeOK
      <4>4. CASE Fetch(n)
        <5>1. CASE Next' = [Next EXCEPT ![n] = NULL] /\ mp' = mp
          BY <1>0, <3>2, <5>1 DEF Fresh, TypeOK
        <5>2. CASE \E first \in Delegates : first \in Reached(Link, Next[n])
                                            /\ Next' = [Next EXCEPT ![n] = Link[first]] /\ Look(n, first)
          <6>1. PICK first \in Delegates : first \in Reached(Link, Next[n])
                                           /\ Next' = [Next EXCEPT ![n] = Link[first]] /\ Look(n, first)
            BY <5>2
          <6>2. first # d
            <7>1. Next[n] \in Delegates \cup {NULL} /\ Next[n] # d
              BY <3>2 DEF TypeOK, Fresh
            <7>2. d \notin Reached(Link, Next[n])
              BY <3>2, <7>1, FreshOutside
            <7> QED BY <6>1, <7>2
          <6> QED BY <1>0, <3>2, <6>1, <6>2 DEF Fresh, TypeOK, Look
        <5> QED BY <4>4, <5>1, <5>2 DEF Fetch
      <4>5. CASE Call(n) \/ Return(n)
        BY <1>0, <3>2, <4>5 DEF Call, Return, Look, Fresh, TypeOK, iters
      <4>6. CASE LeaveHead(n) \/ WriteIter(n) \/ Leave(n)
        BY <3>2, <4>6 DEF LeaveHead, WriteIter, Leave, Left, Fresh, iters
      <4> QED BY <1>5, <4>1, <4>2, <4>3, <4>4, <4>5, <4>6 DEF Raise
    <3> QED BY <3>2, <3>3, <3>4 DEF Fresh
  <2> QED BY <2>1 DEF AttachFresh
<1>6. CASE UNCHANGED vars
  BY <1>6 DEF vars, list, iters, AttachFresh, Fresh
<1> QED BY <1>1, <1>2, <1>3, <1>4, <1>5, <1>6 DEF Step

\* Nobody else can detach it meanwhile.
LEMMA AttachSetKept ==
  ASSUME IInv, TypeOK, AttachFresh, AttachSet, [Step]_vars PROVE AttachSet'
<1>0. /\ Shapes /\ NULL \notin Delegates /\ Delegates \cap Notifiers = {}
      /\ Delegates \subseteq Threads /\ Notifiers \subseteq Threads
  BY RolesAssumption DEF IInv, Threads
<1>1. ASSUME NEW e \in Delegates, Attach(e) PROVE AttachSet'
  BY <1>0, <1>1 DEF Attach, Goto, Shapes, AttachSet
<1>2. ASSUME NEW e \in Delegates, Register(e) PROVE AttachSet'
  BY <1>0, <1>2 DEF Register, Goto, Shapes, AttachSet
<1>3. ASSUME NEW t \in Threads, NEW e \in Delegates, Detach(t, e) PROVE AttachSet'
  <2>1. ASSUME NEW d \in Delegates, at'[d] = "attach" PROVE Ev'[d]
    <3>1. After(t) # "attach"
      BY DEF After
    <3>2. at[d] = "attach"
      BY <1>0, <1>3, <2>1, <3>1 DEF Detach, Goto, Shapes
    <3>3. Ev[d] /\ Fresh(d)
      BY <3>2 DEF AttachSet, AttachFresh
    <3>4. e # d
      BY <1>3, <3>2, <3>3 DEF Detach, Fresh
    <3> QED BY <1>0, <1>3, <3>3, <3>4 DEF Detach, Shapes
  <2> QED BY <2>1 DEF AttachSet
<1>4. ASSUME NEW t \in Threads, Remove(t) PROVE AttachSet'
  <2>1. After(t) # "attach"
    BY DEF After
  <2>2. PICK l : l # "attach" /\ Goto(t, l)
    BY <1>4, <2>1 DEF Remove, MoveIterators, FindHead, Unlink, UnlinkHead, NotFound, Detached
  <2>3. Ev' = Ev
    BY <1>4 DEF Remove, MoveIterators, FindHead, Unlink, UnlinkHead, NotFound, list
  <2> QED BY <1>0, <2>2, <2>3 DEF Goto, Shapes, AttachSet
<1>5. ASSUME NEW n \in Notifiers, Raise(n) PROVE AttachSet'
  <2>1. PICK l : Goto(n, l)
    BY <1>5 DEF Raise, RegisterIterator, ReadDeleg, SetNext, Fetch, Call, Return, LeaveHead,
       WriteIter, Leave, Left
  <2>2. Ev' = Ev
    BY <1>5 DEF Raise, RegisterIterator, ReadDeleg, SetNext, Fetch, Call, Return, LeaveHead,
       WriteIter, Leave, Left, list
  <2> QED BY <1>0, <2>1, <2>2 DEF Goto, Shapes, AttachSet
<1>6. CASE UNCHANGED vars
  BY <1>6 DEF vars, list, AttachSet
<1> QED BY <1>1, <1>2, <1>3, <1>4, <1>5, <1>6 DEF Step

\* A step that leaves the list alone keeps its invariant, unless it registers a
\* delegate, or gives up one that is still in the list.
LEMMA ListKept ==
  ASSUME Inv, UNCHANGED <<Deleg, Link, lost>>,
         \A d \in Delegates : at'[d] = "live" /\ Ev'[d] => at[d] = "live" /\ Ev[d],
         \A d \in Delegates : Ev[d] => Ev'[d] \/ \E t \in Threads : Detaching(t)' /\ mp'[t] = d,
         \A t \in Threads : Detaching(t) => mp[t] \notin InList \/ (Detaching(t)' /\ mp'[t] = mp[t]),
         \A t \in Threads : at'[t] = "unlinkhead" => at[t] = "unlinkhead" /\ mp'[t] = mp[t],
         AttachFresh' /\ AttachSet'
  PROVE  ListInv'
<1>1. InList' = InList
  BY DEF InList
<1>2. RegisteredIn'
  BY <1>1 DEF Inv, ListInv, RegisteredIn
<1>3. InRegistered'
  <2>1. InList \subseteq Delegates
    BY ListLinks, ReachedClosed DEF Inv, InList
  <2>2. ASSUME NEW d \in InList PROVE Ev'[d] \/ \E t \in Threads : Detaching(t)' /\ mp'[t] = d
    <3>1. CASE Ev[d]
      BY <2>1, <3>1
    <3>2. CASE ~ Ev[d]
      <4>1. PICK t \in Threads : Detaching(t) /\ mp[t] = d
        BY <3>2 DEF Inv, ListInv, InRegistered
      <4> QED BY <4>1
    <3> QED BY <3>1, <3>2
  <2> QED BY <1>1, <2>2 DEF InRegistered
<1>4. Acyclic(Link, Deleg)'
  BY DEF Inv, ListInv
<1>5. HeadLost'
  <2>1. ASSUME NEW t \in Threads, at'[t] = "unlinkhead"
        PROVE  mp'[t] \in InList' /\ InList' \ lost' \subseteq Reached(Link', mp'[t])
    <3>1. mp[t] \in InList /\ InList \ lost \subseteq Reached(Link, mp[t]) /\ mp'[t] = mp[t]
      BY <2>1 DEF Inv, ListInv, HeadLost
    <3> QED BY <1>1, <3>1
  <2> QED BY <2>1 DEF HeadLost
<1> QED BY <1>2, <1>3, <1>4, <1>5 DEF ListInv

\* operator+=: the delegate is lost if a head is being removed.
LEMMA RegisterListInv ==
  ASSUME Inv, NEW d \in Delegates, Register(d), AttachFresh' /\ AttachSet' PROVE ListInv'
<1>0. Shapes /\ d \in Threads /\ InList \subseteq Delegates
  BY ListLinks, ReachedClosed DEF Inv, IInv, Threads, InList
<1>1. /\ Fresh(d) /\ InList' = {d} \cup InList /\ Acyclic(Link, Deleg)'
      /\ \A z \in (Delegates \cup {NULL}) \ {d} : Reached(Link', z) = Reached(Link, z)
  BY RegisterList
<1>2. /\ at[d] = "attach" /\ mp' = mp /\ Ev' = Ev
      /\ \A t \in Threads : at'[t] = IF t = d THEN "live" ELSE at[t]
  BY <1>0 DEF Register, Goto, Shapes
<1>3. lost' = IF \E t \in Threads : at[t] = "unlinkhead" THEN lost \cup {d} ELSE lost \ {d}
  BY DEF Register
<1>4. RegisteredIn'
  <2>1. ASSUME NEW e \in Delegates \ lost', at'[e] = "live", Ev'[e] PROVE e \in InList'
    <3>1. CASE e = d
      BY <1>1, <3>1
    <3>2. CASE e # d
      <4>1. e \notin lost /\ at[e] = "live" /\ Ev[e]
        BY <1>2, <1>3, <2>1, <3>2 DEF Threads
      <4> QED BY <1>1, <4>1 DEF Inv, ListInv, RegisteredIn
    <3> QED BY <3>1, <3>2
  <2> QED BY <2>1 DEF RegisteredIn
<1>5. \A t \in Threads : Detaching(t)' <=> Detaching(t)
  BY <1>2 DEF Detaching
<1>6. InRegistered'
  <2>1. Ev[d]
    BY <1>2 DEF Inv, ListInv, AttachSet
  <2> QED BY <1>1, <1>2, <1>5, <2>1 DEF Inv, ListInv, InRegistered
<1>7. HeadLost'
  <2>1. ASSUME NEW t \in Threads, at'[t] = "unlinkhead"
        PROVE  mp'[t] \in InList' /\ InList' \ lost' \subseteq Reached(Link', mp'[t])
    <3>1. /\ at[t] = "unlinkhead" /\ mp[t] \in InList
          /\ InList \ lost \subseteq Reached(Link, mp[t]) /\ mp'[t] = mp[t]
      BY <1>2, <2>1 DEF Inv, ListInv, HeadLost
    <3>2. d \in lost' /\ lost \subseteq lost'
      BY <1>3, <3>1
    <3>3. mp[t] # d
      <4>1. CASE t \in Notifiers
        BY <1>1, <4>1 DEF Fresh
      <4>2. CASE t \in Delegates
        BY <1>2, <3>1, <4>2 DEF Inv, IInv, OwnerAtOwn, Detaching
      <4> QED BY <4>1, <4>2 DEF Threads
    <3>4. Reached(Link', mp[t]) = Reached(Link, mp[t])
      BY <1>0, <1>1, <3>1, <3>3
    <3> QED BY <1>1, <3>1, <3>2, <3>4
  <2> QED BY <2>1 DEF HeadLost
<1> QED BY <1>1, <1>4, <1>6, <1>7 DEF ListInv

\* The removal of the head begins.
LEMMA FindHeadListInv ==
  ASSUME Inv, NEW t \in Threads, FindHead(t), AttachFresh' /\ AttachSet' PROVE ListInv'
<1>0. Shapes /\ mp[t] \in Delegates /\ Links(Link, Delegates)
  BY ListLinks DEF Inv, IInv, Claimed, Detaching, FindHead
<1>1. /\ UNCHANGED <<Deleg, Link, Ev, lost, mp>> /\ Deleg = mp[t] /\ at[t] = "find"
      /\ \A u \in Threads : at'[u] = IF u = t THEN "unlinkhead" ELSE at[u]
  BY <1>0 DEF FindHead, Goto, Shapes, list, history
<1>2. InList' = InList /\ InList = Reached(Link, mp[t])
  BY <1>1 DEF InList
<1>3. RegisteredIn'
  BY <1>1, <1>2 DEF Inv, ListInv, RegisteredIn, Threads
<1>4. InRegistered'
  <2>1. \A u \in Threads : Detaching(u)' <=> Detaching(u)
    BY <1>1 DEF Detaching
  <2> QED BY <1>1, <1>2, <2>1 DEF Inv, ListInv, InRegistered
<1>5. Acyclic(Link, Deleg)'
  BY <1>1 DEF Inv, ListInv
<1>6. HeadLost'
  <2>1. mp[t] \in InList
    BY <1>0, <1>2, ReachedRest
  <2>2. ASSUME NEW u \in Threads, at'[u] = "unlinkhead"
        PROVE  mp'[u] \in InList' /\ InList' \ lost' \subseteq Reached(Link', mp'[u])
    <3>1. CASE u = t
      BY <1>1, <1>2, <2>1, <3>1
    <3>2. CASE u # t
      <4>1. at[u] = "unlinkhead"
        BY <1>1, <2>2, <3>2
      <4>2. mp[u] \in InList /\ InList \ lost \subseteq Reached(Link, mp[u])
        BY <4>1 DEF Inv, ListInv, HeadLost
      <4> QED BY <1>1, <1>2, <4>2
    <3> QED BY <3>1, <3>2
  <2> QED BY <2>2 DEF HeadLost
<1> QED BY <1>3, <1>4, <1>5, <1>6 DEF ListInv

\* The removal of a delegate: who is not lost stays in the list.
LEMMA UnlinkListInv ==
  ASSUME Inv, NEW t \in Threads, Unlink(t) \/ UnlinkHead(t), AttachFresh' /\ AttachSet' PROVE ListInv'
<1> DEFINE m == mp[t]
<1>0. Shapes /\ InList \subseteq Delegates /\ m \in Delegates /\ ~ Ev[m] /\ Detaching(t)
  BY ListLinks, ReachedClosed DEF Inv, IInv, Claimed, Detaching, Unlink, UnlinkHead, InList
<1>1. PICK l \in {"idle", "fetch"} :
        /\ \A u \in Threads : at'[u] = IF u = t THEN l ELSE at[u]
        /\ \A u \in Threads : mp'[u] = IF u = t THEN NULL ELSE mp[u]
        /\ UNCHANGED <<Ev, lost>>
  <2>1. After(t) \in {"idle", "fetch"}
    BY DEF After
  <2> QED BY <1>0, <2>1 DEF Unlink, UnlinkHead, Detached, Goto, Look, Shapes, history
<1>2. Acyclic(Link, Deleg)' /\ InList' \subseteq InList \ {m}
  BY UnlinkList, UnlinkHeadList
<1>3. \A y \in InList \ {m} : y \in lost \/ y \in InList'
  <2>1. CASE Unlink(t)
    BY <2>1, UnlinkList
  <2>2. CASE UnlinkHead(t)
    <3>1. InList' = Reached(Link, Link[m])
      BY <2>2, UnlinkHeadList
    <3>2. InList \ lost \subseteq Reached(Link, m)
      BY <2>2 DEF UnlinkHead, Inv, ListInv, HeadLost
    <3>3. Reached(Link, m) = {m} \cup Reached(Link, Link[m])
      BY <1>0, ListLinks, ReachedRest DEF Inv
    <3> QED BY <3>1, <3>2, <3>3
  <2> QED BY <2>1, <2>2
<1> HIDE DEF m
<1>4. RegisteredIn'
  <2>1. ASSUME NEW d \in Delegates \ lost', at'[d] = "live", Ev'[d] PROVE d \in InList'
    <3>1. d \notin lost /\ at[d] = "live" /\ Ev[d]
      BY <1>1, <2>1 DEF Threads
    <3>2. d \in InList /\ d # m
      BY <1>0, <3>1 DEF Inv, ListInv, RegisteredIn
    <3> QED BY <1>3, <3>1, <3>2
  <2> QED BY <2>1 DEF RegisteredIn
<1>5. InRegistered'
  <2>1. ASSUME NEW d \in InList', ~ Ev'[d] PROVE \E u \in Threads : Detaching(u)' /\ mp'[u] = d
    <3>1. d \in InList /\ d # m /\ ~ Ev[d]
      BY <1>1, <1>2, <2>1
    <3>2. PICK u \in Threads : Detaching(u) /\ mp[u] = d
      BY <3>1 DEF Inv, ListInv, InRegistered
    <3>3. u # t
      BY <3>1, <3>2 DEF m
    <3> QED BY <1>1, <3>2, <3>3 DEF Detaching
  <2> QED BY <2>1 DEF InRegistered
<1>6. HeadLost'
  <2>1. \A u \in Threads : at'[u] # "unlinkhead"
    <3>1. \A u \in Threads : at[u] \in {"find", "unlinkhead"} => Mtx = u
      BY DEF Inv, TypeOK
    <3>2. at[t] \in {"find", "unlinkhead"}
      BY DEF Unlink, UnlinkHead
    <3> QED BY <1>1, <3>1, <3>2
  <2> QED BY <2>1 DEF HeadLost
<1> QED BY <1>2, <1>4, <1>5, <1>6 DEF ListInv

\* The exchange of Ev: who resets it will remove the delegate.
LEMMA DetachListInv ==
  ASSUME Inv, NEW t \in Threads, NEW e \in Delegates, Detach(t, e), AttachFresh' /\ AttachSet'
  PROVE  ListInv'
<1>0. Shapes
  BY DEF Inv, IInv
<1>1. /\ UNCHANGED <<Deleg, Link, lost>>
      /\ \A u \in Threads : at'[u] = IF u = t THEN IF Ev[e] THEN "lock" ELSE After(t) ELSE at[u]
      /\ \A u \in Threads : mp'[u] = IF u = t THEN IF Ev[e] THEN e ELSE NULL ELSE mp[u]
      /\ \A d \in Delegates : Ev'[d] = IF d = e THEN FALSE ELSE Ev[d]
      /\ ~ Detaching(t)
  BY <1>0 DEF Detach, Goto, Look, Shapes, Detaching
<1>2. After(t) \in {"idle", "fetch"}
  BY DEF After
<1>3. \A d \in Delegates : at'[d] = "live" /\ Ev'[d] => at[d] = "live" /\ Ev[d]
  BY <1>1, <1>2 DEF Threads
<1>4. \A d \in Delegates : Ev[d] => Ev'[d] \/ \E u \in Threads : Detaching(u)' /\ mp'[u] = d
  <2>1. Ev[e] => Detaching(t)' /\ mp'[t] = e
    BY <1>1 DEF Detaching
  <2> QED BY <1>1, <2>1
<1>5. \A u \in Threads : Detaching(u) => Detaching(u)' /\ mp'[u] = mp[u]
  BY <1>1 DEF Detaching
<1>6. \A u \in Threads : at'[u] = "unlinkhead" => at[u] = "unlinkhead" /\ mp'[u] = mp[u]
  BY <1>1, <1>2
<1> QED BY <1>1, <1>3, <1>4, <1>5, <1>6, ListKept

\* Every step.
LEMMA StepListInv == Inv /\ [Step]_vars => ListInv'
<1> SUFFICES ASSUME Inv, [Step]_vars PROVE ListInv'
  OBVIOUS
<1>0. Shapes
  BY DEF Inv, IInv
<1>a. AttachFresh' /\ AttachSet'
  BY AttachFreshKept, AttachSetKept DEF Inv, ListInv
<1>1. ASSUME NEW e \in Delegates, Attach(e) PROVE ListInv'
  <2>1. /\ UNCHANGED <<Deleg, Link, lost, mp>> /\ at[e] = "idle"
        /\ \A u \in Threads : at'[u] = IF u = e THEN "attach" ELSE at[u]
        /\ \A d \in Delegates : Ev'[d] = IF d = e THEN TRUE ELSE Ev[d]
    BY <1>0, <1>1 DEF Attach, Goto, Shapes, history
  <2>2. \A d \in Delegates : at'[d] = "live" /\ Ev'[d] => at[d] = "live" /\ Ev[d]
    BY <2>1 DEF Threads
  <2>3. \A d \in Delegates : Ev[d] => Ev'[d]
    BY <2>1
  <2>4. \A u \in Threads : Detaching(u) => Detaching(u)' /\ mp'[u] = mp[u]
    BY <2>1 DEF Detaching
  <2>5. \A u \in Threads : at'[u] = "unlinkhead" => at[u] = "unlinkhead" /\ mp'[u] = mp[u]
    BY <2>1
  <2> QED BY <1>a, <2>1, <2>2, <2>3, <2>4, <2>5, ListKept
<1>2. ASSUME NEW e \in Delegates, Register(e) PROVE ListInv'
  BY <1>a, <1>2, RegisterListInv
<1>3. ASSUME NEW t \in Threads, NEW e \in Delegates, Detach(t, e) PROVE ListInv'
  BY <1>a, <1>3, DetachListInv
<1>4. ASSUME NEW t \in Threads, Remove(t) PROVE ListInv'
  <2>1. CASE FindHead(t)
    BY <1>a, <2>1, FindHeadListInv
  <2>2. CASE Unlink(t) \/ UnlinkHead(t)
    BY <1>a, <2>2, UnlinkListInv
  <2>3. CASE MoveIterators(t) \/ NotFound(t)
    <3>1. PICK l \in {"find", "idle", "fetch"} :
            /\ UNCHANGED <<Deleg, Link, Ev, lost>>
            /\ \A u \in Threads : at'[u] = IF u = t THEN l ELSE at[u]
            /\ \A u \in Threads \ {t} : mp'[u] = mp[u]
            /\ (mp'[t] = mp[t] /\ l = "find") \/ mp[t] \notin InList
      <4>1. CASE MoveIterators(t)
        BY <1>0, <4>1 DEF MoveIterators, Goto, Shapes, list
      <4>2. CASE NotFound(t)
        <5>1. After(t) \in {"idle", "fetch"}
          BY DEF After
        <5> QED BY <1>0, <4>2, <5>1 DEF NotFound, Detached, Goto, Look, Shapes, list, history, InList
      <4> QED BY <2>3, <4>1, <4>2
    <3>2. \A d \in Delegates : at'[d] = "live" /\ Ev'[d] => at[d] = "live" /\ Ev[d]
      BY <3>1 DEF Threads
    <3>3. \A u \in Threads : Detaching(u) => mp[u] \notin InList \/ (Detaching(u)' /\ mp'[u] = mp[u])
      BY <3>1 DEF Detaching
    <3>4. \A u \in Threads : at'[u] = "unlinkhead" => at[u] = "unlinkhead" /\ mp'[u] = mp[u]
      BY <3>1
    <3> QED BY <1>a, <3>1, <3>2, <3>3, <3>4, ListKept
  <2> QED BY <1>4, <2>1, <2>2, <2>3 DEF Remove
<1>5. ASSUME NEW n \in Notifiers, Raise(n) PROVE ListInv'
  <2>1. UNCHANGED <<Deleg, Link, Ev, lost>>
    BY <1>5 DEF Raise, RegisterIterator, ReadDeleg, SetNext, Fetch, Call, Return, LeaveHead,
       WriteIter, Leave, Left, list, history
  <2>2. PICK l : l \notin {"lock", "find", "unlinkhead"} /\ Goto(n, l)
                /\ at[n] \notin {"lock", "find", "unlinkhead"}
    <3>1. CASE RegisterIterator(n) \/ ReadDeleg(n) \/ SetNext(n) \/ Fetch(n)
      BY <3>1 DEF RegisterIterator, ReadDeleg, SetNext, Fetch
    <3>2. CASE Call(n) \/ Return(n) \/ LeaveHead(n) \/ WriteIter(n) \/ Leave(n)
      BY <3>2 DEF Call, Return, LeaveHead, WriteIter, Leave, Left
    <3> QED BY <1>5, <3>1, <3>2 DEF Raise
  <2>3. \A u \in Threads : at'[u] = IF u = n THEN l ELSE at[u]
    BY <1>0, <2>2 DEF Goto, Shapes
  <2>4. \A u \in Threads \ {n} : mp'[u] = mp[u]
    <3>1. mp' = mp \/ \E x : Look(n, x)
      BY <1>5 DEF Raise, RegisterIterator, ReadDeleg, SetNext, Fetch, Call, Return, LeaveHead,
         WriteIter, Leave, Left
    <3> QED BY <1>0, <3>1 DEF Look, Shapes
  <2>5. \A d \in Delegates : at'[d] = "live" /\ Ev'[d] => at[d] = "live" /\ Ev[d]
    BY <2>1, <2>3, RolesAssumption DEF Threads
  <2>6. \A u \in Threads : Detaching(u) => Detaching(u)' /\ mp'[u] = mp[u]
    BY <2>2, <2>3, <2>4 DEF Detaching
  <2>7. \A u \in Threads : at'[u] = "unlinkhead" => at[u] = "unlinkhead" /\ mp'[u] = mp[u]
    BY <2>2, <2>3, <2>4
  <2> QED BY <1>a, <2>1, <2>5, <2>6, <2>7, ListKept
<1>6. CASE UNCHANGED vars
  <2>1. UNCHANGED <<Deleg, Link, Ev, at, mp, lost>>
    BY <1>6 DEF vars, list, history
  <2>2. \A u \in Threads : Detaching(u)' <=> Detaching(u)
    BY <2>1 DEF Detaching
  <2> QED BY <1>a, <2>1, <2>2, ListKept
<1> QED BY <1>1, <1>2, <1>3, <1>4, <1>5, <1>6 DEF Step

(***************************************************************************)
(* The notifications.                                                      *)
(***************************************************************************)

\* n has read the head of the list.
Past(n) == at[n] \in {"fetch", "check", "call", "lock", "find", "unlinkhead"}

\* t is at the removal of a delegate.
Removing(t) == at[t] \in {"find", "unlinkhead"}

\* The delegate n is at, and those it will come to.
Ahead(n) == Reached(Link, Next[n]) \cup (IF at[n] = "check" THEN {mp[n]} ELSE {})

\* What n has to call is ahead of it.  It is at an element of the list, never at one
\* that is being removed, and never in front of the head when this is removed.
Covered(n) ==
  /\ at[n] = "read" => due[n] \subseteq InList
  /\ at[n] = "set" => mp[n] \in InList \cup {NULL} /\ due[n] \subseteq Reached(Link, mp[n])
  /\ at[n] \in {"read", "set"} => \A t \in Threads : ~ Removing(t)
  /\ Past(n) => /\ Next[n] \in InList \cup {NULL}
                /\ due[n] \subseteq Ahead(n)
                /\ \A t \in Threads : Removing(t) => Next[n] # mp[t]
                /\ \A t \in Threads :
                     at[t] = "unlinkhead" => Next[n] \in Reached(Link, mp[t]) \cup {NULL}
  /\ at[n] \in {"idle", "leave", "leavehead"} => due[n] = {}

\* What a notification has to call is not detached.
DueSet  == \A n \in Notifiers : \A d \in due[n] : Ev[d]
\* The invariant of the notifications that are not blind.
CallInv == DueSet /\ \A n \in Notifiers \ blind : Covered(n)

\* Initially nothing is due.
LEMMA InitCallInv == Init => CallInv
<1> SUFFICES ASSUME Init PROVE CallInv
  OBVIOUS
<1>1. \A n \in Notifiers : at[n] = "idle" /\ due[n] = {}
  BY DEF Init, Threads
<1> QED BY <1>1 DEF CallInv, DueSet, Covered, Past

\* A delegate that is detached is not due any more.
LEMMA DueKept ==
  ASSUME Inv, CallInv, [Step]_vars PROVE DueSet'
<1>1. ASSUME NEW d \in Delegates, Attach(d) PROVE DueSet'
  BY <1>1 DEF Attach, history, Inv, TypeOK, CallInv, DueSet
<1>2. ASSUME NEW t \in Threads, NEW d \in Delegates, Detach(t, d) PROVE DueSet'
  BY <1>2 DEF Detach, Inv, TypeOK, CallInv, DueSet
<1>3. ASSUME UNCHANGED <<Ev, due>> PROVE DueSet'
  BY <1>3 DEF CallInv, DueSet
<1>4. ASSUME NEW d \in Delegates, Register(d) PROVE DueSet'
  BY <1>3, <1>4 DEF Register
<1>5. ASSUME NEW t \in Threads, Remove(t) PROVE DueSet'
  BY <1>3, <1>5 DEF Remove, MoveIterators, FindHead, Unlink, UnlinkHead, NotFound, list, history
<1>6. ASSUME NEW n \in Notifiers, Raise(n) PROVE DueSet'
  <2>1. CASE ReadDeleg(n) \/ SetNext(n) \/ Fetch(n) \/ Return(n) \/ LeaveHead(n)
    BY <1>3, <2>1 DEF ReadDeleg, SetNext, Fetch, Return, LeaveHead, list, history
  <2>2. CASE RegisterIterator(n)
    BY <2>2 DEF RegisterIterator, Inv, TypeOK, CallInv, DueSet, list
  <2>3. CASE Call(n)
    BY <2>3 DEF Call, Inv, TypeOK, CallInv, DueSet, list
  <2>4. CASE WriteIter(n) \/ Leave(n)
    BY <2>4 DEF WriteIter, Leave, Left, Inv, TypeOK, CallInv, DueSet, list
  <2> QED BY <1>6, <2>1, <2>2, <2>3, <2>4 DEF Raise
<1>7. CASE UNCHANGED vars
  BY <1>3, <1>7 DEF vars, list, history
<1> QED BY <1>1, <1>2, <1>4, <1>5, <1>6, <1>7 DEF Step

\* A notification that takes no part in a step that leaves the list as it is.
LEMMA CoveredKept ==
  ASSUME NEW n \in Notifiers, Covered(n), UNCHANGED <<Deleg, Link>>,
         at'[n] = at[n], Next'[n] = Next[n], mp'[n] = mp[n], due'[n] \subseteq due[n],
         \A t \in Threads : Removing(t)' => Removing(t) /\ mp'[t] = mp[t],
         \A t \in Threads : at'[t] = "unlinkhead" => at[t] = "unlinkhead" /\ mp'[t] = mp[t]
  PROVE  Covered(n)'
<1>1. InList' = InList /\ (Past(n)' <=> Past(n)) /\ Ahead(n)' = Ahead(n)
  BY DEF InList, Past, Ahead
<1>2. \A t \in Threads : at'[t] = "unlinkhead" => Reached(Link', mp'[t]) = Reached(Link, mp[t])
  OBVIOUS
<1> QED BY <1>1, <1>2 DEF Covered

\* A delegate that registers is in front of all notifications.
LEMMA RegisterCovered ==
  ASSUME Inv, NEW d \in Delegates, Register(d), NEW n \in Notifiers, Covered(n)
  PROVE  Covered(n)'
<1>0. Shapes /\ d \in Threads /\ InList \subseteq Delegates /\ Deleg \in Delegates \cup {NULL}
  BY ListLinks, ReachedClosed DEF Inv, IInv, Threads, InList
<1>1. /\ Fresh(d) /\ InList' = {d} \cup InList
      /\ \A z \in (Delegates \cup {NULL}) \ {d} : Reached(Link', z) = Reached(Link, z)
  BY RegisterList
<1>2. /\ at[d] = "attach" /\ mp' = mp /\ Next' = Next /\ due' = due
      /\ \A t \in Threads : at'[t] = IF t = d THEN "live" ELSE at[t]
  BY <1>0 DEF Register, Goto, Shapes, iters
<1>3. n # d /\ at'[n] = at[n] /\ Next[n] # d /\ mp[n] # d /\ Next[n] \in Delegates \cup {NULL}
      /\ mp[n] \in Delegates \cup {NULL}
  BY <1>1, <1>2, RolesAssumption DEF Fresh, Inv, TypeOK, Threads
<1>4. Reached(Link', Next[n]) = Reached(Link, Next[n]) /\ Reached(Link', mp[n]) = Reached(Link, mp[n])
  BY <1>1, <1>3
<1>5. Ahead(n)' = Ahead(n) /\ (Past(n)' <=> Past(n))
  BY <1>2, <1>3, <1>4 DEF Ahead, Past
<1>6. \A t \in Threads : Removing(t)' <=> Removing(t)
  BY <1>2 DEF Removing
<1>7. \A t \in Threads :
        at'[t] = "unlinkhead" => at[t] = "unlinkhead" /\ Reached(Link', mp'[t]) = Reached(Link, mp[t])
  <2>1. TAKE t \in Threads
  <2>2. HAVE at'[t] = "unlinkhead"
  <2>3. at[t] = "unlinkhead" /\ t # d
    BY <1>2, <2>2
  <2>4. mp[t] \in Delegates /\ mp[t] # d
    <3>1. CASE t \in Notifiers
      BY <1>1, <2>3, <3>1 DEF Fresh, Inv, IInv, Claimed, Detaching
    <3>2. CASE t \in Delegates
      BY <2>3, <3>2 DEF Inv, IInv, OwnerAtOwn, Detaching
    <3> QED BY <3>1, <3>2 DEF Threads
  <2> QED BY <1>1, <1>2, <2>3, <2>4
<1> QED BY <1>1, <1>2, <1>3, <1>4, <1>5, <1>6, <1>7 DEF Covered

\* What t removes is nothing n has to call.
LEMMA RemovedNotDue ==
  ASSUME Inv, CallInv, NEW t \in Threads, Detaching(t), NEW n \in Notifiers
  PROVE  mp[t] \in Delegates /\ mp[t] \notin due[n]
  BY DEF Inv, IInv, Claimed, CallInv, DueSet

\* Iterators at the delegate to be removed are moved behind it: it is not due.
LEMMA MoveIteratorsCovered ==
  ASSUME Inv, CallInv, NEW t \in Threads, MoveIterators(t), NEW n \in Notifiers \ blind'
  PROVE  Covered(n)'
<1> DEFINE m == mp[t]
<1>0. Shapes /\ Links(Link, Delegates) /\ Deleg \in Delegates \cup {NULL}
      /\ Acyclic(Link, Deleg) /\ n \in Threads
  BY ListLinks DEF Inv, IInv, ListInv, Threads
<1>1. Detaching(t) /\ m \in Delegates /\ m \notin due[n]
  <2>1. Detaching(t)
    BY DEF MoveIterators, Detaching
  <2> QED BY <2>1, RemovedNotDue
<1>2. /\ at[t] = "lock" /\ Mtx = NULL /\ UNCHANGED <<Deleg, Link, due, mp>>
      /\ \A u \in Threads : at'[u] = IF u = t THEN "find" ELSE at[u]
  BY <1>0 DEF MoveIterators, Goto, Shapes, list
<1>3. n \notin blind /\ Covered(n)
  BY DEF MoveIterators, CallInv
<1>4. at[n] # "idle" => at[n] \notin {"read", "set"} /\ n \in Reached(IterLink, Iter)
  BY DEF MoveIterators, Running
<1>5. \A u \in Threads : ~ Removing(u)
  BY <1>2, RolesAssumption DEF Inv, TypeOK, Removing
<1>6. /\ Next'[n] = IF n \in Reached(IterLink, Iter) /\ Next[n] = m THEN Link[m] ELSE Next[n]
  BY DEF MoveIterators
<1>7. InList' = InList /\ Closed(Link, InList) /\ InList \subseteq Delegates
  BY <1>0, <1>2, ReachedClosed DEF InList
<1> HIDE DEF m
<1>8. ASSUME Past(n)' 
      PROVE  /\ Next'[n] \in InList' \cup {NULL}
             /\ due'[n] \subseteq Ahead(n)'
             /\ Next'[n] # m
  <2>1. Past(n)
    BY <1>0, <1>2, <1>8 DEF Past
  <2>2. Next[n] \in InList \cup {NULL} /\ due[n] \subseteq Ahead(n) /\ n \in Reached(IterLink, Iter)
    BY <1>3, <1>4, <2>1 DEF Covered, Past
  <2>3. CASE Next[n] # m
    <3>1. Next'[n] = Next[n]
      BY <1>6, <2>3
    <3>2. Ahead(n)' = Ahead(n)
      BY <1>0, <1>2, <3>1 DEF Ahead
    <3> QED BY <1>2, <1>7, <2>2, <2>3, <3>1, <3>2
  <2>4. CASE Next[n] = m
    <3>1. Next'[n] = Link[m] /\ m \in InList
      BY <1>0, <1>1, <1>6, <2>2, <2>4 DEF Links
    <3>2. Link[m] \in InList \cup {NULL}
      BY <1>7, <3>1 DEF Closed
    <3>3. Reached(Link, m) = {m} \cup Reached(Link, Link[m])
      BY <1>0, <1>1, ReachedRest
    <3>4. Link[m] # m
      <4>1. m \notin Reached(Link, Link[m])
        BY <1>0, <3>1 DEF Acyclic, InList
      <4> QED BY <3>3, <4>1
    <3>5. Ahead(n) \subseteq {m} \cup Ahead(n)'
      BY <1>0, <1>2, <2>4, <3>1, <3>3 DEF Ahead
    <3> QED BY <1>1, <1>2, <1>7, <2>2, <3>1, <3>2, <3>4, <3>5
  <2> QED BY <2>3, <2>4
<1>9. \A u \in Threads : Removing(u)' => mp'[u] = m
  BY <1>2, <1>5 DEF Removing, m
<1>10. \A u \in Threads : at'[u] # "unlinkhead"
  BY <1>2, <1>5 DEF Removing
<1>11. at'[n] \notin {"read", "set"} /\ (at'[n] \in {"idle", "leave", "leavehead"} => due'[n] = {})
  BY <1>0, <1>2, <1>3, <1>4 DEF Covered
<1> QED BY <1>8, <1>9, <1>10, <1>11 DEF Covered

\* Who is at the list is behind the head when its removal begins.
LEMMA FindHeadCovered ==
  ASSUME Inv, CallInv, NEW t \in Threads, FindHead(t), NEW n \in Notifiers \ blind'
  PROVE  Covered(n)'
<1>0. Shapes /\ n \in Threads
  BY DEF Inv, IInv, Threads
<1>1. /\ UNCHANGED <<Deleg, Link, Next, due, mp, blind>> /\ Deleg = mp[t] /\ at[t] = "find"
      /\ \A u \in Threads : at'[u] = IF u = t THEN "unlinkhead" ELSE at[u]
  BY <1>0 DEF FindHead, Goto, Shapes, list, iters, history
<1>2. InList' = InList /\ InList = Reached(Link, mp[t])
  BY <1>1 DEF InList
<1>3. Covered(n)
  BY <1>1 DEF CallInv
<1>4. \A u \in Threads : Removing(u)' <=> Removing(u)
  BY <1>1 DEF Removing
<1>5. Removing(t)
  BY <1>1 DEF Removing
<1>6. at[n] \notin {"read", "set"} /\ at'[n] \notin {"read", "set"}
  BY <1>0, <1>1, <1>3, <1>5 DEF Covered
<1>7. (Past(n)' <=> Past(n)) /\ Ahead(n)' = Ahead(n)
  BY <1>0, <1>1 DEF Past, Ahead
<1>8. Past(n) => \A u \in Threads : at'[u] = "unlinkhead" => Next[n] \in Reached(Link, mp[u]) \cup {NULL}
  BY <1>1, <1>2, <1>3 DEF Covered
<1>9. at'[n] \in {"idle", "leave", "leavehead"} => due'[n] = {}
  BY <1>0, <1>1, <1>3 DEF Covered
<1> QED BY <1>1, <1>2, <1>3, <1>4, <1>6, <1>7, <1>8, <1>9 DEF Covered

\* The removal: nobody is at the delegate, and what is ahead stays ahead.
LEMMA UnlinkCovered ==
  ASSUME Inv, CallInv, NEW t \in Threads, Unlink(t) \/ UnlinkHead(t), NEW n \in Notifiers \ blind'
  PROVE  Covered(n)'
<1> DEFINE m == mp[t]
<1>0. Shapes /\ n \in Threads /\ Links(Link, Delegates)
  BY ListLinks DEF Inv, IInv, Threads
<1>1. Removing(t) /\ m \in Delegates /\ m \notin due[n]
  <2>1. Removing(t) /\ Detaching(t)
    BY DEF Unlink, UnlinkHead, Detaching, Removing
  <2> QED BY <2>1, RemovedNotDue
<1>2. PICK l \in {"idle", "fetch"} :
        /\ \A u \in Threads : at'[u] = IF u = t THEN l ELSE at[u]
        /\ \A u \in Threads : mp'[u] = IF u = t THEN NULL ELSE mp[u]
        /\ UNCHANGED <<Next, due, blind>>
        /\ t \in Notifiers => l = "fetch"
  <2>1. After(t) \in {"idle", "fetch"} /\ (t \in Notifiers => After(t) = "fetch")
    BY RolesAssumption DEF After
  <2> QED BY <1>0, <2>1 DEF Unlink, UnlinkHead, Detached, Goto, Look, Shapes, history, iters
<1>3. Covered(n)
  BY <1>2 DEF CallInv
<1>4. \A u \in Threads : ~ Removing(u)'
  <2>1. \A u \in Threads : Removing(u) => Mtx = u
    BY DEF Inv, TypeOK, Removing
  <2> QED BY <1>1, <1>2, <2>1 DEF Removing
<1>5. at'[n] \notin {"read", "set"}
  BY <1>0, <1>1, <1>2, <1>3 DEF Covered
<1>6. at'[n] \in {"idle", "leave", "leavehead"} => due'[n] = {}
  BY <1>0, <1>2, <1>3 DEF Covered
<1>7. Past(n)' => Past(n)
  BY <1>0, <1>1, <1>2 DEF Past, Removing
<1>8. ASSUME Past(n)
      PROVE  Next[n] \in InList' \cup {NULL} /\ Reached(Link, Next[n]) \ {m} \subseteq Reached(Link', Next[n])
  <2>1. Next[n] \in InList \cup {NULL} /\ Next[n] # m
    BY <1>1, <1>3, <1>8 DEF Covered
  <2>2. CASE Next[n] = NULL
    BY <1>0, <2>2, ReachedNull
  <2>3. CASE Next[n] # NULL /\ Unlink(t)
    BY <2>1, <2>3, UnlinkList
  <2>4. CASE Next[n] # NULL /\ UnlinkHead(t)
    <3>1. Next[n] \in Reached(Link, m)
      BY <1>3, <1>8, <2>4 DEF Covered, UnlinkHead
    <3>2. Next[n] \in Reached(Link, Link[m])
      BY <1>0, <1>1, <2>1, <3>1, ReachedRest
    <3>3. /\ InList' = Reached(Link, Link[m])
          /\ \A z \in InList' \cup {NULL} : Reached(Link', z) = Reached(Link, z)
      BY <2>4, UnlinkHeadList
    <3> QED BY <3>2, <3>3
  <2> QED BY <2>2, <2>3, <2>4
<1>9. ASSUME Past(n) PROVE due'[n] \subseteq Ahead(n)'
  <2>1. due[n] \subseteq Ahead(n)
    BY <1>3, <1>9 DEF Covered
  <2>2. n # t => at'[n] = at[n] /\ mp'[n] = mp[n]
    BY <1>0, <1>2
  <2>3. n = t => at[n] # "check"
    BY <1>1 DEF Removing
  <2>4. Ahead(n) \ {m} \subseteq Ahead(n)'
    <3>1. Reached(Link, Next[n]) \ {m} \subseteq Reached(Link', Next'[n])
      BY <1>2, <1>8, <1>9
    <3> HIDE DEF m
    <3> QED BY <2>2, <2>3, <3>1 DEF Ahead
  <2> QED BY <1>1, <1>2, <2>1, <2>4
<1> HIDE DEF m
<1>10. \A u \in Threads : at'[u] # "unlinkhead"
  BY <1>4 DEF Removing
<1> QED BY <1>2, <1>4, <1>5, <1>6, <1>7, <1>8, <1>9, <1>10 DEF Covered

\* A notification disturbs no other one.
LEMMA OthersCovered ==
  ASSUME Inv, CallInv, NEW n \in Notifiers, Raise(n), NEW k \in Notifiers \ blind', k # n
  PROVE  Covered(k)'
<1>0. Shapes /\ n \in Threads /\ k \in Threads
  BY DEF Inv, IInv, Threads
<1>1. PICK l : l \notin {"lock", "find", "unlinkhead"} /\ Goto(n, l)
  <2>1. CASE RegisterIterator(n) \/ ReadDeleg(n) \/ SetNext(n) \/ Fetch(n)
    BY <2>1 DEF RegisterIterator, ReadDeleg, SetNext, Fetch
  <2>2. CASE Call(n) \/ Return(n) \/ LeaveHead(n) \/ WriteIter(n) \/ Leave(n)
    BY <2>2 DEF Call, Return, LeaveHead, WriteIter, Leave, Left
  <2> QED BY <2>1, <2>2 DEF Raise
<1>2. \A u \in Threads : at'[u] = IF u = n THEN l ELSE at[u]
  BY <1>0, <1>1 DEF Goto, Shapes
<1>3. \A u \in Threads \ {n} : mp'[u] = mp[u]
  <2>1. mp' = mp \/ \E x : Look(n, x)
    BY DEF Raise, RegisterIterator, ReadDeleg, SetNext, Fetch, Call, Return, LeaveHead,
       WriteIter, Leave, Left
  <2> QED BY <1>0, <2>1 DEF Look, Shapes
<1>4. UNCHANGED <<Deleg, Link>>
  BY DEF Raise, RegisterIterator, ReadDeleg, SetNext, Fetch, Call, Return, LeaveHead,
     WriteIter, Leave, Left, list
<1>5. Next'[k] = Next[k]
  <2>1. CASE RegisterIterator(n) \/ ReadDeleg(n) \/ SetNext(n)
    BY <2>1 DEF RegisterIterator, ReadDeleg, SetNext, iters, Inv, TypeOK
  <2>2. CASE Fetch(n)
    BY <2>2 DEF Fetch, Inv, TypeOK
  <2>3. CASE Call(n) \/ Return(n) \/ LeaveHead(n) \/ WriteIter(n) \/ Leave(n)
    BY <2>3 DEF Call, Return, LeaveHead, WriteIter, Leave, Left, iters
  <2> QED BY <2>1, <2>2, <2>3 DEF Raise
<1>6. due'[k] = due[k] /\ k \notin blind
  <2>1. CASE RegisterIterator(n) \/ ReadDeleg(n) \/ SetNext(n)
    BY <2>1 DEF RegisterIterator, ReadDeleg, SetNext, history, Inv, TypeOK
  <2>2. CASE Fetch(n) \/ Return(n) \/ LeaveHead(n)
    BY <2>2 DEF Fetch, Return, LeaveHead, history
  <2>3. CASE Call(n) \/ WriteIter(n) \/ Leave(n)
    BY <2>3 DEF Call, WriteIter, Leave, Left, Inv, TypeOK
  <2> QED BY <2>1, <2>2, <2>3 DEF Raise
<1>7. Covered(k)
  BY <1>6 DEF CallInv
<1>8. \A t \in Threads : Removing(t)' => Removing(t) /\ mp'[t] = mp[t]
  BY <1>1, <1>2, <1>3 DEF Removing
<1>9. \A t \in Threads : at'[t] = "unlinkhead" => at[t] = "unlinkhead" /\ mp'[t] = mp[t]
  BY <1>1, <1>2, <1>3
<1> QED BY <1>0, <1>2, <1>3, <1>4, <1>5, <1>6, <1>7, <1>8, <1>9, CoveredKept

\* The steps of a notification itself.
LEMMA RaiseCovered ==
  ASSUME Inv, CallInv, NEW n \in Notifiers, Raise(n), n \notin blind'
  PROVE  Covered(n)'
<1>0. Shapes /\ n \in Threads /\ Links(Link, Delegates) /\ Deleg \in Delegates \cup {NULL}
      /\ n # NULL /\ NULL \notin Delegates
  BY ListLinks, RolesAssumption DEF Inv, IInv, Threads
<1>1. Link' = Link /\ Deleg' = Deleg /\ InList' = InList
  BY DEF Raise, RegisterIterator, ReadDeleg, SetNext, Fetch, Call, Return, LeaveHead,
     WriteIter, Leave, Left, list, InList
<1>2. InList \subseteq Delegates /\ Deleg \in InList \cup {NULL} /\ Closed(Link, InList)
  BY <1>0, ReachedClosed DEF InList
<1>3. CASE RegisterIterator(n)
  <2>1. at'[n] = "read" /\ due'[n] = {d \in Delegates \ lost : at[d] = "live" /\ Ev[d]}
    BY <1>0, <1>3 DEF RegisterIterator, Goto, Shapes, Inv, TypeOK
  <2>2. due'[n] \subseteq InList
    BY <2>1 DEF Inv, ListInv, RegisteredIn
  <2>3. \A t \in Threads : ~ Removing(t)
    BY <1>3 DEF RegisterIterator, Removing
  <2>4. \A t \in Threads : ~ Removing(t)'
    BY <1>0, <1>3, <2>3 DEF RegisterIterator, Removing, Goto, Shapes
  <2> QED BY <1>1, <2>1, <2>2, <2>4 DEF Covered, Past
<1>4. CASE ~ RegisterIterator(n)
  <2>0. Covered(n) \/ at'[n] = "idle"
    <3>1. CASE WriteIter(n) \/ Leave(n)
      BY <1>0, <3>1 DEF WriteIter, Leave, Left, Goto, Shapes
    <3>2. CASE ~ WriteIter(n) /\ ~ Leave(n)
      <4>1. blind' = blind
        BY <1>4, <3>2 DEF Raise, ReadDeleg, SetNext, Fetch, Call, Return, LeaveHead, history
      <4> QED BY <4>1 DEF CallInv
    <3> QED BY <3>1, <3>2
  <2>1. CASE ReadDeleg(n)
    <3>1. at[n] = "read" /\ at'[n] = "set" /\ mp'[n] = Deleg /\ due' = due
          /\ \A t \in Threads : Removing(t)' => Removing(t)
      BY <1>0, <2>1 DEF ReadDeleg, Goto, Look, Shapes, history, Removing
    <3>2. due[n] \subseteq Reached(Link, Deleg) /\ \A t \in Threads : ~ Removing(t)
      BY <2>0, <3>1 DEF Covered, InList
    <3> QED BY <1>1, <1>2, <3>1, <3>2 DEF Covered, Past
  <2>2. CASE SetNext(n)
    <3>1. at[n] = "set" /\ at'[n] = "fetch" /\ Next'[n] = mp[n] /\ due' = due
          /\ \A t \in Threads : Removing(t)' => Removing(t)
      BY <1>0, <2>2 DEF SetNext, Goto, Look, Shapes, history, Removing, Inv, TypeOK
    <3>2. mp[n] \in InList \cup {NULL} /\ due[n] \subseteq Reached(Link, mp[n])
          /\ \A t \in Threads : ~ Removing(t)
      BY <2>0, <3>1 DEF Covered
    <3>3. Reached(Link, mp[n]) \subseteq Ahead(n)'
      BY <1>1, <3>1 DEF Ahead
    <3>4. \A t \in Threads : ~ Removing(t)' /\ at'[t] # "unlinkhead"
      BY <3>1, <3>2 DEF Removing
    <3> QED BY <1>1, <3>1, <3>2, <3>3, <3>4 DEF Covered, Past
  <2>3. CASE Fetch(n)
    <3> DEFINE here == {d \in Delegates : d \in Reached(Link, Next[n]) /\ Ev[d]}
    <3>1. at[n] = "fetch" /\ Mtx = NULL /\ due' = due
      BY <2>3 DEF Fetch, history
    <3>2. PICK l \in {"leave", "check"} : Goto(n, l)
      BY <2>3 DEF Fetch
    <3>3. at'[n] = l /\ \A t \in Threads : ~ Removing(t)' /\ at'[t] # "unlinkhead"
      BY <1>0, <3>1, <3>2, RolesAssumption DEF Goto, Shapes, Inv, TypeOK, Removing
    <3>4. Next[n] \in InList \cup {NULL} /\ due[n] \subseteq Reached(Link, Next[n])
      BY <1>0, <2>0, <3>1, <3>3 DEF Covered, Past, Ahead
    <3>5. due[n] \subseteq here
      BY <3>4 DEF CallInv, DueSet, Inv, TypeOK
    <3>6. \/ here = {} /\ Goto(n, "leave")
          \/ \E first \in here : /\ here \subseteq Reached(Link, first)
                                 /\ Next' = [Next EXCEPT ![n] = Link[first]]
                                 /\ Goto(n, "check") /\ Look(n, first)
      BY <2>3 DEF Fetch
    <3>7. CASE here = {} /\ Goto(n, "leave")
      <4>1. at'[n] = "leave" /\ due'[n] = {}
        BY <1>0, <3>1, <3>5, <3>7 DEF Goto, Shapes
      <4> QED BY <4>1 DEF Covered, Past
    <3>8. CASE \E first \in here : /\ here \subseteq Reached(Link, first)
                                   /\ Next' = [Next EXCEPT ![n] = Link[first]]
                                   /\ Goto(n, "check") /\ Look(n, first)
      <4>1. PICK first \in here : /\ here \subseteq Reached(Link, first)
                                  /\ Next' = [Next EXCEPT ![n] = Link[first]]
                                  /\ Goto(n, "check") /\ Look(n, first)
        BY <3>8
      <4>2. at'[n] = "check" /\ mp'[n] = first /\ Next'[n] = Link[first]
        BY <1>0, <4>1 DEF Goto, Look, Shapes, Inv, TypeOK
      <4>3. first \in Delegates /\ first \in Reached(Link, Next[n])
        BY <4>1
      <4>4. first \in InList
        <5>1. Reached(Link, Next[n]) \subseteq InList
          BY <1>0, <3>4, ReachedPart DEF InList
        <5> QED BY <4>3, <5>1
      <4>5. Link[first] \in InList \cup {NULL}
        BY <1>2, <4>4 DEF Closed
      <4>6. Reached(Link, first) = {first} \cup Reached(Link, Link[first])
        BY <1>0, <4>3, ReachedRest
      <4>7. Ahead(n)' = Reached(Link, Link[first]) \cup {first}
        BY <1>1, <4>2 DEF Ahead
      <4>8. due'[n] \subseteq Ahead(n)'
        BY <3>1, <3>5, <4>1, <4>6, <4>7
      <4> QED BY <1>1, <3>3, <4>2, <4>5, <4>8 DEF Covered, Past
    <3> QED BY <3>6, <3>7, <3>8
  <2>4. CASE Call(n)
    <3>1. at[n] = "check" /\ Next' = Next
      BY <2>4 DEF Call, iters
    <3>2. PICK l \in {"call", "fetch"} : Goto(n, l)
      BY <2>4 DEF Call
    <3>3. at'[n] = l /\ \A t \in Threads \ {n} : at'[t] = at[t] /\ mp'[t] = mp[t]
      BY <1>0, <2>4, <3>2 DEF Call, Goto, Look, Shapes
    <3>4. Covered(n)
      BY <2>0, <1>0, <3>3
    <3>5. Next[n] \in InList \cup {NULL} /\ due[n] \subseteq Reached(Link, Next[n]) \cup {mp[n]}
          /\ (\A t \in Threads : Removing(t) => Next[n] # mp[t])
          /\ (\A t \in Threads : at[t] = "unlinkhead" => Next[n] \in Reached(Link, mp[t]) \cup {NULL})
      BY <3>1, <3>4 DEF Covered, Past, Ahead
    <3>6. due'[n] \subseteq Reached(Link, Next[n])
      <4>1. CASE Ev[mp[n]]
        <5>1. due'[n] = due[n] \ {mp[n]}
          BY <2>4, <4>1 DEF Call, Inv, TypeOK
        <5> QED BY <3>5, <5>1
      <4>2. CASE ~ Ev[mp[n]]
        <5>1. due' = due /\ mp[n] \notin due[n]
          BY <2>4, <4>2 DEF Call, CallInv, DueSet
        <5> QED BY <3>5, <5>1
      <4> QED BY <4>1, <4>2
    <3>7. Ahead(n)' = Reached(Link, Next[n])
      BY <1>1, <3>1, <3>3 DEF Ahead
    <3>8. \A t \in Threads : /\ Removing(t)' => Next'[n] # mp'[t]
                             /\ at'[t] = "unlinkhead" => Next'[n] \in Reached(Link', mp'[t]) \cup {NULL}
      <4>1. ~ Removing(n)' /\ at'[n] # "unlinkhead"
        BY <3>3 DEF Removing
      <4> QED BY <1>1, <3>1, <3>3, <3>5, <4>1 DEF Removing
    <3> QED BY <1>1, <3>1, <3>3, <3>5, <3>6, <3>7, <3>8 DEF Covered, Past
  <2>5. CASE Return(n)
    <3>1. at[n] = "call" /\ at'[n] = "fetch" /\ Next' = Next /\ due' = due
          /\ \A t \in Threads \ {n} : at'[t] = at[t] /\ mp'[t] = mp[t]
      BY <1>0, <2>5 DEF Return, Goto, Look, Shapes, iters, history
    <3>2. Covered(n)
      BY <2>0, <3>1
    <3>3. Ahead(n)' = Ahead(n)
      BY <1>1, <3>1 DEF Ahead
    <3>4. \A t \in Threads : /\ Removing(t)' => Removing(t) /\ mp'[t] = mp[t]
                             /\ at'[t] = "unlinkhead" => at[t] = "unlinkhead" /\ mp'[t] = mp[t]
      BY <3>1 DEF Removing
    <3>5. Past(n) /\ Past(n)'
      BY <3>1 DEF Past
    <3> QED BY <1>1, <3>1, <3>2, <3>3, <3>4, <3>5 DEF Covered
  <2>6. CASE LeaveHead(n)
    <3>1. at[n] = "leave" /\ at'[n] = "leavehead" /\ due' = due
      BY <1>0, <2>6 DEF LeaveHead, Goto, Shapes, history
    <3> QED BY <2>0, <3>1 DEF Covered, Past
  <2>7. CASE WriteIter(n) \/ Leave(n)
    <3>1. at'[n] = "idle" /\ due'[n] = {}
      BY <1>0, <2>7 DEF WriteIter, Leave, Left, Goto, Shapes, Inv, TypeOK
    <3> QED BY <3>1 DEF Covered, Past
  <2> QED BY <1>4, <2>1, <2>2, <2>3, <2>4, <2>5, <2>6, <2>7 DEF Raise
<1> QED BY <1>3, <1>4

\* operator-= by the owner or by the handler of a notification.
LEMMA DetachCovered ==
  ASSUME Inv, CallInv, NEW t \in Threads, NEW e \in Delegates, Detach(t, e), NEW n \in Notifiers \ blind'
  PROVE  Covered(n)'
<1>0. Shapes /\ n \in Threads
  BY DEF Inv, IInv, Threads
<1>1. Covered(n) /\ UNCHANGED <<Deleg, Link, Next>> /\ due'[n] = due[n] \ {e}
  BY DEF Detach, CallInv, iters
<1>2. PICK l \in {"lock", "idle", "fetch"} :
        /\ \A u \in Threads : at'[u] = IF u = t THEN l ELSE at[u]
        /\ \A u \in Threads \ {t} : mp'[u] = mp[u]
        /\ t \in Notifiers => l # "idle" /\ at[t] = "call"
  <2>1. After(t) \in {"idle", "fetch"} /\ (t \in Notifiers => After(t) = "fetch")
    BY RolesAssumption DEF After
  <2> QED BY <1>0, <2>1, RolesAssumption DEF Detach, Goto, Look, Shapes
<1>3. \A u \in Threads : /\ Removing(u)' => Removing(u) /\ mp'[u] = mp[u]
                         /\ at'[u] = "unlinkhead" => at[u] = "unlinkhead" /\ mp'[u] = mp[u]
  BY <1>2 DEF Removing
<1>4. CASE n # t
  BY <1>0, <1>1, <1>2, <1>3, <1>4, CoveredKept
<1>5. CASE n = t
  <2>1. at[n] = "call" /\ at'[n] \in {"lock", "fetch"}
    BY <1>0, <1>2, <1>5
  <2>2. Past(n) /\ Past(n)' /\ Ahead(n)' = Ahead(n) /\ InList' = InList
    BY <1>1, <2>1 DEF Past, Ahead, InList
  <2> QED BY <1>1, <1>3, <2>1, <2>2 DEF Covered
<1> QED BY <1>4, <1>5

\* Every step.
LEMMA StepCallInv == Inv /\ CallInv /\ [Step]_vars => CallInv'
<1> SUFFICES ASSUME Inv, CallInv, [Step]_vars PROVE CallInv'
  OBVIOUS
<1>0. Shapes
  BY DEF Inv, IInv
<1>1. DueSet'
  BY DueKept
<1>2. ASSUME NEW n \in Notifiers \ blind' PROVE Covered(n)'
  <2>0. n \in Threads
    BY DEF Threads
  <2>1. ASSUME NEW e \in Delegates, Attach(e) PROVE Covered(n)'
    <3>1. Covered(n) /\ UNCHANGED <<Deleg, Link, Next, mp, due>> /\ n # e
          /\ \A u \in Threads : at'[u] = IF u = e THEN "attach" ELSE at[u]
      BY <1>0, <2>1, RolesAssumption DEF Attach, Goto, Shapes, iters, history, CallInv
    <3>2. \A u \in Threads : /\ Removing(u)' => Removing(u) /\ mp'[u] = mp[u]
                             /\ at'[u] = "unlinkhead" => at[u] = "unlinkhead" /\ mp'[u] = mp[u]
      BY <3>1 DEF Removing
    <3> QED BY <2>0, <3>1, <3>2, CoveredKept
  <2>2. ASSUME NEW e \in Delegates, Register(e) PROVE Covered(n)'
    <3>1. Covered(n)
      BY <2>2 DEF Register, CallInv
    <3> QED BY <2>2, <3>1, RegisterCovered
  <2>3. ASSUME NEW t \in Threads, NEW e \in Delegates, Detach(t, e) PROVE Covered(n)'
    BY <2>3, DetachCovered
  <2>4. ASSUME NEW t \in Threads, Remove(t) PROVE Covered(n)'
    <3>1. CASE MoveIterators(t)
      BY <3>1, MoveIteratorsCovered
    <3>2. CASE FindHead(t)
      BY <3>2, FindHeadCovered
    <3>3. CASE Unlink(t) \/ UnlinkHead(t)
      BY <3>3, UnlinkCovered
    <3>4. CASE NotFound(t)
      <4>0. UNCHANGED <<Deleg, Link, Next, due, blind>> /\ at[t] = "find"
        BY <3>4 DEF NotFound, list, iters, history
      <4>2. PICK l \in {"idle", "fetch"} :
              /\ \A u \in Threads : at'[u] = IF u = t THEN l ELSE at[u]
              /\ \A u \in Threads \ {t} : mp'[u] = mp[u]
              /\ t \in Notifiers => l = "fetch"
        <5>1. After(t) \in {"idle", "fetch"} /\ (t \in Notifiers => After(t) = "fetch")
          BY RolesAssumption DEF After
        <5>2. Goto(t, After(t)) /\ Look(t, NULL)
          BY <3>4 DEF NotFound, Detached
        <5> QED BY <1>0, <5>1, <5>2 DEF Goto, Look, Shapes
      <4>1. Covered(n)
        BY <4>0 DEF CallInv
      <4>3. \A u \in Threads : /\ Removing(u)' => Removing(u) /\ mp'[u] = mp[u]
                               /\ at'[u] = "unlinkhead" => at[u] = "unlinkhead" /\ mp'[u] = mp[u]
        BY <4>2 DEF Removing
      <4>4. CASE n # t
        <5>1. at'[n] = at[n] /\ mp'[n] = mp[n]
          BY <2>0, <4>2, <4>4
        <5> QED BY <4>0, <4>1, <4>3, <5>1, CoveredKept
      <4>5. CASE n = t
        <5>1. at[n] = "find" /\ at'[n] = "fetch"
          BY <2>0, <4>0, <4>2, <4>5
        <5>2. Past(n) /\ Past(n)' /\ Ahead(n)' = Ahead(n) /\ InList' = InList
          BY <4>0, <5>1 DEF Past, Ahead, InList
        <5> QED BY <4>0, <4>1, <4>3, <5>1, <5>2 DEF Covered
      <4> QED BY <4>4, <4>5
    <3> QED BY <2>4, <3>1, <3>2, <3>3, <3>4 DEF Remove
  <2>5. ASSUME NEW k \in Notifiers, Raise(k) PROVE Covered(n)'
    BY <2>5, RaiseCovered, OthersCovered
  <2>6. CASE UNCHANGED vars
    <3>1. Covered(n) /\ UNCHANGED <<Deleg, Link, Next, mp, due, at>>
      BY <2>6 DEF vars, list, iters, history, CallInv
    <3>2. \A u \in Threads : Removing(u)' => Removing(u)
      BY <3>1 DEF Removing
    <3> QED BY <3>1, <3>2, CoveredKept
  <2> QED BY <2>1, <2>2, <2>3, <2>4, <2>5, <2>6 DEF Step
<1> QED BY <1>1, <1>2 DEF CallInv

\* What is known of the lists is always true.
LEMMA InvAlways == Spec => []Inv
<1>1. Spec => []IInv
  BY InitIInv, StepIInv, PTL DEF Spec
<1>2. Spec => []IterInv
  BY <1>1, TypeCorrect, InitIterInv, StepIterInv, PTL DEF Spec
<1>3. IInv /\ TypeOK /\ IterInv /\ ListInv => Inv
  BY DEF Inv
<1>4. Spec => []ListInv
  BY <1>1, <1>2, <1>3, TypeCorrect, InitListInv, StepListInv, PTL DEF Spec
<1> QED BY <1>1, <1>2, <1>3, <1>4, TypeCorrect, PTL

\* ListOfRegistered: a delegate is in the list while it is registered, unless it
\* registered during the removal of the head, and leaves it before detach returns.
THEOREM ListIsOfRegistered == Spec => []ListOfRegistered
<1>1. Inv => ListOfRegistered
  BY DEF Inv, ListInv, RegisteredIn, InRegistered, ListOfRegistered, InList
<1> QED BY <1>1, InvAlways, PTL

\* AllCalled: a notification that is not blind calls every delegate that was registered
\* when it began and has not been detached since, whatever comes and goes meanwhile.
THEOREM AllAreCalled == Spec => []AllCalled
<1>1. Spec => []CallInv
  BY InvAlways, InitCallInv, StepCallInv, PTL DEF Spec
<1>2. CallInv => AllCalled
  BY DEF CallInv, Covered, AllCalled
<1> QED BY <1>1, <1>2, PTL
=============================================================================
