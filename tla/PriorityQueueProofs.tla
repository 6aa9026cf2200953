------------------------- MODULE PriorityQueueProofs -------------------------
(***************************************************************************)
(* Proofs about PriorityQueue for every number of entries, levels and      *)
(* readers.                                                                *)
(*                                                                         *)
(* None of the invariants is inductive alone: Read follows the Next of     *)
(* Head, so even its type depends on the whole list being well formed.     *)
(* The invariant therefore says that the pointers represent some sequence  *)
(* s of n different entries, and tail[p] the length c[p] of the part of s  *)
(* that is at most at level p.                                             *)
(***************************************************************************)
EXTENDS PriorityQueue, FiniteSetTheorems, SequenceTheorems, WellFoundedInduction, TLAPS

Cell(n, s, i) == IF i \in 1 .. n THEN s[i] ELSE NULL

\* The pointers represent the first n entries of s, c[p] of them up to level p.
Represents(n, s, c) ==
  /\ s \in [1 .. n -> Entries]
  /\ \A i, j \in 1 .. n : s[i] = s[j] => i = j
  /\ c \in [Pri -> 0 .. n]
  /\ \A p, q \in Pri : p <= q => c[p] <= c[q]
  /\ c[Levels - 1] = n
  /\ head = Cell(n, s, 1)
  /\ \A i \in 1 .. n : next[s[i]] = Cell(n, s, i + 1)
  /\ \A p \in Pri : tail[p] = Cell(n, s, c[p])

\* Nothing in the list is free or with a reader, and everything else is in it.
Owned(n, s) ==
  /\ \A i \in 1 .. n : s[i] \notin free
  /\ \A i \in 1 .. n, r \in Readers : s[i] # held[r]
  /\ \A x \in Entries : \/ x \in free
                        \/ \E r \in Readers : held[r] = x
                        \/ \E i \in 1 .. n : s[i] = x

WellFormed ==
  \E n, s, c : n \in Nat /\ Represents(n, s, c) /\ Owned(n, s)

\* What a reader got is its own until it deletes it or puts it back.
Held ==
  /\ \A r \in Readers : pc[r] = "busy" <=> held[r] # NULL
  /\ \A r \in Readers : held[r] \notin free
  /\ \A r, w \in Readers : held[r] = held[w] /\ held[r] # NULL => r = w

IInv == TypeOK /\ WellFormed /\ Held /\ NoLostWakeup

USE NullAssumption, LevelsAssumption, BoundAssumption

(***************************************************************************)
(* The loops over the levels.                                              *)
(***************************************************************************)

\* The levels that share the tail at position k are those with k entries.
LEMMA SharingIsEqualCount ==
  ASSUME NEW n \in Nat, NEW s, NEW c, Represents(n, s, c),
         NEW p \in Pri, NEW k \in 0 .. n, \A q \in Pri : p <= q => k <= c[q]
  PROVE  Sharing(p, Cell(n, s, k)) = {q \in Pri : p <= q /\ c[q] = k}
<1>1. \A q \in Pri : c[q] \in 0 .. n
  BY DEF Represents
<1>2. \A q \in Pri : tail[q] = Cell(n, s, k) <=> c[q] = k
  BY <1>1 DEF Represents, Cell
<1>3. ASSUME NEW q \in Pri, p <= q, c[q] = k
      PROVE  \A w \in p .. q : tail[w] = Cell(n, s, k)
  <2>1. TAKE w \in p .. q
  <2>2. w \in Pri /\ p <= w /\ w <= q
    BY DEF Pri
  <2>3. c[w] <= c[q] /\ k <= c[w]
    BY <2>2 DEF Represents
  <2>4. c[w] = k
    BY <1>1, <1>3, <2>2, <2>3
  <2> QED
    BY <1>2, <2>2, <2>4
<1>4. ASSUME NEW q \in Pri, p <= q, \A w \in p .. q : tail[w] = Cell(n, s, k)
      PROVE  c[q] = k
  <2>1. q \in p .. q
    BY <1>4 DEF Pri
  <2> QED
    BY <1>2, <1>4, <2>1
<1> QED
  BY <1>3, <1>4 DEF Sharing

(***************************************************************************)
(* Linking an entry in: s with e inserted behind position k.               *)
(***************************************************************************)

Inserted(n, s, k, e) ==
  [i \in 1 .. n + 1 |-> IF i <= k THEN s[i] ELSE IF i = k + 1 THEN e ELSE s[i - 1]]

Longer(c, p) == [q \in Pri |-> IF p <= q THEN c[q] + 1 ELSE c[q]]

\* Link keeps the list well formed: Write and WriteFront insert behind position
\* k, which divides the levels below p from those at p and above.
LEMMA LinkRepresents ==
  ASSUME NEW n \in Nat, NEW s, NEW c, Represents(n, s, c),
         next \in [Entries -> Pointer], tail \in [Pri -> Pointer],
         NEW p \in Pri, NEW k \in 0 .. n,
         \A q \in Pri : p <= q => k <= c[q],
         \A q \in Pri : q < p => c[q] <= k,
         NEW e \in Entries, \A i \in 1 .. n : s[i] # e,
         Link(e, p, Cell(n, s, k))
  PROVE  Represents(n + 1, Inserted(n, s, k, e), Longer(c, p))'
<1> DEFINE s1 == Inserted(n, s, k, e)
           c1 == Longer(c, p)
           t  == Cell(n, s, k)
<1>1. /\ s \in [1 .. n -> Entries]
      /\ \A i, j \in 1 .. n : s[i] = s[j] => i = j
      /\ c \in [Pri -> 0 .. n]
      /\ \A q, w \in Pri : q <= w => c[q] <= c[w]
      /\ c[Levels - 1] = n
  BY DEF Represents
<1>2. \A q \in Pri : c[q] \in 0 .. n
  BY <1>1
<1>3. s1 \in [1 .. n + 1 -> Entries]
  BY <1>1 DEF Inserted
<1>4. \A i, j \in 1 .. n + 1 : s1[i] = s1[j] => i = j
  BY <1>1 DEF Inserted
<1>5. c1 \in [Pri -> 0 .. n + 1]
  BY <1>2 DEF Longer
<1>6. \A q, w \in Pri : q <= w => c1[q] <= c1[w]
  BY <1>1, <1>2 DEF Longer, Pri
<1>7. c1[Levels - 1] = n + 1
  BY <1>1 DEF Longer, Pri
<1>8. t = NULL <=> k = 0
  BY <1>1 DEF Cell
<1>9. head' = Cell(n + 1, s1, 1)
  BY <1>1, <1>8 DEF Link, Represents, Cell, Inserted
<1>10. \A i \in 1 .. n + 1 : next'[s1[i]] = Cell(n + 1, s1, i + 1)
  <2>1. TAKE i \in 1 .. n + 1
  <2>2. next' = IF k = 0 THEN [next EXCEPT ![e] = head]
                ELSE [next EXCEPT ![e] = next[s[k]], ![s[k]] = e]
    BY <1>8 DEF Link, Cell
  <2>3. \A j \in 1 .. n : next[s[j]] = Cell(n, s, j + 1)
    BY DEF Represents
  <2>4. \A j \in 1 .. n : s[j] \in Entries /\ s[j] # e
    BY <1>1
  <2>5. head = Cell(n, s, 1)
    BY DEF Represents
  <2>6. CASE i < k
    <3>1. s1[i] = s[i] /\ i \in 1 .. n /\ s[i] # s[k] /\ k \in 1 .. n
      BY <1>1, <2>6 DEF Inserted
    <3>2. next'[s1[i]] = next[s[i]]
      BY <2>2, <2>4, <3>1
    <3> QED
      BY <2>3, <2>6, <3>1, <3>2 DEF Cell, Inserted
  <2>7. CASE i = k
    <3>1. s1[i] = s[k] /\ k \in 1 .. n
      BY <2>7 DEF Inserted
    <3>2. next'[s1[i]] = e
      BY <2>2, <2>4, <3>1
    <3> QED
      BY <2>7, <3>1, <3>2 DEF Cell, Inserted
  <2>8. CASE i = k + 1
    <3>1. s1[i] = e
      BY <2>8 DEF Inserted
    <3>2. next'[e] = Cell(n, s, k + 1)
      <4>1. CASE k = 0
        BY <2>2, <2>5, <4>1
      <4>2. CASE k # 0
        BY <2>2, <2>3, <2>4, <4>2
      <4> QED
        BY <4>1, <4>2
    <3> QED
      BY <2>8, <3>1, <3>2 DEF Cell, Inserted
  <2>9. CASE i > k + 1
    <3>1. s1[i] = s[i - 1] /\ i - 1 \in 1 .. n
      BY <2>9 DEF Inserted
    <3>2. next'[s1[i]] = next[s[i - 1]]
      BY <1>1, <2>2, <2>4, <2>9, <3>1
    <3> QED
      BY <2>3, <2>9, <3>1, <3>2 DEF Cell, Inserted
  <2> QED
    BY <2>6, <2>7, <2>8, <2>9
<1>11. \A q \in Pri : tail'[q] = Cell(n + 1, s1, c1[q])
  <2>1. TAKE q \in Pri
  <2>2. Sharing(p, t) = {w \in Pri : p <= w /\ c[w] = k}
    BY SharingIsEqualCount
  <2>3. tail'[q] = IF p <= q /\ c[q] = k THEN e ELSE tail[q]
    BY <2>2 DEF Link
  <2>4. tail[q] = Cell(n, s, c[q])
    BY DEF Represents
  <2>5. CASE p <= q /\ c[q] = k
    BY <2>3, <2>5 DEF Cell, Inserted, Longer
  <2>6. CASE p <= q /\ c[q] # k
    BY <1>2, <2>3, <2>4, <2>6 DEF Cell, Inserted, Longer
  <2>7. CASE q < p
    BY <1>2, <2>3, <2>4, <2>7 DEF Cell, Inserted, Longer, Pri
  <2> QED
    BY <2>5, <2>6, <2>7 DEF Pri
<1>12. Represents(n + 1, s1, c1)' <=>
         /\ s1 \in [1 .. n + 1 -> Entries]
         /\ \A i, j \in 1 .. n + 1 : s1[i] = s1[j] => i = j
         /\ c1 \in [Pri -> 0 .. n + 1]
         /\ \A q, w \in Pri : q <= w => c1[q] <= c1[w]
         /\ c1[Levels - 1] = n + 1
         /\ head' = Cell(n + 1, s1, 1)
         /\ \A i \in 1 .. n + 1 : next'[s1[i]] = Cell(n + 1, s1, i + 1)
         /\ \A q \in Pri : tail'[q] = Cell(n + 1, s1, c1[q])
  BY DEF Represents, Cell, Inserted, Longer
<1> QED
  BY <1>3, <1>4, <1>5, <1>6, <1>7, <1>9, <1>10, <1>11, <1>12

(***************************************************************************)
(* Taking the head.                                                        *)
(***************************************************************************)

\* A set of natural numbers that is not empty has a least element.
LEMMA LeastElement ==
  ASSUME NEW S \in SUBSET Nat, S # {}
  PROVE  \E x \in S : \A y \in S : x <= y
<1>1. PICK x \in S : \A y \in S : <<y, x>> \notin OpToRel(<, Nat)
  BY NatLessThanWellFounded, WFMin
<1>2. \A y \in Nat : y < x => <<y, x>> \in OpToRel(<, Nat)
  BY DEF OpToRel
<1>3. \A y \in S : ~ (y < x)
  BY <1>1, <1>2, Zenon
<1> QED
  BY <1>3

\* The loop of Read that detects the real level ends, at the first level that
\* has an entry.
LEMMA UrgentIsFirst ==
  ASSUME NEW p \in Pri, tail[p] # NULL
  PROVE  /\ Urgent \in Pri
         /\ tail[Urgent] # NULL
         /\ \A q \in Pri : q < Urgent => tail[q] = NULL
<1> DEFINE S == {q \in Pri : tail[q] # NULL}
<1>1. PICK x \in S : \A y \in S : x <= y
  <2>1. S \in SUBSET Nat /\ S # {}
    BY DEF Pri
  <2> HIDE DEF S
  <2> QED
    BY <2>1, LeastElement
<1>2. x \in Pri /\ tail[x] # NULL /\ \A q \in Pri : q < x => tail[q] = NULL
  BY <1>1 DEF Pri
<1> QED
  BY <1>2 DEF Urgent

Shifted(n, s) == [i \in 1 .. n - 1 |-> s[i + 1]]

Shorter(c) == [q \in Pri |-> IF c[q] = 0 THEN 0 ELSE c[q] - 1]

\* Take follows the Next of an entry, and the rest of the list stays well
\* formed.
LEMMA TakeRepresents ==
  ASSUME NEW n \in Nat, NEW s, NEW c, Represents(n, s, c),
         NEW r \in Readers, Take(r)
  PROVE  /\ n > 0
         /\ head = s[1]
         /\ Represents(n - 1, Shifted(n, s), Shorter(c))'
<1> DEFINE s1 == Shifted(n, s)
           c1 == Shorter(c)
<1>1. /\ s \in [1 .. n -> Entries]
      /\ \A i, j \in 1 .. n : s[i] = s[j] => i = j
      /\ c \in [Pri -> 0 .. n]
      /\ \A q, w \in Pri : q <= w => c[q] <= c[w]
      /\ c[Levels - 1] = n
  BY DEF Represents
<1>2. \A q \in Pri : c[q] \in 0 .. n
  BY <1>1
<1>3. \A q \in Pri : tail[q] = NULL <=> c[q] = 0
  BY <1>1, <1>2 DEF Represents, Cell
<1>4. Bound[r] \in Pri /\ tail[Bound[r]] # NULL
  BY DEF Take
<1>5. n > 0 /\ head = s[1] /\ head = Cell(n, s, 1)
  BY <1>2, <1>3, <1>4 DEF Represents, Cell
<1>6. /\ Urgent \in Pri
      /\ c[Urgent] > 0
      /\ \A q \in Pri : q < Urgent => c[q] = 0
  BY <1>2, <1>3, <1>4, UrgentIsFirst
<1>7. Sharing(Urgent, head) = {q \in Pri : Urgent <= q /\ c[q] = 1}
  <2> DEFINE u == Urgent
  <2>1. \A q \in Pri : u <= q => 1 <= c[q]
    BY <1>1, <1>2, <1>6
  <2>2. 1 \in 0 .. n /\ u \in Pri
    BY <1>5, <1>6
  <2> HIDE DEF u
  <2>3. Sharing(u, Cell(n, s, 1)) = {q \in Pri : u <= q /\ c[q] = 1}
    BY <2>1, <2>2, SharingIsEqualCount
  <2> QED
    BY <1>5, <2>3 DEF u
<1>8. s1 \in [1 .. n - 1 -> Entries] /\ \A i, j \in 1 .. n - 1 : s1[i] = s1[j] => i = j
  BY <1>1 DEF Shifted
<1>9. /\ c1 \in [Pri -> 0 .. n - 1]
      /\ \A q, w \in Pri : q <= w => c1[q] <= c1[w]
      /\ c1[Levels - 1] = n - 1
  BY <1>1, <1>2, <1>5 DEF Shorter, Pri
<1>10. head' = Cell(n - 1, s1, 1)
  BY <1>5 DEF Take, Represents, Cell, Shifted
<1>11. \A i \in 1 .. n - 1 : next'[s1[i]] = Cell(n - 1, s1, i + 1)
  BY <1>5 DEF Take, Represents, Cell, Shifted
<1>12. \A q \in Pri : tail'[q] = Cell(n - 1, s1, c1[q])
  <2>1. TAKE q \in Pri
  <2>2. tail'[q] = IF Urgent <= q /\ c[q] = 1 THEN NULL ELSE tail[q]
    BY <1>7 DEF Take
  <2>3. tail[q] = Cell(n, s, c[q])
    BY DEF Represents
  <2>4. CASE c[q] = 0
    BY <2>2, <2>3, <2>4 DEF Cell, Shorter
  <2>5. CASE c[q] = 1
    <3>1. Urgent <= q
      BY <1>6, <2>5 DEF Pri
    <3> QED
      BY <2>2, <2>5, <3>1 DEF Cell, Shorter
  <2>6. CASE c[q] > 1
    BY <1>2, <2>2, <2>3, <2>6 DEF Cell, Shorter, Shifted
  <2> QED
    BY <1>2, <2>4, <2>5, <2>6
<1>13. Represents(n - 1, s1, c1)' <=>
         /\ s1 \in [1 .. n - 1 -> Entries]
         /\ \A i, j \in 1 .. n - 1 : s1[i] = s1[j] => i = j
         /\ c1 \in [Pri -> 0 .. n - 1]
         /\ \A q, w \in Pri : q <= w => c1[q] <= c1[w]
         /\ c1[Levels - 1] = n - 1
         /\ head' = Cell(n - 1, s1, 1)
         /\ \A i \in 1 .. n - 1 : next'[s1[i]] = Cell(n - 1, s1, i + 1)
         /\ \A q \in Pri : tail'[q] = Cell(n - 1, s1, c1[q])
  BY DEF Represents, Cell, Shifted, Shorter
<1> QED
  BY <1>5, <1>8, <1>9, <1>10, <1>11, <1>12, <1>13

(***************************************************************************)
(* The invariant.                                                          *)
(***************************************************************************)

\* A step that leaves the pointers and the owners alone leaves the list alone.
LEMMA SameList ==
  ASSUME WellFormed, UNCHANGED <<head, next, tail, held, free>>
  PROVE  WellFormed'
<1>1. PICK n, s, c : n \in Nat /\ Represents(n, s, c) /\ Owned(n, s)
  BY DEF WellFormed
<1>2. Represents(n, s, c)' /\ Owned(n, s)'
  BY <1>1 DEF Represents, Owned, Cell
<1> QED
  BY <1>1, <1>2, Zenon DEF WellFormed

\* What has to be shown of the owners of the next list.
LEMMA OwnedNext ==
  ASSUME NEW n, NEW s,
         \A i \in 1 .. n : s[i] \notin free',
         \A i \in 1 .. n, r \in Readers : s[i] # held'[r],
         \A x \in Entries : \/ x \in free'
                            \/ \E r \in Readers : held'[r] = x
                            \/ \E i \in 1 .. n : s[i] = x
  PROVE  Owned(n, s)'
  BY DEF Owned

\* The empty list is well formed.
LEMMA InitInvariant == Init => IInv
<1> SUFFICES ASSUME Init PROVE IInv
  OBVIOUS
<1> DEFINE s0 == [i \in 1 .. 0 |-> NULL]
           c0 == [p \in Pri |-> 0]
<1>1. TypeOK /\ Held /\ NoLostWakeup
  BY DEF Init, TypeOK, Pointer, Held, NoLostWakeup
<1>2. Represents(0, s0, c0) /\ Owned(0, s0)
  BY DEF Init, Represents, Owned, Cell, Pri
<1>3. WellFormed
  BY <1>2, Zenon DEF WellFormed
<1> QED
  BY <1>1, <1>3 DEF IInv

\* What a write of an entry e that is nobody's does to the list: both Write and
\* WriteFront are this with the position of their own.
LEMMA LinkWellFormed ==
  ASSUME IInv, NEW p \in Pri, NEW e \in Entries, NEW t,
         \/ t = tail[p]
         \/ t = IF p = 0 THEN NULL ELSE tail[p - 1],
         e \in free \/ \E r \in Readers : held[r] = e,
         Link(e, p, t),
         e \notin free',
         free' \subseteq free,
         free \subseteq free' \cup {e},
         \A r \in Readers : held[r] \in Entries => held[r] = e \/ held'[r] = held[r],
         \A r \in Readers : held'[r] = NULL \/ (held'[r] = held[r] /\ held[r] # e)
  PROVE  /\ WellFormed'
         /\ head' \in Pointer
         /\ next' \in [Entries -> Pointer]
         /\ tail' \in [Pri -> Pointer]
         /\ evEmpty' \in [Pri -> BOOLEAN]
         /\ NoLostWakeup'
<1>1. PICK n, s, c : n \in Nat /\ Represents(n, s, c) /\ Owned(n, s)
  BY DEF IInv, WellFormed
<1>2. /\ next \in [Entries -> Pointer]
      /\ tail \in [Pri -> Pointer]
      /\ head \in Pointer
      /\ evEmpty \in [Pri -> BOOLEAN]
  BY DEF IInv, TypeOK
<1>3. \A q, w \in Pri : q <= w => c[q] <= c[w]
  BY <1>1 DEF Represents
<1>4. \A q \in Pri : c[q] \in 0 .. n /\ tail[q] = Cell(n, s, c[q])
  BY <1>1 DEF Represents
<1>5. PICK k \in 0 .. n :
        /\ t = Cell(n, s, k)
        /\ \A q \in Pri : p <= q => k <= c[q]
        /\ \A q \in Pri : q < p => c[q] <= k
  <2>1. CASE t = tail[p]
    <3>1. /\ c[p] \in 0 .. n
          /\ t = Cell(n, s, c[p])
          /\ \A q \in Pri : p <= q => c[p] <= c[q]
          /\ \A q \in Pri : q < p => c[q] <= c[p]
      BY <1>3, <1>4, <2>1 DEF Pri
    <3> QED
      BY <3>1
  <2>2. CASE p = 0 /\ t = NULL
    <3>1. /\ 0 \in 0 .. n
          /\ t = Cell(n, s, 0)
          /\ \A q \in Pri : p <= q => 0 <= c[q]
          /\ \A q \in Pri : q < p => c[q] <= 0
      BY <1>1, <1>4, <2>2 DEF Cell, Pri
    <3> QED
      BY <3>1
  <2>3. CASE p # 0 /\ t = tail[p - 1]
    <3>1. p - 1 \in Pri
      BY <2>3 DEF Pri
    <3>2. /\ c[p - 1] \in 0 .. n
          /\ t = Cell(n, s, c[p - 1])
          /\ \A q \in Pri : p <= q => c[p - 1] <= c[q]
          /\ \A q \in Pri : q < p => c[q] <= c[p - 1]
      BY <1>3, <1>4, <2>3, <3>1 DEF Pri
    <3> QED
      BY <3>2
  <2> QED
    BY <2>1, <2>2, <2>3
<1>6. \A i \in 1 .. n : s[i] # e
  BY <1>1 DEF Owned
<1> DEFINE s1 == Inserted(n, s, k, e)
           c1 == Longer(c, p)
<1>7. Represents(n + 1, s1, c1)'
  BY <1>1, <1>2, <1>5, <1>6, LinkRepresents
<1>8. Owned(n + 1, s1)'
  <2>1. \A i \in 1 .. n + 1 : s1[i] = e \/ \E j \in 1 .. n : s1[i] = s[j]
    BY <1>1, <1>5 DEF Inserted
  <2>2. e \notin free' /\ \A r \in Readers : held'[r] # e
    OBVIOUS
  <2>3. \A j \in 1 .. n : s[j] \notin free' /\ \A r \in Readers : held'[r] # s[j]
    <3>1. TAKE j \in 1 .. n
    <3>2. s[j] # NULL
      BY <1>1 DEF Represents
    <3>3. s[j] \notin free /\ \A r \in Readers : s[j] # held[r]
      BY <1>1 DEF Owned
    <3> QED
      BY <3>2, <3>3
  <2>4. \A i \in 1 .. n + 1 : s1[i] \notin free' /\ \A r \in Readers : s1[i] # held'[r]
    BY <2>1, <2>2, <2>3
  <2>5. \A x \in Entries : \/ x \in free'
                           \/ \E r \in Readers : held'[r] = x
                           \/ \E i \in 1 .. n + 1 : s1[i] = x
    <3>1. TAKE x \in Entries
    <3>2. CASE x = e
      <4>1. k + 1 \in 1 .. n + 1 /\ s1[k + 1] = e
        BY <1>1, <1>5 DEF Inserted
      <4> QED
        BY <3>2, <4>1
    <3>3. CASE x # e /\ x \in free
      BY <3>3
    <3>4. CASE x # e /\ \E r \in Readers : held[r] = x
      BY <3>4
    <3>5. CASE x # e /\ \E i \in 1 .. n : s[i] = x
      <4>1. PICK i \in 1 .. n : s[i] = x
        BY <3>5
      <4>2. CASE i <= k
        BY <1>1, <1>5, <4>1, <4>2 DEF Inserted
      <4>3. CASE i > k
        <5>1. i + 1 \in 1 .. n + 1 /\ s1[i + 1] = s[i]
          BY <1>1, <1>5, <4>3 DEF Inserted
        <5> QED
          BY <4>1, <5>1
      <4> QED
        BY <1>1, <4>2, <4>3
    <3> QED
      BY <1>1, <3>2, <3>3, <3>4, <3>5 DEF Owned
  <2>6. /\ \A i \in 1 .. n + 1 : s1[i] \notin free'
        /\ \A i \in 1 .. n + 1, r \in Readers : s1[i] # held'[r]
    BY <2>4
  <2> HIDE DEF s1
  <2> QED
    BY <2>5, <2>6, OwnedNext
<1>9. WellFormed'
  <2>1. n + 1 \in Nat
    BY <1>1
  <2> HIDE DEF s1, c1
  <2> QED
    BY <1>7, <1>8, <2>1, Zenon DEF WellFormed
<1>10. t \in Pointer
  BY <1>1, <1>5 DEF Cell, Pointer, Represents
<1>11. /\ head' \in Pointer
       /\ next' \in [Entries -> Pointer]
       /\ tail' \in [Pri -> Pointer]
       /\ evEmpty' \in [Pri -> BOOLEAN]
  BY <1>2, <1>10 DEF Link, Pointer
<1>12. NoLostWakeup'
  BY <1>2 DEF IInv, NoLostWakeup, Link
<1> QED
  BY <1>9, <1>11, <1>12

\* Every step of every thread preserves the invariant.
LEMMA StepInvariant == IInv /\ [Next]_vars => IInv'
<1> SUFFICES ASSUME IInv, [Next]_vars PROVE IInv'
  OBVIOUS
<1> USE DEF IInv
<1>1. ASSUME NEW e \in Entries, NEW p \in Pri, Write(e, p) PROVE IInv'
  <2>1. PICK t : t = tail[p]
    OBVIOUS
  <2>2. /\ e \in free /\ e \notin free' /\ free' \subseteq free /\ held' = held
        /\ Link(e, p, t) /\ pc' = pc
    BY <1>1, <2>1 DEF Write, LinkBehind
  <2>3. free \subseteq free' \cup {e} /\ \A r \in Readers : held'[r] = held[r] /\ held[r] # e
    BY <1>1, <2>2 DEF Held, Write
  <2>4. WellFormed' /\ NoLostWakeup' /\ TypeOK'
    BY <2>1, <2>2, <2>3, LinkWellFormed DEF TypeOK
  <2>5. Held'
    BY <2>2 DEF Held
  <2> QED
    BY <2>4, <2>5
<1>2. ASSUME NEW r \in Readers, NEW p \in Pri, WriteFront(r, p) PROVE IInv'
  <2>1. PICK t : t = IF p = 0 THEN NULL ELSE tail[p - 1]
    OBVIOUS
  <2>2. PICK e \in Entries : e = held[r] /\ e \notin free
    BY <1>2 DEF WriteFront, Held, TypeOK, Pointer
  <2>3. /\ held' = [held EXCEPT ![r] = NULL]
        /\ pc' = [pc EXCEPT ![r] = "wait"]
        /\ free' = free
        /\ Link(e, p, t)
    BY <1>2, <2>1, <2>2 DEF WriteFront, LinkInFront
  <2>4. \A w \in Readers : held'[w] = NULL \/ (held'[w] = held[w] /\ held[w] # e)
    BY <2>2, <2>3 DEF Held, TypeOK
  <2>5. /\ WellFormed' /\ NoLostWakeup'
        /\ head' \in Pointer /\ next' \in [Entries -> Pointer]
        /\ tail' \in [Pri -> Pointer] /\ evEmpty' \in [Pri -> BOOLEAN]
    BY <2>1, <2>2, <2>3, <2>4, LinkWellFormed
  <2>6. TypeOK'
    BY <2>3, <2>5 DEF TypeOK, Pointer
  <2>7. Held'
    BY <2>3 DEF Held, TypeOK, Pointer
  <2> QED
    BY <2>5, <2>6, <2>7
<1>3. ASSUME NEW r \in Readers, Wake(r) PROVE IInv'
  <2>1. TypeOK' /\ Held' /\ NoLostWakeup'
    BY <1>3 DEF Wake, TypeOK, Held, NoLostWakeup
  <2>2. WellFormed'
    BY <1>3, SameList DEF Wake
  <2> QED
    BY <2>1, <2>2
<1>4. ASSUME NEW r \in Readers, Take(r) PROVE IInv'
  <2>1. PICK n, s, c : n \in Nat /\ Represents(n, s, c) /\ Owned(n, s)
    BY DEF WellFormed
  <2>2. /\ n > 0
        /\ head = s[1]
        /\ Represents(n - 1, Shifted(n, s), Shorter(c))'
    BY <1>4, <2>1, TakeRepresents
  <2>3. head \in Entries /\ head \notin free /\ \A w \in Readers : held[w] # head
    <3>1. 1 \in 1 .. n
      BY <2>1, <2>2
    <3>2. s[1] \in Entries
      BY <2>1, <3>1 DEF Represents
    <3> QED
      BY <2>1, <2>2, <3>1, <3>2 DEF Owned
  <2>4. /\ held' = [held EXCEPT ![r] = head]
        /\ pc' = [pc EXCEPT ![r] = "busy"]
        /\ next' = next /\ evEmpty' = evEmpty /\ free' = free
    BY <1>4 DEF Take
  <2>5. Owned(n - 1, Shifted(n, s))'
    <3>1. \A i \in 1 .. n - 1 :
            /\ Shifted(n, s)[i] \notin free
            /\ Shifted(n, s)[i] # head
            /\ \A w \in Readers : Shifted(n, s)[i] # held[w]
      <4>1. TAKE i \in 1 .. n - 1
      <4>2. i + 1 \in 1 .. n /\ 1 \in 1 .. n /\ i + 1 # 1 /\ Shifted(n, s)[i] = s[i + 1]
        BY <2>1, <2>2 DEF Shifted
      <4>3. s[i + 1] # s[1]
        BY <2>1, <4>2 DEF Represents
      <4> QED
        BY <2>1, <2>2, <4>2, <4>3 DEF Owned
    <3>2. \A w \in Readers : held'[w] = held[w] \/ held'[w] = head
      BY <2>4 DEF TypeOK
    <3>3. \A x \in Entries : \/ x \in free
                             \/ \E w \in Readers : held'[w] = x
                             \/ \E i \in 1 .. n - 1 : Shifted(n, s)[i] = x
      <4>1. TAKE x \in Entries
      <4>2. CASE x \in free
        BY <4>2
      <4>3. CASE \E w \in Readers : held[w] = x
        <5>1. PICK w \in Readers : held[w] = x
          BY <4>3
        <5>2. held[r] = NULL
          BY <1>4 DEF Take, Held
        <5>3. held'[w] = x
          BY <2>4, <5>1, <5>2 DEF TypeOK
        <5> QED
          BY <5>3
      <4>4. CASE \E i \in 1 .. n : s[i] = x
        <5>1. PICK i \in 1 .. n : s[i] = x
          BY <4>4
        <5>2. CASE i = 1
          <6>1. held'[r] = x
            BY <2>2, <2>4, <5>1, <5>2 DEF TypeOK
          <6> QED
            BY <6>1
        <5>3. CASE i # 1
          <6>1. i - 1 \in 1 .. n - 1 /\ Shifted(n, s)[i - 1] = x
            BY <2>1, <5>1, <5>3 DEF Shifted
          <6> QED
            BY <6>1
        <5> QED
          BY <5>2, <5>3
      <4> QED
        BY <2>1, <4>2, <4>3, <4>4 DEF Owned
    <3>4. Shifted(n, s)' = Shifted(n, s)
      BY DEF Shifted
    <3> QED
      BY <2>4, <3>1, <3>2, <3>3, <3>4 DEF Owned
  <2>6. WellFormed'
    <3>1. n - 1 \in Nat
      BY <2>1, <2>2
    <3> QED
      BY <2>2, <2>5, <3>1, Zenon DEF WellFormed
  <2>7. head' \in Pointer /\ tail' \in [Pri -> Pointer]
    <3>1. \A q \in Pri : tail'[q] \in Pointer
      BY <1>4 DEF Take, TypeOK, Pointer
    <3>2. head' = next[head]
      BY <1>4 DEF Take
    <3> QED
      BY <1>4, <2>3, <3>1, <3>2 DEF Take, TypeOK
  <2>8. TypeOK'
    BY <2>3, <2>4, <2>7 DEF TypeOK, Pointer
  <2>9. Held'
    BY <2>3, <2>4 DEF Held, TypeOK
  <2>10. NoLostWakeup'
    BY <1>4 DEF Take, NoLostWakeup
  <2> QED
    BY <2>6, <2>8, <2>9, <2>10
<1>5. ASSUME NEW r \in Readers, Rearm(r) PROVE IInv'
  <2>1. TypeOK' /\ Held'
    BY <1>5 DEF Rearm, TypeOK, Held
  <2>2. NoLostWakeup'
    BY <1>5 DEF Rearm, NoLostWakeup, TypeOK
  <2>3. WellFormed'
    BY <1>5, SameList DEF Rearm
  <2> QED
    BY <2>1, <2>2, <2>3
<1>6. ASSUME NEW r \in Readers, Delete(r) PROVE IInv'
  <2>1. held[r] \in Entries
    BY <1>6 DEF Delete, Held, TypeOK, Pointer
  <2>2. TypeOK' /\ NoLostWakeup'
    BY <1>6, <2>1 DEF Delete, TypeOK, NoLostWakeup, Pointer
  <2>3. Held'
    BY <1>6, <2>1 DEF Delete, Held, TypeOK
  <2>4. WellFormed'
    <3>1. PICK n, s, c : n \in Nat /\ Represents(n, s, c) /\ Owned(n, s)
      BY DEF WellFormed
    <3>2. Represents(n, s, c)'
      BY <1>6, <3>1 DEF Delete, Represents, Cell
    <3>3. Owned(n, s)'
      <4>1. /\ free' = free \cup {held[r]}
            /\ held' = [held EXCEPT ![r] = NULL]
        BY <1>6 DEF Delete
      <4>2. \A i \in 1 .. n : s[i] \in Entries /\ s[i] \notin free /\ s[i] # held[r]
        BY <3>1 DEF Owned, Represents
      <4>3. \A i \in 1 .. n : s[i] \notin free'
        BY <4>1, <4>2
      <4>4. \A w \in Readers : held'[w] = IF w = r THEN NULL ELSE held[w]
        BY <4>1 DEF TypeOK
      <4>5. \A i \in 1 .. n, w \in Readers : s[i] # held'[w]
        BY <3>1, <4>2, <4>4 DEF Owned
      <4>6. \A x \in Entries : \/ x \in free'
                               \/ \E w \in Readers : held'[w] = x
                               \/ \E i \in 1 .. n : s[i] = x
        BY <3>1, <4>1, <4>4 DEF Owned
      <4> QED
        BY <4>3, <4>5, <4>6 DEF Owned
    <3> QED
      BY <3>1, <3>2, <3>3, Zenon DEF WellFormed
  <2> QED
    BY <2>2, <2>3, <2>4
<1>7. ASSUME Purge PROVE IInv'
  <2> DEFINE s0 == [i \in 1 .. 0 |-> NULL]
             c0 == [p \in Pri |-> 0]
  <2>1. TypeOK' /\ NoLostWakeup'
    BY <1>7 DEF Purge, TypeOK, Pointer, NoLostWakeup
  <2>2. Held'
    BY <1>7 DEF Purge, Held, TypeOK
  <2>3. Represents(0, s0, c0)' /\ Owned(0, s0)'
    BY <1>7 DEF Purge, Represents, Owned, Cell, Pri
  <2>4. WellFormed'
    BY <2>3, Zenon DEF WellFormed
  <2> QED
    BY <2>1, <2>2, <2>4
<1>8. ASSUME UNCHANGED vars PROVE IInv'
  <2>1. WellFormed'
    BY <1>8, SameList DEF vars
  <2>2. TypeOK' /\ Held' /\ NoLostWakeup'
    BY <1>8 DEF vars, TypeOK, Held, NoLostWakeup
  <2> QED
    BY <2>1, <2>2
<1> QED
  BY <1>1, <1>2, <1>3, <1>4, <1>5, <1>6, <1>7, <1>8 DEF Next, Step

\* Types follow, and a typed list is what Read needs to follow Head.
THEOREM TypeCorrect == Spec => []TypeOK
<1>1. IInv => TypeOK
  BY DEF IInv
<1> QED
  BY <1>1, InitInvariant, StepInvariant, PTL DEF Spec

\* The pointers always represent one list, of entries that are nobody else's.
THEOREM ListWellFormed == Spec => [](WellFormed /\ Held)
<1>1. IInv => WellFormed /\ Held
  BY DEF IInv
<1> QED
  BY <1>1, InitInvariant, StepInvariant, PTL DEF Spec

\* Events: no reader sleeps while there is something at its level or before.
THEOREM WakeupsReliable == Spec => []NoLostWakeup
<1>1. IInv => NoLostWakeup
  BY DEF IInv
<1> QED
  BY <1>1, InitInvariant, StepInvariant, PTL DEF Spec

\* The test of its own level tells Read whether anything is there for it.
THEOREM TailsAreCumulative == Spec => []TailsCumulative
<1>1. IInv => TailsCumulative
  <2> SUFFICES ASSUME IInv, NEW p \in Pri, NEW q \in Pri, p <= q, tail[p] # NULL
               PROVE  tail[q] # NULL
    BY DEF TailsCumulative
  <2>1. PICK n, s, c : n \in Nat /\ Represents(n, s, c)
    BY DEF IInv, WellFormed
  <2>2. c[p] <= c[q] /\ c[p] \in 0 .. n /\ c[q] \in 0 .. n
    BY <2>1 DEF Represents
  <2> QED
    BY <2>1, <2>2 DEF Represents, Cell
<1> QED
  BY <1>1, InitInvariant, StepInvariant, PTL DEF Spec

(***************************************************************************)
(* What the traversals of the list enumerate.                              *)
(***************************************************************************)

\* Following Next from Head visits the entries in order and then stays at NULL.
LEMMA NthIs ==
  \A n, s, c : n \in Nat /\ Count \in Nat /\ n <= Count /\ Represents(n, s, c) =>
     Nth = [i \in 1 .. Count + 1 |-> Cell(n, s, i)]
<1> SUFFICES ASSUME NEW n, NEW s, NEW c, n \in Nat, Count \in Nat, n <= Count, Represents(n, s, c)
             PROVE  Nth = [i \in 1 .. Count + 1 |-> Cell(n, s, i)]
  OBVIOUS
<1> DEFINE E(f) == [i \in 1 .. Count + 1 |->
                      IF i = 1 THEN head ELSE IF f[i - 1] = NULL THEN NULL ELSE next[f[i - 1]]]
           g == [i \in 1 .. Count + 1 |-> Cell(n, s, i)]
<1>1. \A i \in 1 .. Count + 1 : g[i] = IF i = 1 THEN head ELSE IF g[i - 1] = NULL THEN NULL ELSE next[g[i - 1]]
  <2>1. TAKE i \in 1 .. Count + 1
  <2>2. CASE i = 1
    <3>1. head = Cell(n, s, 1)
      BY DEF Represents
    <3> QED
      BY <2>2, <3>1
  <2>3. CASE i # 1
    <3>1. i - 1 \in 1 .. Count + 1 /\ g[i - 1] = Cell(n, s, i - 1)
      BY <2>3
    <3>2. CASE i - 1 \in 1 .. n
      <4>1. s[i - 1] \in Entries /\ next[s[i - 1]] = Cell(n, s, (i - 1) + 1)
        BY <3>2 DEF Represents
      <4> QED
        BY <2>3, <3>1, <3>2, <4>1 DEF Cell
    <3>3. CASE i - 1 \notin 1 .. n
      BY <2>3, <3>1, <3>3 DEF Cell
    <3> QED
      BY <3>2, <3>3
  <2> QED
    BY <2>2, <2>3
<1>2. ASSUME NEW f, f = E(f) PROVE f = g
  <2> DEFINE D == {i \in 1 .. Count + 1 : f[i] # g[i]}
  <2>1. CASE D = {}
    BY <1>2, <2>1
  <2>2. CASE D # {}
    <3>1. PICK i \in D : \A j \in D : i <= j
      <4>1. D \in SUBSET Nat
        OBVIOUS
      <4> HIDE DEF D
      <4> QED
        BY <2>2, <4>1, LeastElement
    <3>2. i # 1
      <4>1. CASE i = 1
        BY <1>1, <1>2, <3>1, <4>1
      <4> QED
        BY <4>1
    <3>3. i - 1 \in 1 .. Count + 1 /\ f[i - 1] = g[i - 1]
      <4>1. i \in 1 .. Count + 1 /\ i - 1 \in 1 .. Count + 1 /\ ~ (i <= i - 1)
        BY <3>1, <3>2
      <4> QED
        BY <3>1, <4>1
    <3>4. f[i] = IF f[i - 1] = NULL THEN NULL ELSE next[f[i - 1]]
      BY <1>2, <3>1, <3>2
    <3>5. f[i] = g[i]
      BY <1>1, <3>1, <3>2, <3>3, <3>4
    <3> QED
      BY <3>1, <3>5
  <2> QED
    BY <2>1, <2>2
<1>4. g = E(g)
  BY <1>1
<1>5. Nth = CHOOSE f : f = E(f)
  BY DEF Nth
<1> HIDE DEF E, g
<1> QED
  BY <1>2, <1>4, <1>5 DEF g

\* The first level that has more than the first i - 1 entries.
LevelOf(c, i) == CHOOSE q \in 0 .. Levels :
                   /\ q = Levels \/ c[q] >= i
                   /\ \A w \in 0 .. q - 1 : c[w] < i

\* There is such a level, or Levels when the list is shorter.
LEMMA LevelOfIs ==
  ASSUME NEW n \in Nat, NEW c \in [Pri -> 0 .. n], NEW i \in Nat
  PROVE  /\ LevelOf(c, i) \in 0 .. Levels
         /\ LevelOf(c, i) = Levels \/ c[LevelOf(c, i)] >= i
         /\ \A w \in 0 .. LevelOf(c, i) - 1 : c[w] < i
<1> DEFINE S == {q \in 0 .. Levels : q = Levels \/ c[q] >= i}
<1>1. PICK x \in S : \A y \in S : x <= y
  <2>1. S \in SUBSET Nat /\ Levels \in S
    OBVIOUS
  <2> HIDE DEF S
  <2> QED
    BY <2>1, LeastElement
<1>2. x \in 0 .. Levels /\ (x = Levels \/ c[x] >= i)
  BY <1>1
<1>3. \A w \in 0 .. x - 1 : c[w] < i
  <2>1. TAKE w \in 0 .. x - 1
  <2>2. w \in Pri /\ w \notin S
    BY <1>1, <1>2 DEF Pri
  <2>3. c[w] \in 0 .. n
    BY <2>2
  <2> QED
    BY <2>2, <2>3 DEF Pri
<1> QED
  BY <1>2, <1>3 DEF LevelOf

\* Only one level is the first.
LEMMA LevelOfFirst ==
  ASSUME NEW n \in Nat, NEW c \in [Pri -> 0 .. n], NEW i \in Nat,
         NEW q \in 0 .. Levels, q = Levels \/ c[q] >= i, \A w \in 0 .. q - 1 : c[w] < i
  PROVE  LevelOf(c, i) = q
<1> DEFINE l == LevelOf(c, i)
<1>1. l \in 0 .. Levels /\ (l = Levels \/ c[l] >= i) /\ \A w \in 0 .. l - 1 : c[w] < i
  BY LevelOfIs
<1> HIDE DEF l
<1>2. \A w \in 0 .. Levels : w # Levels => c[w] \in 0 .. n
  BY DEF Pri
<1>3. ~ (l < q)
  <2> SUFFICES ASSUME l < q PROVE FALSE
    OBVIOUS
  <2>1. l \in 0 .. q - 1 /\ l # Levels
    BY <1>1
  <2> QED
    BY <1>1, <1>2, <2>1
<1>4. ~ (q < l)
  <2> SUFFICES ASSUME q < l PROVE FALSE
    OBVIOUS
  <2>1. q \in 0 .. l - 1 /\ q # Levels
    BY <1>1
  <2> QED
    BY <1>1, <1>2, <2>1
<1> QED
  BY <1>1, <1>3, <1>4 DEF l

\* The loop of ForEach over the tails that equal the last entry ends at the
\* level of the next entry.
LEMMA SkipIs ==
  ASSUME NEW n \in Nat, NEW s, NEW c, Represents(n, s, c), NEW i \in Nat \ {0}
  PROVE  Skip(LevelOf(c, i - 1), Cell(n, s, i - 1)) = LevelOf(c, i)
<1> DEFINE l == LevelOf(c, i - 1)
           m == LevelOf(c, i)
           t == Cell(n, s, i - 1)
<1>1. /\ c \in [Pri -> 0 .. n]
      /\ s \in [1 .. n -> Entries]
      /\ \A p, q \in Pri : p <= q => c[p] <= c[q]
      /\ \A j, k \in 1 .. n : s[j] = s[k] => j = k
      /\ \A p \in Pri : tail[p] = Cell(n, s, c[p])
  BY DEF Represents
<1>2. l \in 0 .. Levels /\ (l = Levels \/ c[l] >= i - 1) /\ \A w \in 0 .. l - 1 : c[w] < i - 1
  <2>1. i - 1 \in Nat
    OBVIOUS
  <2> QED
    BY <1>1, <2>1, LevelOfIs
<1>3. m \in 0 .. Levels /\ (m = Levels \/ c[m] >= i) /\ \A w \in 0 .. m - 1 : c[w] < i
  BY <1>1, LevelOfIs
<1> HIDE DEF l, m
<1>4. \A w \in 0 .. Levels : w # Levels => w \in Pri /\ c[w] \in 0 .. n
  BY <1>1 DEF Pri
<1>5. l <= m
  <2> SUFFICES ASSUME m < l PROVE FALSE
    BY <1>2, <1>3
  <2>1. m \in 0 .. l - 1 /\ m # Levels
    BY <1>2, <1>3
  <2> QED
    BY <1>2, <1>3, <1>4, <2>1
<1>6. \A w \in l .. m - 1 : tail[w] = t
  <2>1. TAKE w \in l .. m - 1
  <2>2. w \in 0 .. Levels /\ w # Levels /\ l # Levels /\ w \in 0 .. m - 1 /\ l <= w
    BY <1>2, <1>3
  <2>3. w \in Pri /\ l \in Pri /\ c[w] \in 0 .. n /\ c[l] \in 0 .. n
    BY <1>2, <1>4, <2>2
  <2>4. c[l] <= c[w] /\ c[l] >= i - 1 /\ c[w] < i
    BY <1>1, <1>2, <1>3, <2>2, <2>3
  <2>5. c[w] = i - 1
    BY <2>3, <2>4
  <2> QED
    BY <1>1, <2>3, <2>5
<1>7. m = Levels \/ tail[m] # t
  <2> SUFFICES ASSUME m # Levels PROVE tail[m] # t
    OBVIOUS
  <2>1. m \in Pri /\ c[m] \in 1 .. n /\ c[m] >= i
    BY <1>3, <1>4
  <2>2. tail[m] = s[c[m]] /\ s[c[m]] \in Entries
    BY <1>1, <2>1 DEF Cell
  <2>3. CASE i - 1 \in 1 .. n
    BY <1>1, <2>1, <2>2, <2>3 DEF Cell
  <2>4. CASE i - 1 \notin 1 .. n
    BY <2>2, <2>4 DEF Cell
  <2> QED
    BY <2>3, <2>4
<1> HIDE DEF t
<1>8. ASSUME NEW q \in l .. Levels, q = Levels \/ tail[q] # t, \A w \in l .. q - 1 : tail[w] = t
      PROVE  q = m
  <2>1. ~ (q < m)
    <3> SUFFICES ASSUME q < m PROVE FALSE
      OBVIOUS
    <3>1. q \in l .. m - 1 /\ q # Levels
      BY <1>2, <1>3
    <3> QED
      BY <1>6, <1>8, <3>1
  <2>2. ~ (m < q)
    <3> SUFFICES ASSUME m < q PROVE FALSE
      OBVIOUS
    <3>1. m \in l .. q - 1 /\ m # Levels
      BY <1>2, <1>3, <1>5
    <3> QED
      BY <1>7, <1>8, <3>1
  <2> QED
    BY <1>2, <1>3, <2>1, <2>2
<1>9. m \in l .. Levels
  BY <1>2, <1>3, <1>5
<1>10. Skip(l, t) = m
  BY <1>6, <1>7, <1>8, <1>9 DEF Skip
<1> QED
  BY <1>10 DEF l, m, t

\* The level ForEach reports is the one the counts give the entry.
LEMMA LevelAtIs ==
  ASSUME NEW n \in Nat, NEW s, NEW c, Represents(n, s, c), Count \in Nat, n <= Count
  PROVE  LevelAt = [i \in 1 .. Count |-> LevelOf(c, i)]
<1> DEFINE E(f) == [i \in 1 .. Count |->
                      IF i = 1 THEN Skip(0, NULL) ELSE Skip(f[i - 1], Nth[i - 1])]
           g == [i \in 1 .. Count |-> LevelOf(c, i)]
<1>1. \A i \in 1 .. Count : g[i] = IF i = 1 THEN Skip(0, NULL) ELSE Skip(g[i - 1], Nth[i - 1])
  <2>1. TAKE i \in 1 .. Count
  <2>2. Skip(LevelOf(c, i - 1), Cell(n, s, i - 1)) = g[i]
    BY SkipIs
  <2>3. CASE i = 1
    <3>1. c \in [Pri -> 0 .. n]
      BY DEF Represents
    <3>2. c[0] >= 0 /\ 0 \in Pri /\ 0 \in 0 .. Levels
      BY <3>1 DEF Pri
    <3>3. LevelOf(c, 0) = 0
      BY <3>1, <3>2, LevelOfFirst
    <3> QED
      BY <2>2, <2>3, <3>3 DEF Cell
  <2>4. CASE i # 1
    <3>1. g[i - 1] = LevelOf(c, i - 1)
      BY <2>4
    <3>2. Nth[i - 1] = Cell(n, s, i - 1)
      BY <2>4, NthIs
    <3> QED
      BY <2>2, <2>4, <3>1, <3>2
  <2> QED
    BY <2>3, <2>4
<1>2. ASSUME NEW f, f = E(f) PROVE f = g
  <2> DEFINE D == {i \in 1 .. Count : f[i] # g[i]}
  <2>1. CASE D = {}
    BY <1>2, <2>1
  <2>2. CASE D # {}
    <3>1. PICK i \in D : \A j \in D : i <= j
      <4>1. D \in SUBSET Nat
        OBVIOUS
      <4> HIDE DEF D
      <4> QED
        BY <2>2, <4>1, LeastElement
    <3>2. i # 1
      <4>1. CASE i = 1
        BY <1>1, <1>2, <3>1, <4>1
      <4> QED
        BY <4>1
    <3>3. i - 1 \in 1 .. Count /\ f[i - 1] = g[i - 1]
      <4>1. i \in 1 .. Count /\ i - 1 \in 1 .. Count /\ ~ (i <= i - 1)
        BY <3>1, <3>2
      <4> QED
        BY <3>1, <4>1
    <3>4. f[i] = Skip(f[i - 1], Nth[i - 1])
      BY <1>2, <3>1, <3>2
    <3>5. f[i] = g[i]
      BY <1>1, <3>1, <3>2, <3>3, <3>4
    <3> QED
      BY <3>1, <3>5
  <2> QED
    BY <2>1, <2>2
<1>3. g = E(g)
  BY <1>1
<1>4. LevelAt = CHOOSE f : f = E(f)
  BY DEF LevelAt
<1> HIDE DEF E, g
<1> QED
  BY <1>2, <1>3, <1>4 DEF g

\* The list as the abstract queue has it.
Slots(n, s, c) == [i \in 1 .. n |-> [item |-> s[i], level |-> LevelOf(c, i)]]

\* The list cannot be longer than the heap.
LEMMA ListFits ==
  ASSUME IsFiniteSet(Entries), NEW n \in Nat, NEW s \in [1 .. n -> Entries],
         \A i, j \in 1 .. n : s[i] = s[j] => i = j
  PROVE  Count \in Nat /\ n <= Count
<1>1. IsFiniteSet(1 .. n) /\ Cardinality(1 .. n) = n
  <2>1. 0 + 1 .. n = 1 .. n
    OBVIOUS
  <2> QED
    BY FS_Interval
<1>2. s \in Injection(1 .. n, Entries)
  BY DEF Injection, IsInjective
<1> QED
  BY <1>1, <1>2, FS_Injection, FS_CardinalityType DEF Count, ExistsInjection

\* ForEach enumerates the list that the pointers represent.  It is stated with
\* its variables bound, so that it holds of the next state as well.
LEMMA ForEachIs ==
  \A n, s, c : IsFiniteSet(Entries) /\ n \in Nat /\ Represents(n, s, c) =>
    /\ Positions = 1 .. n
    /\ ForEach = Slots(n, s, c)
    /\ \A i \in 1 .. n : Nth[i] = s[i] /\ LevelAt[i] = LevelOf(c, i)
<1> SUFFICES ASSUME NEW n \in Nat, NEW s, NEW c, IsFiniteSet(Entries), Represents(n, s, c)
             PROVE  /\ Positions = 1 .. n
                    /\ ForEach = Slots(n, s, c)
                    /\ \A i \in 1 .. n : Nth[i] = s[i] /\ LevelAt[i] = LevelOf(c, i)
  OBVIOUS
<1>1. s \in [1 .. n -> Entries] /\ \A i, j \in 1 .. n : s[i] = s[j] => i = j
  BY DEF Represents
<1>2. Count \in Nat /\ n <= Count
  BY <1>1, ListFits
<1>3. Nth = [i \in 1 .. Count + 1 |-> Cell(n, s, i)]
  BY <1>2, NthIs
<1>4. LevelAt = [i \in 1 .. Count |-> LevelOf(c, i)]
  BY <1>2, LevelAtIs
<1>5. Positions = 1 .. n
  BY <1>1, <1>2, <1>3 DEF Positions, Cell
<1>6. \A i \in 1 .. n : Nth[i] = s[i] /\ LevelAt[i] = LevelOf(c, i)
  BY <1>1, <1>2, <1>3, <1>4 DEF Cell
<1>7. ForEach = Slots(n, s, c)
  BY <1>5, <1>6 DEF ForEach, Slots
<1> QED
  BY <1>5, <1>6, <1>7

\* The elements of a sequence with one inserted.
LEMMA InsertAtIs ==
  ASSUME NEW S, NEW q \in Seq(S), NEW k \in 0 .. Len(q), NEW x \in S
  PROVE  Abstract!InsertAt(q, k + 1, x)
           = [i \in 1 .. Len(q) + 1 |-> IF i <= k THEN q[i] ELSE IF i = k + 1 THEN x ELSE q[i - 1]]
<1> DEFINE A == SubSeq(q, 1, k)
           B == SubSeq(q, k + 1, Len(q))
           C == A \o <<x>>
           D == C \o B
<1>1. A \in Seq(S) /\ Len(A) = k /\ \A i \in 1 .. k : A[i] = q[i]
  OBVIOUS
<1>2. B \in Seq(S) /\ Len(B) = Len(q) - k /\ \A i \in 1 .. Len(q) - k : B[i] = q[k + i]
  OBVIOUS
<1>3. Abstract!InsertAt(q, k + 1, x) = D
  <2>1. (k + 1) - 1 = k
    OBVIOUS
  <2>2. Abstract!InsertAt(q, k + 1, x)
          = SubSeq(q, 1, (k + 1) - 1) \o <<x>> \o SubSeq(q, k + 1, Len(q))
    BY Zenon DEF Abstract!InsertAt
  <2> QED
    BY <2>1, <2>2, Zenon
<1> HIDE DEF A, B
<1>4. C \in Seq(S) /\ Len(C) = k + 1 /\ \A i \in 1 .. k + 1 : C[i] = IF i <= k THEN q[i] ELSE x
  BY <1>1
<1> HIDE DEF C
<1>5. /\ D \in Seq(S)
      /\ Len(D) = Len(C) + Len(B)
      /\ \A i \in 1 .. Len(C) + Len(B) : D[i] = IF i <= Len(C) THEN C[i] ELSE B[i - Len(C)]
  BY <1>2, <1>4, ConcatProperties
<1> HIDE DEF D
<1>6. Len(C) = k + 1 /\ Len(C) + Len(B) = Len(q) + 1 /\ Len(D) = Len(q) + 1
  <2>1. Len(C) = k + 1 /\ Len(B) = Len(q) - k /\ Len(q) \in Nat
    BY <1>2, <1>4
  <2>2. (k + 1) + (Len(q) - k) = Len(q) + 1
    BY <2>1
  <2> QED
    BY <1>5, <2>1, <2>2, Zenon
<1>9. \A i \in 1 .. Len(q) + 1 : D[i] = IF i <= k + 1 THEN C[i] ELSE B[i - (k + 1)]
  BY <1>5, <1>6, Zenon
<1>7. \A i \in 1 .. Len(q) + 1 : D[i] = IF i <= k THEN q[i] ELSE IF i = k + 1 THEN x ELSE q[i - 1]
  <2>1. TAKE i \in 1 .. Len(q) + 1
  <2>2. CASE i <= k + 1
    BY <1>4, <1>9, <2>2
  <2>3. CASE i > k + 1
    <3>1. i - (k + 1) \in 1 .. Len(q) - k /\ k + (i - (k + 1)) = i - 1
      BY <2>3
    <3>2. D[i] = B[i - (k + 1)]
      BY <1>9, <2>3
    <3>3. B[i - (k + 1)] = q[i - 1]
      BY <1>2, <3>1
    <3> QED
      BY <2>3, <3>2, <3>3
  <2> QED
    BY <2>2, <2>3
<1>8. D = [i \in 1 .. Len(q) + 1 |-> D[i]]
  BY <1>5, <1>6
<1> QED
  BY <1>3, <1>7, <1>8

\* Instantiation gives the operators of FiniteSets names of their own.
LEMMA CardinalityIs == \A S : Abstract!Cardinality(S) = Cardinality(S)
  BY DEF Abstract!Cardinality, Cardinality

\* The slots below a level are as many as the counts say.
LEMMA BeforeIs ==
  ASSUME NEW n \in Nat, NEW s, NEW c \in [Pri -> 0 .. n], 
         \A p, q \in Pri : p <= q => c[p] <= c[q], NEW b \in 0 .. Levels
  PROVE  Abstract!Before(Slots(n, s, c), b) = IF b = 0 THEN 0 ELSE c[b - 1]
<1> DEFINE k == IF b = 0 THEN 0 ELSE c[b - 1]
<1>1. k \in 0 .. n
  BY DEF Pri
<1>2. \A i \in 1 .. n : LevelOf(c, i) < b <=> i <= k
  <2>1. TAKE i \in 1 .. n
  <2>2. /\ LevelOf(c, i) \in 0 .. Levels
        /\ LevelOf(c, i) = Levels \/ c[LevelOf(c, i)] >= i
        /\ \A w \in 0 .. LevelOf(c, i) - 1 : c[w] < i
    BY LevelOfIs
  <2>3. CASE LevelOf(c, i) < b
    <3>1. LevelOf(c, i) \in Pri /\ b - 1 \in Pri /\ LevelOf(c, i) <= b - 1
      BY <2>2, <2>3 DEF Pri
    <3>2. c[LevelOf(c, i)] <= c[b - 1] /\ c[LevelOf(c, i)] \in 0 .. n /\ c[b - 1] \in 0 .. n
      BY <3>1
    <3> QED
      BY <2>2, <2>3, <3>1, <3>2
  <2>4. CASE ~ (LevelOf(c, i) < b)
    <3>1. CASE b = 0
      BY <3>1, <2>4
    <3>2. CASE b # 0
      <4>1. b - 1 \in 0 .. LevelOf(c, i) - 1 /\ b - 1 \in Pri
        BY <2>2, <2>4, <3>2 DEF Pri
      <4> QED
        BY <2>2, <2>4, <3>2, <4>1
    <3> QED
      BY <3>1, <3>2
  <2> QED
    BY <2>3, <2>4
<1> HIDE DEF k
<1>3. {i \in DOMAIN Slots(n, s, c) : Slots(n, s, c)[i].level < b} = 1 .. k
  BY <1>1, <1>2 DEF Slots
<1>4. Cardinality(1 .. k) = k
  BY <1>1, FS_Interval
<1> QED
  BY <1>3, <1>4, CardinalityIs DEF Abstract!Before, k

(***************************************************************************)
(* Linking and unlinking in terms of the abstract queue.                   *)
(***************************************************************************)

\* The level of the i-th entry of the longer list.
LongerLevel(c, p, k, i) ==
  IF i <= k THEN LevelOf(c, i) ELSE IF i = k + 1 THEN p ELSE LevelOf(c, i - 1)

\* Where the entries of the longer list are reported.
LEMMA LevelOfLonger ==
  ASSUME NEW n \in Nat, NEW c \in [Pri -> 0 .. n],
         NEW p \in Pri, NEW k \in 0 .. n,
         \A q \in Pri : p <= q => k <= c[q],
         \A q \in Pri : q < p => c[q] <= k,
         NEW i \in 1 .. n + 1
  PROVE  LevelOf(Longer(c, p), i) = LongerLevel(c, p, k, i)
<1> USE DEF LongerLevel
<1> DEFINE d == Longer(c, p)
<1>1. \A q \in Pri : c[q] \in 0 .. n
  OBVIOUS
<1>2. d \in [Pri -> 0 .. n + 1] /\ \A q \in Pri : d[q] = IF p <= q THEN c[q] + 1 ELSE c[q]
  BY <1>1 DEF Longer
<1>3. p \in 0 .. Levels /\ p # Levels /\ p \in Nat
  BY DEF Pri
<1> HIDE DEF d
<1>4. CASE i <= k
  <2> DEFINE l == LevelOf(c, i)
  <2>1. /\ l \in 0 .. Levels
        /\ l = Levels \/ c[l] >= i
        /\ \A w \in 0 .. l - 1 : c[w] < i
    BY LevelOfIs
  <2> HIDE DEF l
  <2>2. l <= p
    <3> SUFFICES ASSUME p < l PROVE FALSE
      BY <1>3, <2>1
    <3>1. p \in 0 .. l - 1
      BY <1>3, <2>1
    <3>2. c[p] < i /\ k <= c[p] /\ c[p] \in 0 .. n
      BY <1>1, <1>3, <2>1, <3>1
    <3> QED
      BY <1>4, <3>2
  <2>3. l \in Pri /\ d[l] >= i
    <3>1. l \in Pri /\ c[l] >= i
      BY <1>3, <2>1, <2>2 DEF Pri
    <3> QED
      BY <1>1, <1>2, <3>1
  <2>4. \A w \in 0 .. l - 1 : d[w] < i
    <3>1. TAKE w \in 0 .. l - 1
    <3>2. w \in Pri /\ ~ (p <= w)
      BY <1>3, <2>1, <2>2 DEF Pri
    <3> QED
      BY <1>2, <2>1, <3>2
  <2>5. LevelOf(d, i) = l
    BY <1>2, <2>1, <2>3, <2>4, LevelOfFirst
  <2> QED
    BY <1>4, <2>5 DEF d, l
<1>5. CASE i = k + 1
  <2>1. d[p] >= i
    BY <1>1, <1>2, <1>3, <1>5
  <2>2. \A w \in 0 .. p - 1 : d[w] < i
    <3>1. TAKE w \in 0 .. p - 1
    <3>2. w \in Pri /\ w < p /\ ~ (p <= w)
      BY <1>3 DEF Pri
    <3>3. c[w] <= k /\ c[w] \in 0 .. n /\ d[w] = c[w]
      BY <1>1, <1>2, <3>2
    <3> QED
      BY <1>5, <3>3
  <2>3. LevelOf(d, i) = p
    BY <1>2, <1>3, <2>1, <2>2, LevelOfFirst
  <2> QED
    BY <1>5, <2>3 DEF d
<1>6. CASE i > k + 1
  <2> DEFINE l == LevelOf(c, i - 1)
  <2>1. /\ l \in 0 .. Levels
        /\ l = Levels \/ c[l] >= i - 1
        /\ \A w \in 0 .. l - 1 : c[w] < i - 1
    <3>1. i - 1 \in Nat
      OBVIOUS
    <3> QED
      BY <3>1, LevelOfIs
  <2> HIDE DEF l
  <2>2. p <= l
    <3> SUFFICES ASSUME l < p PROVE FALSE
      BY <1>3, <2>1
    <3>1. l \in Pri /\ c[l] <= k /\ c[l] \in 0 .. n /\ c[l] >= i - 1
      BY <1>1, <1>3, <2>1 DEF Pri
    <3> QED
      BY <1>6, <3>1
  <2>3. l = Levels \/ d[l] >= i
    <3> SUFFICES ASSUME l # Levels PROVE d[l] >= i
      OBVIOUS
    <3>1. l \in Pri
      BY <2>1 DEF Pri
    <3>2. d[l] = c[l] + 1 /\ c[l] \in 0 .. n /\ c[l] >= i - 1
      BY <1>1, <1>2, <2>1, <2>2, <3>1
    <3> QED
      BY <3>2
  <2>4. \A w \in 0 .. l - 1 : d[w] < i
    <3>1. TAKE w \in 0 .. l - 1
    <3>2. w \in Pri
      BY <2>1 DEF Pri
    <3>3. c[w] \in 0 .. n /\ c[w] < i - 1 /\ (d[w] = c[w] + 1 \/ d[w] = c[w])
      BY <1>1, <1>2, <2>1, <3>2
    <3> QED
      BY <3>3
  <2>5. LevelOf(d, i) = l
    BY <1>2, <2>1, <2>3, <2>4, LevelOfFirst
  <2> QED
    BY <1>6, <2>5 DEF d, l
<1> QED
  BY <1>4, <1>5, <1>6

\* Without the head, each entry keeps its level.
LEMMA LevelOfShorter ==
  ASSUME NEW n \in Nat, n > 0, NEW c \in [Pri -> 0 .. n], NEW i \in 1 .. n - 1
  PROVE  LevelOf(Shorter(c), i) = LevelOf(c, i + 1)
<1> DEFINE d == Shorter(c)
           l == LevelOf(c, i + 1)
<1>1. \A q \in Pri : c[q] \in 0 .. n
  OBVIOUS
<1>2. d \in [Pri -> 0 .. n] /\ \A q \in Pri : d[q] = IF c[q] = 0 THEN 0 ELSE c[q] - 1
  BY <1>1 DEF Shorter
<1>3. /\ l \in 0 .. Levels
      /\ l = Levels \/ c[l] >= i + 1
      /\ \A w \in 0 .. l - 1 : c[w] < i + 1
  <2>1. i + 1 \in Nat
    OBVIOUS
  <2> QED
    BY <2>1, LevelOfIs
<1> HIDE DEF d, l
<1>4. l = Levels \/ d[l] >= i
  <2> SUFFICES ASSUME l # Levels PROVE d[l] >= i
    OBVIOUS
  <2>1. l \in Pri
    BY <1>3 DEF Pri
  <2>2. c[l] \in 0 .. n /\ c[l] >= i + 1
    BY <1>1, <1>3, <2>1
  <2> QED
    BY <1>2, <2>1, <2>2
<1>5. \A w \in 0 .. l - 1 : d[w] < i
  <2>1. TAKE w \in 0 .. l - 1
  <2>2. w \in Pri
    BY <1>3 DEF Pri
  <2>3. c[w] \in 0 .. n /\ c[w] < i + 1
    BY <1>1, <1>3, <2>2
  <2> QED
    BY <1>2, <2>2, <2>3
<1>6. LevelOf(d, i) = l
  <2>1. i \in Nat
    OBVIOUS
  <2> QED
    BY <1>2, <1>3, <1>4, <1>5, <2>1, LevelOfFirst
<1> QED
  BY <1>6 DEF d, l

SlotSet == [item : Entries, level : 0 .. Levels]

\* The slots are a sequence.
LEMMA SlotsSeq ==
  ASSUME NEW n \in Nat, NEW s \in [1 .. n -> Entries], NEW c \in [Pri -> 0 .. n]
  PROVE  Slots(n, s, c) \in Seq(SlotSet) /\ Len(Slots(n, s, c)) = n
<1>1. \A i \in 1 .. n : LevelOf(c, i) \in 0 .. Levels
  <2>1. TAKE i \in 1 .. n
  <2>2. i \in Nat
    OBVIOUS
  <2> QED
    BY <2>2, LevelOfIs
<1>2. \A i \in 1 .. n : [item |-> s[i], level |-> LevelOf(c, i)] \in SlotSet
  BY <1>1 DEF SlotSet
<1> DEFINE q == [i \in 1 .. n |-> [item |-> s[i], level |-> LevelOf(c, i)]]
<1>3. q \in [1 .. n -> SlotSet]
  BY <1>2
<1> HIDE DEF q
<1>4. q \in Seq(SlotSet) /\ Len(q) = n
  BY <1>3
<1> QED
  BY <1>4 DEF q, Slots

\* Position k divides the levels below p from those at p and above.
Divides(c, p, k) ==
  /\ \A q \in Pri : p <= q => k <= c[q]
  /\ \A q \in Pri : q < p => c[q] <= k

\* The slot of e is inserted behind position k.
SlotInserted(n, s, c, p, k, e) ==
  Abstract!InsertAt(Slots(n, s, c), k + 1, [item |-> e, level |-> p])
    = Slots(n + 1, Inserted(n, s, k, e), Longer(c, p))

\* Linking an entry in is inserting its slot.
LEMMA LinkSlots ==
  ASSUME NEW n \in Nat, NEW s \in [1 .. n -> Entries], NEW c \in [Pri -> 0 .. n],
         NEW p \in Pri, NEW k \in 0 .. n, Divides(c, p, k),
         NEW e \in Entries
  PROVE  SlotInserted(n, s, c, p, k, e)
<1>0. \A i \in 1 .. n + 1 : LevelOf(Longer(c, p), i) = LongerLevel(c, p, k, i)
  BY LevelOfLonger DEF Divides
<1> DEFINE q == Slots(n, s, c)
           x == [item |-> e, level |-> p]
<1>1. q \in Seq(SlotSet) /\ Len(q) = n
  BY SlotsSeq
<1>2. x \in SlotSet
  BY DEF SlotSet, Pri
<1>3. \A i \in 1 .. n : q[i] = [item |-> s[i], level |-> LevelOf(c, i)]
  BY DEF Slots
<1> HIDE DEF q
<1>4. Abstract!InsertAt(q, k + 1, x)
        = [i \in 1 .. n + 1 |-> IF i <= k THEN q[i] ELSE IF i = k + 1 THEN x ELSE q[i - 1]]
  <2>1. k \in 0 .. Len(q)
    BY <1>1
  <2> HIDE DEF x
  <2>2. Abstract!InsertAt(q, k + 1, x)
        = [i \in 1 .. Len(q) + 1 |-> IF i <= k THEN q[i] ELSE IF i = k + 1 THEN x ELSE q[i - 1]]
    <3>1. q \in Seq(SlotSet) /\ k \in 0 .. Len(q) /\ x \in SlotSet
      BY <1>1, <1>2, <2>1
    <3> HIDE DEF SlotSet
    <3> QED
      BY <3>1, InsertAtIs
  <2> QED
    BY <1>1, <2>2
<1>5. ASSUME NEW i \in 1 .. n + 1
      PROVE  (IF i <= k THEN q[i] ELSE IF i = k + 1 THEN x ELSE q[i - 1])
               = [item |-> Inserted(n, s, k, e)[i], level |-> LevelOf(Longer(c, p), i)]
  <2>1. LevelOf(Longer(c, p), i)
           = IF i <= k THEN LevelOf(c, i) ELSE IF i = k + 1 THEN p ELSE LevelOf(c, i - 1)
    BY <1>0 DEF LongerLevel
  <2>2. Inserted(n, s, k, e)[i]
           = IF i <= k THEN s[i] ELSE IF i = k + 1 THEN e ELSE s[i - 1]
    BY DEF Inserted
  <2>3. CASE i <= k
    <3>1. i \in 1 .. n
      BY <2>3
    <3>2. q[i] = [item |-> s[i], level |-> LevelOf(c, i)]
      BY <1>3, <3>1
    <3> QED
      BY <2>1, <2>2, <2>3, <3>2
  <2>4. CASE i = k + 1
    BY <2>1, <2>2, <2>4
  <2>5. CASE i > k + 1
    <3>1. i - 1 \in 1 .. n
      BY <2>5
    <3> QED
      BY <1>3, <2>1, <2>2, <2>5, <3>1
  <2> QED
    BY <2>3, <2>4, <2>5
<1>6. Slots(n + 1, Inserted(n, s, k, e), Longer(c, p))
        = [i \in 1 .. n + 1 |->
             [item |-> Inserted(n, s, k, e)[i], level |-> LevelOf(Longer(c, p), i)]]
  BY DEF Slots
<1>7. [i \in 1 .. n + 1 |-> IF i <= k THEN q[i] ELSE IF i = k + 1 THEN x ELSE q[i - 1]]
        = Slots(n + 1, Inserted(n, s, k, e), Longer(c, p))
  BY <1>5, <1>6, Zenon
<1> QED
  BY <1>4, <1>7, Zenon DEF q, SlotInserted

\* Unlinking the head is dropping its slot.
LEMMA TakeSlots ==
  ASSUME NEW n \in Nat, n > 0, NEW s \in [1 .. n -> Entries], NEW c \in [Pri -> 0 .. n]
  PROVE  /\ Slots(n, s, c) # <<>>
         /\ Head(Slots(n, s, c)) = [item |-> s[1], level |-> LevelOf(c, 1)]
         /\ Tail(Slots(n, s, c)) = Slots(n - 1, Shifted(n, s), Shorter(c))
<1> DEFINE q == Slots(n, s, c)
<1>1. q \in Seq(SlotSet) /\ Len(q) = n
  BY SlotsSeq
<1>2. \A i \in 1 .. n : q[i] = [item |-> s[i], level |-> LevelOf(c, i)]
  BY DEF Slots
<1> HIDE DEF q
<1>3. q # <<>>
  BY <1>1
<1>4. Head(q) = q[1]
  BY <1>1, <1>3
<1> DEFINE t == Tail(q)
<1>5. t \in Seq(SlotSet) /\ Len(t) = n - 1 /\ \A i \in 1 .. n - 1 : t[i] = q[i + 1]
  BY <1>1, <1>3, HeadTailProperties
<1> HIDE DEF t
<1>6. t = [i \in 1 .. n - 1 |-> t[i]]
  BY <1>5
<1>7. ASSUME NEW i \in 1 .. n - 1
      PROVE  t[i] = [item |-> Shifted(n, s)[i], level |-> LevelOf(Shorter(c), i)]
  <2>1. i + 1 \in 1 .. n
    OBVIOUS
  <2>2. LevelOf(Shorter(c), i) = LevelOf(c, i + 1)
    BY LevelOfShorter
  <2>3. Shifted(n, s)[i] = s[i + 1]
    BY DEF Shifted
  <2> QED
    BY <1>2, <1>5, <2>1, <2>2, <2>3
<1>8. Slots(n - 1, Shifted(n, s), Shorter(c))
        = [i \in 1 .. n - 1 |-> [item |-> Shifted(n, s)[i], level |-> LevelOf(Shorter(c), i)]]
  BY DEF Slots
<1>9. t = Slots(n - 1, Shifted(n, s), Shorter(c))
  BY <1>6, <1>7, <1>8
<1>10. q[1] = [item |-> s[1], level |-> LevelOf(c, 1)]
  BY <1>2
<1> QED
  BY <1>3, <1>4, <1>9, <1>10, Zenon DEF q, t

(***************************************************************************)
(* The queue implements the abstract list.                                 *)
(***************************************************************************)

\* ForEachIs for one representation, in this state and in the next.
LEMMA ForEachNow ==
  ASSUME NEW n \in Nat, NEW s, NEW c, Represents(n, s, c)
  PROVE  ForEach = Slots(n, s, c)
  BY EntriesAssumption, ForEachIs

\* ForEachIs in the next state.
LEMMA ForEachPrimed ==
  (\A n, s, c : IsFiniteSet(Entries) /\ n \in Nat /\ Represents(n, s, c) =>
     /\ Positions = 1 .. n
     /\ ForEach = Slots(n, s, c)
     /\ \A i \in 1 .. n : Nth[i] = s[i] /\ LevelAt[i] = LevelOf(c, i))'
  BY ForEachIs, PTL

\* Its use for one representation.
LEMMA ForEachNext ==
  ASSUME NEW n \in Nat, NEW s, NEW c, Represents(n, s, c)'
  PROVE  ForEach' = Slots(n, s, c)
  BY ForEachPrimed, EntriesAssumption

\* What the abstract queue holds.
LEMMA QueuedIs ==
  ASSUME NEW n \in Nat, NEW s, NEW c, Represents(n, s, c)
  PROVE  Abstract!Queued = {s[i] : i \in 1 .. n}
<1>1. ForEach = Slots(n, s, c)
  BY ForEachNow
<1> QED
  BY <1>1 DEF Abstract!Queued, Slots

\* Linking an entry in, seen through ForEach.
LEMMA LinkStep ==
  ASSUME TypeOK, NEW n \in Nat, NEW s, NEW c, Represents(n, s, c),
         NEW p \in Pri, NEW k \in 0 .. n, Divides(c, p, k),
         NEW e \in Entries, \A i \in 1 .. n : s[i] # e,
         Link(e, p, Cell(n, s, k))
  PROVE  ForEach' = Abstract!InsertAt(ForEach, k + 1, [item |-> e, level |-> p])
<1>1. Represents(n + 1, Inserted(n, s, k, e), Longer(c, p))'
  BY LinkRepresents DEF TypeOK, Divides
<1>2. ForEach' = Slots(n + 1, Inserted(n, s, k, e), Longer(c, p))
  <2>1. n + 1 \in Nat
    OBVIOUS
  <2> DEFINE s1 == Inserted(n, s, k, e)
             c1 == Longer(c, p)
  <2> HIDE DEF s1, c1
  <2>2. Represents(n + 1, s1, c1)'
    BY <1>1 DEF s1, c1
  <2> QED
    BY <2>1, <2>2, ForEachNext DEF s1, c1
<1>3. ForEach = Slots(n, s, c)
  BY ForEachNow
<1>4. s \in [1 .. n -> Entries] /\ c \in [Pri -> 0 .. n]
  BY DEF Represents
<1>5. Abstract!InsertAt(Slots(n, s, c), k + 1, [item |-> e, level |-> p])
        = Slots(n + 1, Inserted(n, s, k, e), Longer(c, p))
  <2>1. SlotInserted(n, s, c, p, k, e)
    BY <1>4, LinkSlots
  <2> QED
    BY <2>1 DEF SlotInserted
<1> QED
  BY <1>2, <1>3, <1>5

\* Write appends behind its level: tail[p] is the last entry of the levels up to
\* p, so what the abstract queue counts below p + 1 is where Write links.
LEMMA WriteRefines ==
  ASSUME IInv, NEW e \in Entries, NEW p \in Pri, Write(e, p)
  PROVE  Abstract!Write(e, p)
<1>1. PICK n, s, c : n \in Nat /\ Represents(n, s, c) /\ Owned(n, s)
  BY DEF IInv, WellFormed
<1>2. /\ c \in [Pri -> 0 .. n]
      /\ \A q, w \in Pri : q <= w => c[q] <= c[w]
      /\ tail[p] = Cell(n, s, c[p])
      /\ s \in [1 .. n -> Entries]
  BY <1>1 DEF Represents
<1>3. e \in free /\ held' = held /\ Link(e, p, tail[p])
  BY DEF Write, LinkBehind
<1>4. \A i \in 1 .. n : s[i] # e
  BY <1>1, <1>3 DEF Owned
<1>5. \A r \in Readers : held[r] # e
  BY <1>3 DEF IInv, Held
<1>6. ForEach' = Abstract!InsertAt(ForEach, c[p] + 1, [item |-> e, level |-> p])
  <2>1. c[p] \in 0 .. n /\ (\A q \in Pri : p <= q => c[p] <= c[q]) /\ (\A q \in Pri : q < p => c[q] <= c[p])
    BY <1>2 DEF Pri
  <2>2. TypeOK
    BY DEF IInv
  <2> DEFINE k == c[p]
  <2>3. k \in 0 .. n /\ (\A q \in Pri : p <= q => k <= c[q]) /\ (\A q \in Pri : q < p => c[q] <= k)
        /\ Link(e, p, Cell(n, s, k))
    BY <1>2, <1>3, <2>1
  <2> HIDE DEF k
  <2>4. ForEach' = Abstract!InsertAt(ForEach, k + 1, [item |-> e, level |-> p])
    BY <1>1, <1>4, <2>2, <2>3, LinkStep DEF Divides
  <2> QED
    BY <2>4 DEF k
<1>7. Abstract!Before(ForEach, p + 1) = c[p]
  <2>1. p + 1 \in 0 .. Levels /\ p + 1 # 0 /\ (p + 1) - 1 = p
    BY DEF Pri
  <2> DEFINE b == p + 1
  <2> HIDE DEF b
  <2>2. b \in 0 .. Levels /\ b # 0 /\ b - 1 = p
    BY <2>1 DEF b
  <2>3. Abstract!Before(Slots(n, s, c), b) = IF b = 0 THEN 0 ELSE c[b - 1]
    BY <1>1, <1>2, <2>2, BeforeIs
  <2>4. ForEach = Slots(n, s, c)
    BY <1>1, ForEachNow
  <2> QED
    BY <2>2, <2>3, <2>4 DEF b
<1>8. e \notin Abstract!Queued
  <2>1. Abstract!Queued = {s[i] : i \in 1 .. n}
    BY <1>1, QueuedIs
  <2> QED
    BY <1>4, <2>1
<1>9. ForEach' = Abstract!Behind(ForEach, e, p)
  BY <1>6, <1>7 DEF Abstract!Behind
<1> QED
  BY <1>3, <1>5, <1>8, <1>9 DEF Abstract!Write

\* WriteFront puts back in front of its level, behind the levels before it.
LEMMA WriteFrontRefines ==
  ASSUME IInv, NEW r \in Readers, NEW p \in Pri, WriteFront(r, p)
  PROVE  held[r] \in Entries /\ Abstract!WriteFront(held[r], p)
<1>1. PICK n, s, c : n \in Nat /\ Represents(n, s, c) /\ Owned(n, s)
  BY DEF IInv, WellFormed
<1>2. /\ c \in [Pri -> 0 .. n]
      /\ \A q, w \in Pri : q <= w => c[q] <= c[w]
      /\ \A q \in Pri : tail[q] = Cell(n, s, c[q])
      /\ s \in [1 .. n -> Entries]
  BY <1>1 DEF Represents
<1>3. PICK e \in Entries : e = held[r]
  BY DEF WriteFront, IInv, TypeOK, Held, Pointer
<1>4. /\ held' = [held EXCEPT ![r] = NULL]
      /\ Link(e, p, IF p = 0 THEN NULL ELSE tail[p - 1])
  BY <1>3 DEF WriteFront, LinkInFront
<1>5. \A i \in 1 .. n : s[i] # e
  BY <1>1, <1>3 DEF Owned
<1> DEFINE k == IF p = 0 THEN 0 ELSE c[p - 1]
<1>6. ForEach' = Abstract!InsertAt(ForEach, k + 1, [item |-> e, level |-> p])
  <2>1. p # 0 => p - 1 \in Pri
    BY DEF Pri
  <2>2. \A q \in Pri : c[q] \in 0 .. n
    BY <1>2
  <2>3. k \in 0 .. n
    BY <1>1, <2>1, <2>2
  <2>4. \A q \in Pri : p <= q => k <= c[q]
    BY <1>2, <2>1, <2>2 DEF Pri
  <2>5. \A q \in Pri : q < p => c[q] <= k
    BY <1>2, <2>1, <2>2 DEF Pri
  <2>6. Cell(n, s, k) = IF p = 0 THEN NULL ELSE tail[p - 1]
    BY <1>2, <2>1 DEF Cell
  <2>7. TypeOK
    BY DEF IInv
  <2> HIDE DEF k
  <2>8. Link(e, p, Cell(n, s, k))
    BY <1>4, <2>6
  <2> QED
    BY <1>1, <1>5, <2>3, <2>4, <2>5, <2>7, <2>8, LinkStep DEF Divides
<1>7. Abstract!Before(ForEach, p) = k
  <2>1. p \in 0 .. Levels
    BY DEF Pri
  <2>2. Abstract!Before(Slots(n, s, c), p) = IF p = 0 THEN 0 ELSE c[p - 1]
    BY <1>1, <1>2, <2>1, BeforeIs
  <2>3. ForEach = Slots(n, s, c)
    BY <1>1, ForEachNow
  <2> QED
    BY <2>2, <2>3
<1> HIDE DEF k
<1>8. ForEach' = Abstract!InFront(ForEach, e, p)
  BY <1>6, <1>7 DEF Abstract!InFront
<1>9. e \in {held[w] : w \in Readers} \ {NULL}
  BY <1>3
<1>10. {held'[w] : w \in Readers} \ {NULL} = ({held[w] : w \in Readers} \ {NULL}) \ {e}
  <2>1. \A w \in Readers : held'[w] = IF w = r THEN NULL ELSE held[w]
    BY <1>4 DEF IInv, TypeOK
  <2>2. \A w \in Readers : held[w] = e => w = r
    BY <1>3 DEF IInv, Held
  <2> QED
    BY <1>3, <2>1, <2>2
<1> QED
  BY <1>3, <1>8, <1>9, <1>10 DEF Abstract!WriteFront

\* Read takes the first entry, and only one at its level or a more urgent one,
\* although it tests the tail of its own level and no level of an entry.
LEMMA TakeRefines ==
  ASSUME IInv, NEW r \in Readers, Take(r)
  PROVE  Abstract!Read(Bound[r])
<1>1. PICK n, s, c : n \in Nat /\ Represents(n, s, c) /\ Owned(n, s)
  BY DEF IInv, WellFormed
<1>2. /\ n > 0
      /\ head = s[1]
      /\ Represents(n - 1, Shifted(n, s), Shorter(c))'
  BY <1>1, TakeRepresents
<1>3. /\ c \in [Pri -> 0 .. n]
      /\ \A q \in Pri : tail[q] = Cell(n, s, c[q])
      /\ s \in [1 .. n -> Entries]
  BY <1>1 DEF Represents
<1>4. ForEach = Slots(n, s, c)
  BY <1>1, ForEachNow
<1>5. ForEach' = Slots(n - 1, Shifted(n, s), Shorter(c))
  <2> DEFINE s1 == Shifted(n, s)
             c1 == Shorter(c)
  <2> HIDE DEF s1, c1
  <2>1. n - 1 \in Nat /\ Represents(n - 1, s1, c1)'
    BY <1>1, <1>2 DEF s1, c1
  <2> QED
    BY <2>1, ForEachNext DEF s1, c1
<1>6. /\ ForEach # <<>>
      /\ Head(ForEach) = [item |-> s[1], level |-> LevelOf(c, 1)]
      /\ ForEach' = Tail(ForEach)
  BY <1>1, <1>2, <1>3, <1>4, <1>5, TakeSlots
<1>7. LevelOf(c, 1) <= Bound[r]
  <2>1. /\ LevelOf(c, 1) \in 0 .. Levels
        /\ \A w \in 0 .. LevelOf(c, 1) - 1 : c[w] < 1
    BY <1>1, <1>3, LevelOfIs
  <2>2. Bound[r] \in Pri /\ c[Bound[r]] \in 0 .. n /\ tail[Bound[r]] # NULL
    BY <1>3 DEF Take
  <2>3. c[Bound[r]] # 0
    BY <1>3, <2>2 DEF Cell
  <2>4. Bound[r] \notin 0 .. LevelOf(c, 1) - 1
    BY <2>1, <2>2, <2>3
  <2> QED
    BY <2>1, <2>2, <2>4 DEF Pri
<1>8. {held'[w] : w \in Readers} \ {NULL} = ({held[w] : w \in Readers} \ {NULL}) \cup {head}
  <2>1. head \in Entries
    BY <1>1, <1>2, <1>3
  <2>2. held[r] = NULL
    BY DEF IInv, Held, Take
  <2>3. \A w \in Readers : held'[w] = IF w = r THEN head ELSE held[w]
    BY DEF Take, IInv, TypeOK
  <2> QED
    BY <2>1, <2>2, <2>3
<1>9. Head(ForEach).level = LevelOf(c, 1) /\ Head(ForEach).item = head
  BY <1>2, <1>6
<1> QED
  BY <1>6, <1>7, <1>8, <1>9 DEF Abstract!Read, Abstract!Readable

\* A step that leaves the pointers alone leaves ForEach alone.
LEMMA SameForEach ==
  ASSUME IInv, UNCHANGED <<head, next, tail>>
  PROVE  ForEach' = ForEach
<1>1. PICK n, s, c : n \in Nat /\ Represents(n, s, c)
  BY DEF IInv, WellFormed
<1>2. Represents(n, s, c)'
  BY <1>1 DEF Represents, Cell
<1> QED
  BY <1>1, <1>2, ForEachNow, ForEachNext

\* A reader that deletes its entry disposes of what it has, of nothing else.
LEMMA DeleteRefines ==
  ASSUME IInv, NEW r \in Readers, Delete(r)
  PROVE  held[r] \in Entries /\ Abstract!Discard(held[r])
<1>1. held[r] \in Entries
  BY DEF Delete, IInv, TypeOK, Held, Pointer
<1>2. ForEach' = ForEach
  BY SameForEach DEF Delete
<1>3. \A w \in Readers : held'[w] = IF w = r THEN NULL ELSE held[w]
  BY DEF Delete, IInv, TypeOK
<1>4. \A w \in Readers : held[w] = held[r] => w = r
  BY <1>1 DEF IInv, Held
<1>5. {held'[w] : w \in Readers} \ {NULL} = ({held[w] : w \in Readers} \ {NULL}) \ {held[r]}
  BY <1>1, <1>3, <1>4
<1> QED
  BY <1>1, <1>2, <1>5 DEF Abstract!Discard

\* A list that represents nothing is reported as the empty sequence.
LEMMA EmptyForEach ==
  ASSUME NEW s, NEW c, Represents(0, s, c)
  PROVE  ForEach = <<>>
<1>1. ForEach = Slots(0, s, c)
  BY ForEachNow
<1> QED
  BY <1>1 DEF Slots

\* Purge leaves nothing in the list and the readers what they have.
LEMMA PurgeRefines ==
  ASSUME Purge
  PROVE  Abstract!Purge
<1> DEFINE s0 == [i \in 1 .. 0 |-> NULL]
           c0 == [p \in Pri |-> 0]
<1>1. Represents(0, s0, c0)'
  BY DEF Purge, Represents, Cell, Pri
<1> HIDE DEF s0, c0
<1>2. ForEach' = Slots(0, s0, c0)
  BY <1>1, ForEachNext
<1>3. ForEach' = <<>>
  BY <1>2 DEF Slots
<1> QED
  BY <1>3 DEF Purge, Abstract!Purge

\* Whatever the number of entries, levels and readers, the pointer list behaves
\* as the list the interface describes: ordered by level, first in first out
\* within a level, an entry that is put back ahead of its level.
THEOREM PriorityListImplemented == Spec => ImplementsPriorityList
<1>1. Init => Abstract!Init
  <2> SUFFICES ASSUME Init PROVE Abstract!Init
    OBVIOUS
  <2> DEFINE s0 == [i \in 1 .. 0 |-> NULL]
             c0 == [p \in Pri |-> 0]
  <2>1. Represents(0, s0, c0)
    BY DEF Init, Represents, Cell, Pri
  <2> HIDE DEF s0, c0
  <2>2. ForEach = <<>>
    BY <2>1, EmptyForEach
  <2>3. {held[r] : r \in Readers} \ {NULL} = {}
    BY DEF Init
  <2> QED
    BY <2>2, <2>3 DEF Abstract!Init
<1>2. IInv /\ [Next]_vars => [Abstract!Next]_<<ForEach, {held[r] : r \in Readers} \ {NULL}>>
  <2> SUFFICES ASSUME IInv, [Next]_vars
               PROVE  [Abstract!Next]_<<ForEach, {held[r] : r \in Readers} \ {NULL}>>
    OBVIOUS
  <2>1. ASSUME NEW e \in Entries, NEW p \in Pri, Write(e, p) PROVE Abstract!Next
    BY <2>1, WriteRefines DEF Abstract!Next, Abstract!Level, Pri
  <2>2. ASSUME NEW r \in Readers, NEW p \in Pri, WriteFront(r, p) PROVE Abstract!Next
    BY <2>2, WriteFrontRefines DEF Abstract!Next, Abstract!Level, Pri
  <2>3. ASSUME NEW r \in Readers, Take(r) PROVE Abstract!Next
    <3>1. Abstract!Read(Bound[r]) /\ Bound[r] \in Abstract!Level
      BY <2>3, TakeRefines DEF Abstract!Level, Pri
    <3> QED
      BY <3>1 DEF Abstract!Next
  <2>4. ASSUME NEW r \in Readers, Delete(r) PROVE Abstract!Next
    <3>1. held[r] \in Entries /\ Abstract!Discard(held[r])
      BY <2>4, DeleteRefines
    <3> DEFINE e == held[r]
    <3>2. e \in Entries /\ Abstract!Discard(e)
      BY <3>1
    <3> HIDE DEF e
    <3> QED
      BY <3>2 DEF Abstract!Next, Abstract!Discard
  <2>5. ASSUME Purge PROVE Abstract!Next
    BY <2>5, PurgeRefines DEF Abstract!Next
  <2>6. ASSUME NEW r \in Readers, Wake(r) \/ Rearm(r)
        PROVE  UNCHANGED <<ForEach, {held[w] : w \in Readers} \ {NULL}>>
    <3>1. UNCHANGED <<head, next, tail, held>>
      BY <2>6 DEF Wake, Rearm
    <3> QED
      BY <3>1, SameForEach
  <2>7. ASSUME UNCHANGED vars
        PROVE  UNCHANGED <<ForEach, {held[w] : w \in Readers} \ {NULL}>>
    <3>1. UNCHANGED <<head, next, tail, held>>
      BY <2>7 DEF vars
    <3> QED
      BY <3>1, SameForEach
  <2> QED
    BY <2>1, <2>2, <2>3, <2>4, <2>5, <2>6, <2>7 DEF Next, Step
<1> QED
  BY <1>1, <1>2, InitInvariant, StepInvariant, PTL
        DEF Spec, ImplementsPriorityList, Abstract!Spec, Abstract!vars

\* What Check() looks at follows from the representation.
LEMMA IntactIs == IInv => ListIntact
<1> SUFFICES ASSUME IInv PROVE ListIntact
  OBVIOUS
<1>1. PICK n, s, c : n \in Nat /\ Represents(n, s, c) /\ Owned(n, s)
  BY DEF IInv, WellFormed
<1>2. /\ s \in [1 .. n -> Entries]
      /\ \A i, j \in 1 .. n : s[i] = s[j] => i = j
      /\ c \in [Pri -> 0 .. n]
      /\ c[Levels - 1] = n
      /\ head = Cell(n, s, 1)
      /\ \A p \in Pri : tail[p] = Cell(n, s, c[p])
  BY <1>1 DEF Represents
<1>3. /\ Positions = 1 .. n
      /\ \A i \in 1 .. n : Nth[i] = s[i] /\ LevelAt[i] = LevelOf(c, i)
  BY <1>1, EntriesAssumption, ForEachIs
<1>4. Levels - 1 \in Pri
  BY DEF Pri
<1>5. Check
  <2>1. CASE n = 0
    <3>1. \A p \in Pri : c[p] = 0
      BY <1>2, <2>1
    <3>2. head = NULL /\ \A p \in Pri : tail[p] = NULL
      BY <1>2, <2>1, <3>1 DEF Cell
    <3> QED
      BY <3>2 DEF Check
  <2>2. CASE n # 0
    <3>1. head # NULL
      BY <1>1, <1>2, <2>2 DEF Cell
    <3>2. \A i \in 1 .. n : LevelAt[i] < Levels
      <4>1. TAKE i \in 1 .. n
      <4>2. /\ LevelOf(c, i) \in 0 .. Levels
            /\ \A w \in 0 .. LevelOf(c, i) - 1 : c[w] < i
        <5>1. i \in Nat
          OBVIOUS
        <5> QED
          BY <1>1, <1>2, <5>1, LevelOfIs
      <4>3. CASE LevelOf(c, i) = Levels
        <5>1. Levels - 1 \in 0 .. LevelOf(c, i) - 1
          BY <4>3
        <5>2. c[Levels - 1] < i
          BY <4>2, <5>1
        <5> QED
          BY <1>1, <1>2, <5>2
      <4> QED
        BY <1>3, <4>2, <4>3
    <3>3. (CHOOSE i \in Positions : i + 1 \notin Positions) = n
      <4>1. n \in 1 .. n /\ n + 1 \notin 1 .. n
        BY <1>1, <2>2
      <4>2. \A i \in 1 .. n : i + 1 \notin 1 .. n => i = n
        BY <1>1
      <4> QED
        BY <1>3, <4>1, <4>2
    <3>4. Skip(LevelAt[n], Nth[n]) = Levels
      <4>1. n + 1 \in Nat \ {0} /\ (n + 1) - 1 = n /\ n \in 1 .. n
        BY <1>1, <2>2
      <4>2. Skip(LevelOf(c, (n + 1) - 1), Cell(n, s, (n + 1) - 1)) = LevelOf(c, n + 1)
        BY <1>1, <4>1, SkipIs
      <4>3. LevelOf(c, n + 1) = Levels
        <5>1. \A w \in 0 .. Levels - 1 : c[w] < n + 1
          BY <1>1, <1>2 DEF Pri
        <5> QED
          BY <1>1, <1>2, <4>1, <5>1, LevelOfFirst
      <4>4. LevelAt[n] = LevelOf(c, n) /\ Nth[n] = Cell(n, s, n)
        BY <1>3, <4>1 DEF Cell
      <4> QED
        BY <4>1, <4>2, <4>3, <4>4
    <3> QED
      BY <1>3, <3>1, <3>2, <3>3, <3>4 DEF Check
  <2> QED
    BY <2>1, <2>2
<1>6. {Nth[i] : i \in Positions} = Entries \ (free \cup {held[r] : r \in Readers})
  <2>1. {Nth[i] : i \in Positions} = {s[i] : i \in 1 .. n}
    BY <1>3
  <2>2. \A i \in 1 .. n : s[i] \in Entries /\ s[i] \notin free /\ \A r \in Readers : s[i] # held[r]
    BY <1>1, <1>2 DEF Owned
  <2>3. \A x \in Entries : \/ x \in free
                           \/ \E r \in Readers : held[r] = x
                           \/ \E i \in 1 .. n : s[i] = x
    BY <1>1 DEF Owned
  <2>4. {s[i] : i \in 1 .. n} = Entries \ (free \cup {held[r] : r \in Readers})
    BY <2>2, <2>3
  <2> QED
    BY <2>1, <2>4
<1>7. \A i, j \in Positions : Nth[i] = Nth[j] => i = j
  BY <1>2, <1>3
<1> QED
  BY <1>5, <1>6, <1>7 DEF ListIntact, IInv, Held

\* Check(), the consistency test of the debug build, never fails; the list holds
\* each allocated entry that no reader has exactly once.
THEOREM ListStaysIntact == Spec => []ListIntact
  BY IntactIs, InitInvariant, StepInvariant, PTL DEF Spec
=============================================================================
