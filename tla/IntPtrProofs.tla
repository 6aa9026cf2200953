---------------------------- MODULE IntPtrProofs -----------------------------
(***************************************************************************)
(* Proofs about IntPtr for every number of threads and objects, every      *)
(* alignment and every bound of the outer count.                           *)
(*                                                                         *)
(* CountExact is a sum over the threads, and a step of a thread changes    *)
(* its own part of the sum only.  It holds whatever the threads do, and so *)
(* does that nothing is left over: without a reference the sum is zero.    *)
(*                                                                         *)
(* The converse is what smartptr.h:284 claims and does not hold: a reader  *)
(* between its increment and its counting in has a part of -1, and who has *)
(* counted in for others a part that is smaller than ALIGNMENT.  The sum   *)
(* is zero in spite of a reference only if there are enough of the first   *)
(* ones to make up for one of the others: Crowded.  The run IntPtrFreed    *)
(* gets there.                                                             *)
(***************************************************************************)
EXTENDS IntPtr, FiniteSetTheorems, WellFoundedInduction, TLAPS

\* Readers of o that are between the increment and the counting in.
Uncounted(o) == {t \in Threads : at[t] = "count" /\ old[t].ptr = o}

\* What t has counted in for other readers of o, too, if it is not undone.
Ahead(t, o) == IF at[t] \in {"reset", "undo"} /\ old[t].ptr = o THEN old[t].outer ELSE 0

\* Such readers make up for a reference, or for what is left of one in the count.
Crowded == \E o \in Objects, t \in Threads : Cardinality(Uncounted(o)) >= ALIGNMENT - Ahead(t, o)

\* The mapping of held.
Held == [t \in Threads |-> InFlight(t)]

\* What SharedPointer amounts to: an object exists exactly as long as it is referenced.
LiveIffReferenced == live = Abstract!Referenced

\* An object without a reference has been deleted.
NothingLeft == live \subseteq Abstract!Referenced

\* The inductive invariant of SharedPointer.
AbstractInv == Abstract!TypeOK /\ LiveIffReferenced

\* The inductive invariant.
IInv == TypeOK /\ CountExact /\ NothingLeft

(***************************************************************************)
(* Sums over a finite set.                                                 *)
(***************************************************************************)

\* A set of naturals that is not empty has a least element.
LEMMA LeastElement ==
  ASSUME NEW S \in SUBSET Nat, S # {}
  PROVE  \E x \in S : \A y \in S : x <= y
<1>1. PICK x \in S : \A y \in S : <<y, x>> \notin OpToRel(<, Nat)
  BY NatLessThanWellFounded, WFMin
<1>2. \A y \in Nat : y < x => <<y, x>> \in OpToRel(<, Nat)
  BY DEF OpToRel
<1>3. \A y \in S : ~ (y < x)
  BY <1>1, <1>2, Zenon
<1> QED
  BY <1>3

\* Induction over the subsets of a finite set, with a set for the property.
LEMMA SubsetInduction ==
  ASSUME NEW S, IsFiniteSet(S), NEW D \in SUBSET SUBSET S,
         \A s \in SUBSET S : (\A x \in s : s \ {x} \in D) => s \in D
  PROVE  D = SUBSET S
<1> DEFINE N == {Cardinality(s) : s \in (SUBSET S) \ D}
<1>1. \A s \in SUBSET S : IsFiniteSet(s) /\ Cardinality(s) \in Nat
  BY FS_Subset, FS_CardinalityType
<1>2. N \in SUBSET Nat
  BY <1>1
<1>3. ASSUME N # {} PROVE FALSE
  <2>1. PICK n \in N : \A m \in N : n <= m
    <3> HIDE DEF N
    <3> QED
      BY <1>2, <1>3, LeastElement
  <2>2. PICK s \in (SUBSET S) \ D : n = Cardinality(s)
    BY <2>1
  <2>3. ASSUME NEW x \in s PROVE s \ {x} \in D
    <3>1. Cardinality(s \ {x}) = Cardinality(s) - 1
      BY <1>1, <2>2, FS_RemoveElement
    <3>2. Cardinality(s) \in Nat
      BY <1>1, <2>2
    <3>3. s \ {x} \in SUBSET S
      BY <2>2
    <3>4. CASE s \ {x} \notin D
      <4>1. Cardinality(s) - 1 \in N
        BY <3>1, <3>3, <3>4
      <4>2. n <= Cardinality(s) - 1
        BY <2>1, <4>1
      <4> QED
        BY <2>2, <3>2, <4>2
    <3> QED
      BY <3>4
  <2> QED
    BY <2>2, <2>3
<1> QED
  BY <1>3

\* The element the community modules' fold takes first.
Chosen(s) == CHOOSE x \in s : TRUE

\* h[s] is the sum of F over s, for the subsets s of S.
IsSum(h, F, S) ==
  h = [s \in SUBSET S |-> IF s = {} THEN 0 ELSE F[Chosen(s)] + h[s \ {Chosen(s)}]]

\* A recursive function is a CHOOSE: it says something only if such a function exists.
LEMMA SumExists ==
  ASSUME NEW S, IsFiniteSet(S), NEW F
  PROVE  \E h : IsSum(h, F, S)
<1> DEFINE Small(n) == {s \in SUBSET S : Cardinality(s) <= n}
           Upto(n, h) == h = [s \in Small(n) |-> IF s = {} THEN 0 ELSE F[Chosen(s)] + h[s \ {Chosen(s)}]]
           N == {n \in Nat : \A h : ~ Upto(n, h)}
<1>1. \A s \in SUBSET S : IsFiniteSet(s) /\ Cardinality(s) \in Nat /\ Cardinality(s) <= Cardinality(S)
  BY FS_Subset, FS_CardinalityType
<1>2. \A s \in SUBSET S : s # {} => Chosen(s) \in s /\ Cardinality(s \ {Chosen(s)}) = Cardinality(s) - 1
  <2>1. TAKE s \in SUBSET S
  <2>2. s # {} => Chosen(s) \in s
    BY DEF Chosen
  <2> QED
    BY <1>1, <2>2, FS_RemoveElement
<1>3. \A s \in SUBSET S : Cardinality(s) = 0 <=> s = {}
  BY <1>1, FS_EmptySet
<1>4. ASSUME N # {} PROVE FALSE
  <2>1. PICK n \in N : \A m \in N : n <= m
    <3> HIDE DEF N
    <3>1. N \in SUBSET Nat
      BY DEF N
    <3> QED
      BY <1>4, <3>1, LeastElement
  <2>2. n # 0
    <3> DEFINE h == [s \in Small(0) |-> 0]
    <3>1. \A s \in Small(0) : s = {}
      BY <1>1, <1>3
    <3>2. Upto(0, h)
      BY <3>1
    <3> HIDE DEF Upto, h
    <3> QED
      BY <2>1, <3>2
  <2>3. n - 1 \in Nat /\ n - 1 \notin N
    <3>1. n \in Nat
      BY <2>1
    <3> HIDE DEF N
    <3> QED
      BY <2>1, <2>2, <3>1
  <2>4. PICK h : Upto(n - 1, h)
    <3> HIDE DEF Upto
    <3> QED
      BY <2>3
  <2> DEFINE k == [s \in Small(n) |-> IF s = {} THEN 0 ELSE F[Chosen(s)] + h[s \ {Chosen(s)}]]
  <2>5. \A s \in Small(n - 1) : s \in Small(n) /\ k[s] = h[s]
    <3>1. TAKE s \in Small(n - 1)
    <3>2. s \in Small(n)
      BY <1>1, <2>1
    <3>3. h[s] = IF s = {} THEN 0 ELSE F[Chosen(s)] + h[s \ {Chosen(s)}]
      BY <2>4
    <3> HIDE DEF Small
    <3> QED
      BY <3>2, <3>3
  <2>6. \A s \in Small(n) : s # {} => s \ {Chosen(s)} \in Small(n - 1)
    BY <1>1, <1>2, <2>1
  <2>7. \A s \in Small(n) : k[s] = IF s = {} THEN 0 ELSE F[Chosen(s)] + k[s \ {Chosen(s)}]
    <3>1. TAKE s \in Small(n)
    <3>2. k[s] = IF s = {} THEN 0 ELSE F[Chosen(s)] + h[s \ {Chosen(s)}]
      OBVIOUS
    <3> HIDE DEF k, Small
    <3> QED
      BY <2>5, <2>6, <3>2
  <2>8. Upto(n, k)
    <3>1. k = [s \in Small(n) |-> k[s]]
      OBVIOUS
    <3> HIDE DEF k, Small
    <3> QED
      BY <2>7, <3>1
  <2> HIDE DEF Upto, k
  <2> QED
    BY <2>1, <2>8
<1>5. PICK h : Upto(Cardinality(S), h)
  <2>1. Cardinality(S) \in Nat
    BY FS_CardinalityType
  <2> HIDE DEF Upto
  <2> QED
    BY <1>4, <2>1
<1>6. Small(Cardinality(S)) = SUBSET S
  BY <1>1
<1> QED
  BY <1>5, <1>6 DEF IsSum

\* What the recursion says of the empty set and of others.
LEMMA SumValue ==
  ASSUME NEW S, NEW F, NEW h, IsSum(h, F, S)
  PROVE  /\ h[{}] = 0
         /\ \A s \in SUBSET S : s # {} =>
              Chosen(s) \in s /\ s \ {Chosen(s)} \in SUBSET S /\ h[s] = F[Chosen(s)] + h[s \ {Chosen(s)}]
<1>1. \A s \in SUBSET S : s # {} => Chosen(s) \in s
  BY DEF Chosen
<1>2. \A s \in SUBSET S : h[s] = IF s = {} THEN 0 ELSE F[Chosen(s)] + h[s \ {Chosen(s)}]
  BY DEF IsSum
<1> QED
  BY <1>1, <1>2

\* A sum of integers is one.
LEMMA SumInt ==
  ASSUME NEW S, IsFiniteSet(S), NEW F \in [S -> Int], NEW h, IsSum(h, F, S)
  PROVE  \A s \in SUBSET S : h[s] \in Int
<1>0. \A s \in SUBSET S : s # {} => Chosen(s) \in s /\ h[s] = F[Chosen(s)] + h[s \ {Chosen(s)}]
  BY SumValue
<1> DEFINE D == {s \in SUBSET S : h[s] \in Int}
<1>1. ASSUME NEW s \in SUBSET S, \A x \in s : s \ {x} \in D PROVE s \in D
  <2>1. CASE s = {}
    BY <2>1, SumValue
  <2>2. CASE s # {}
    <3> DEFINE x == Chosen(s)
    <3>1. x \in s /\ h[s] = F[x] + h[s \ {x}]
      BY <1>0, <2>2
    <3> HIDE DEF x
    <3>2. h[s \ {x}] \in Int
      BY <1>1, <3>1
    <3>3. F[x] \in Int
      BY <3>1
    <3> QED
      BY <3>1, <3>2, <3>3
  <2> QED
    BY <2>1, <2>2
<1>2. D \in SUBSET SUBSET S
  OBVIOUS
<1>3. D = SUBSET S
  <2> HIDE DEF D
  <2> QED
    BY <1>1, <1>2, SubsetInduction
<1> QED
  BY <1>3

\* Any element may be added last.
LEMMA SumPull ==
  ASSUME NEW S, IsFiniteSet(S), NEW F \in [S -> Int], NEW h, IsSum(h, F, S)
  PROVE  \A s \in SUBSET S : \A y \in s : h[s] = F[y] + h[s \ {y}]
<1> DEFINE D == {s \in SUBSET S : \A y \in s : h[s] = F[y] + h[s \ {y}]}
<1>1. ASSUME NEW s \in SUBSET S, \A x \in s : s \ {x} \in D PROVE s \in D
  <2> SUFFICES ASSUME NEW y \in s PROVE h[s] = F[y] + h[s \ {y}]
    OBVIOUS
  <2> DEFINE x == Chosen(s)
  <2>1. x \in s /\ h[s] = F[x] + h[s \ {x}]
    BY SumValue
  <2> HIDE DEF x
  <2>2. CASE x = y
    BY <2>1, <2>2
  <2>3. CASE x # y
    <3>1. h[s \ {x}] = F[y] + h[(s \ {x}) \ {y}]
      BY <1>1, <2>1, <2>3
    <3>2. h[s \ {y}] = F[x] + h[(s \ {y}) \ {x}]
      BY <1>1, <2>1, <2>3
    <3>3. (s \ {x}) \ {y} = (s \ {y}) \ {x}
      OBVIOUS
    <3>4. h[(s \ {y}) \ {x}] \in Int
      <4>1. (s \ {y}) \ {x} \in SUBSET S
        OBVIOUS
      <4> QED
        BY <4>1, SumInt
    <3>5. F[x] \in Int /\ F[y] \in Int
      BY <2>1
    <3> DEFINE z == h[(s \ {y}) \ {x}]
    <3>6. h[s] = F[x] + (F[y] + z) /\ h[s \ {y}] = F[x] + z
      BY <2>1, <3>1, <3>2, <3>3
    <3> HIDE DEF z
    <3>7. z \in Int
      BY <3>4 DEF z
    <3> QED
      BY <3>5, <3>6, <3>7
  <2> QED
    BY <2>2, <2>3
<1>2. D \in SUBSET SUBSET S
  OBVIOUS
<1>3. D = SUBSET S
  <2> HIDE DEF D
  <2> QED
    BY <1>1, <1>2, SubsetInduction
<1> QED
  BY <1>3

\* A sum depends on the values of the elements only.
LEMMA SumAgree ==
  ASSUME NEW S, IsFiniteSet(S), NEW F, NEW G, NEW h, IsSum(h, F, S), NEW k, IsSum(k, G, S)
  PROVE  \A s \in SUBSET S : (\A x \in s : F[x] = G[x]) => h[s] = k[s]
<1> DEFINE D == {s \in SUBSET S : (\A x \in s : F[x] = G[x]) => h[s] = k[s]}
<1>1. ASSUME NEW s \in SUBSET S, \A x \in s : s \ {x} \in D PROVE s \in D
  <2> SUFFICES ASSUME \A x \in s : F[x] = G[x] PROVE h[s] = k[s]
    OBVIOUS
  <2>1. CASE s = {}
    BY <2>1, SumValue
  <2>2. CASE s # {}
    <3> DEFINE x == Chosen(s)
    <3>1. x \in s /\ h[s] = F[x] + h[s \ {x}] /\ k[s] = G[x] + k[s \ {x}]
      BY <2>2, SumValue
    <3> HIDE DEF x
    <3>2. h[s \ {x}] = k[s \ {x}]
      BY <1>1, <3>1
    <3> QED
      BY <3>1, <3>2
  <2> QED
    BY <2>1, <2>2
<1>2. D \in SUBSET SUBSET S
  OBVIOUS
<1>3. D = SUBSET S
  <2> HIDE DEF D
  <2> QED
    BY <1>1, <1>2, SubsetInduction
<1> QED
  BY <1>3

\* A sum of which one element changes.
LEMMA SumChange ==
  ASSUME NEW S, IsFiniteSet(S), NEW F \in [S -> Int], NEW G \in [S -> Int],
         NEW h, IsSum(h, F, S), NEW k, IsSum(k, G, S),
         NEW y \in S, \A x \in S \ {y} : F[x] = G[x]
  PROVE  k[S] = h[S] + (G[y] - F[y])
<1>1. h[S] = F[y] + h[S \ {y}] /\ k[S] = G[y] + k[S \ {y}]
  <2>1. S \in SUBSET S
    OBVIOUS
  <2>2. h[S] = F[y] + h[S \ {y}]
    BY <2>1, SumPull
  <2>3. k[S] = G[y] + k[S \ {y}]
    BY <2>1, SumPull
  <2> QED
    BY <2>2, <2>3
<1>2. S \ {y} \in SUBSET S
  OBVIOUS
<1>3. h[S \ {y}] = k[S \ {y}]
  BY <1>2, SumAgree
<1>4. h[S \ {y}] \in Int /\ F[y] \in Int /\ G[y] \in Int
  BY <1>2, SumInt
<1> QED
  BY <1>1, <1>3, <1>4

\* With no element below -1 a sum is not below the negative number of negative ones.
LEMMA SumLow ==
  ASSUME NEW S, IsFiniteSet(S), NEW F \in [S -> Int], NEW h, IsSum(h, F, S),
         NEW U \in SUBSET S, \A x \in S : F[x] >= IF x \in U THEN -1 ELSE 0
  PROVE  \A s \in SUBSET S : h[s] >= - Cardinality(s \cap U)
<1> DEFINE D == {s \in SUBSET S : h[s] >= - Cardinality(s \cap U)}
<1>1. ASSUME NEW s \in SUBSET S, \A x \in s : s \ {x} \in D PROVE s \in D
  <2> SUFFICES h[s] >= - Cardinality(s \cap U)
    OBVIOUS
  <2>1. IsFiniteSet(s \cap U) /\ Cardinality(s \cap U) \in Nat
    BY FS_Subset, FS_CardinalityType
  <2>2. CASE s = {}
    BY <2>1, <2>2, SumValue
  <2>3. CASE s # {}
    <3> DEFINE x == Chosen(s)
    <3>1. x \in s /\ h[s] = F[x] + h[s \ {x}]
      BY <2>3, SumValue
    <3> HIDE DEF x
    <3>2. h[s \ {x}] >= - Cardinality((s \ {x}) \cap U)
      BY <1>1, <3>1
    <3>3. (s \ {x}) \cap U = (s \cap U) \ {x}
      OBVIOUS
    <3>4. Cardinality((s \cap U) \ {x}) = IF x \in U THEN Cardinality(s \cap U) - 1 ELSE Cardinality(s \cap U)
      <4> DEFINE V == s \cap U
      <4>1. IsFiniteSet(V) /\ (x \in V <=> x \in U)
        BY <2>1, <3>1
      <4> HIDE DEF V
      <4>2. Cardinality(V \ {x}) = IF x \in U THEN Cardinality(V) - 1 ELSE Cardinality(V)
        BY <4>1, FS_RemoveElement
      <4> QED
        BY <4>2 DEF V
    <3>5. h[s \ {x}] \in Int /\ F[x] \in Int
      <4>1. s \ {x} \in SUBSET S
        OBVIOUS
      <4> QED
        BY <3>1, <4>1, SumInt
    <3>6. F[x] >= IF x \in U THEN -1 ELSE 0
      BY <3>1
    <3>7. h[s \ {x}] >= - (IF x \in U THEN Cardinality(s \cap U) - 1 ELSE Cardinality(s \cap U))
      BY <3>2, <3>3, <3>4
    <3> QED
      BY <2>1, <3>1, <3>5, <3>6, <3>7
  <2> QED
    BY <2>2, <2>3
<1>2. D \in SUBSET SUBSET S
  OBVIOUS
<1>3. D = SUBSET S
  <2> HIDE DEF D
  <2> QED
    BY <1>1, <1>2, SubsetInduction
<1> QED
  BY <1>3

\* A sum of nothing positive is not positive.
LEMMA SumHigh ==
  ASSUME NEW S, IsFiniteSet(S), NEW F \in [S -> Int], NEW h, IsSum(h, F, S)
  PROVE  \A s \in SUBSET S : (\A x \in s : F[x] <= 0) => h[s] <= 0
<1> DEFINE D == {s \in SUBSET S : (\A x \in s : F[x] <= 0) => h[s] <= 0}
<1>1. ASSUME NEW s \in SUBSET S, \A x \in s : s \ {x} \in D PROVE s \in D
  <2> SUFFICES ASSUME \A x \in s : F[x] <= 0 PROVE h[s] <= 0
    OBVIOUS
  <2>1. CASE s = {}
    BY <2>1, SumValue
  <2>2. CASE s # {}
    <3> DEFINE x == Chosen(s)
    <3>1. x \in s /\ h[s] = F[x] + h[s \ {x}]
      BY <2>2, SumValue
    <3> HIDE DEF x
    <3>2. h[s \ {x}] <= 0
      BY <1>1, <3>1
    <3>3. h[s \ {x}] \in Int /\ F[x] \in Int
      <4>1. s \ {x} \in SUBSET S
        OBVIOUS
      <4> QED
        BY <3>1, <4>1, SumInt
    <3> QED
      BY <3>1, <3>2, <3>3
  <2> QED
    BY <2>1, <2>2
<1>2. D \in SUBSET SUBSET S
  OBVIOUS
<1>3. D = SUBSET S
  <2> HIDE DEF D
  <2> QED
    BY <1>1, <1>2, SubsetInduction
<1> QED
  BY <1>3

\* A sum of zeros.
LEMMA SumZero ==
  ASSUME NEW S, IsFiniteSet(S), NEW F, NEW h, IsSum(h, F, S)
  PROVE  \A s \in SUBSET S : (\A x \in s : F[x] = 0) => h[s] = 0
<1> DEFINE D == {s \in SUBSET S : (\A x \in s : F[x] = 0) => h[s] = 0}
<1>1. ASSUME NEW s \in SUBSET S, \A x \in s : s \ {x} \in D PROVE s \in D
  <2> SUFFICES ASSUME \A x \in s : F[x] = 0 PROVE h[s] = 0
    OBVIOUS
  <2>1. CASE s = {}
    BY <2>1, SumValue
  <2>2. CASE s # {}
    <3> DEFINE x == Chosen(s)
    <3>1. x \in s /\ h[s] = F[x] + h[s \ {x}]
      BY <2>2, SumValue
    <3> HIDE DEF x
    <3>2. h[s \ {x}] = 0
      BY <1>1, <3>1
    <3> QED
      BY <3>1, <3>2
  <2> QED
    BY <2>1, <2>2
<1>2. D \in SUBSET SUBSET S
  OBVIOUS
<1>3. D = SUBSET S
  <2> HIDE DEF D
  <2> QED
    BY <1>1, <1>2, SubsetInduction
<1> QED
  BY <1>3

(***************************************************************************)
(* The parts of the threads in a count.                                    *)
(***************************************************************************)

USE NULLAssumption, WidthAssumption

\* The part of t in the count of o, the parts of all and their sum; the part of Data.
Part(t, o) == Share(t, o) + Local(t, o)
Parts(o)   == [t \in Threads |-> Part(t, o)]
Total(o)   == MapThenSumSet(LAMBDA t : Share(t, o) + Local(t, o), Threads)
InData(o)  == IF Data.ptr = o THEN ALIGNMENT + Data.outer ELSE 0

\* A part is zero exactly without a reference; only a reader that has not counted
\* itself in has a negative one.
LEMMA PartIs ==
  ASSUME TypeOK, NEW t \in Threads, NEW o \in Objects
  PROVE  /\ Part(t, o) \in Int
         /\ Part(t, o) >= IF t \in Uncounted(o) THEN -1 ELSE 0
         /\ Part(t, o) > 0 => Part(t, o) >= ALIGNMENT - Ahead(t, o)
         /\ Part(t, o) = 0 <=> (ref[t] # o /\ old[t].ptr # o)
<1>1. /\ ref[t] \in Objects \cup {NULL}
      /\ at[t] \in Label
      /\ old[t] \in Word
      /\ at[t] \in {"idle", "increment", "assign"} => old[t] = Plain(NULL)
      /\ at[t] \in {"increment", "count", "reset", "undo", "keep"} => ref[t] = NULL
      /\ at[t] = "assign" => ref[t] # NULL
      /\ old[t].outer \in 0 .. ALIGNMENT - 1
  BY DEF TypeOK, Word
<1>2. Plain(NULL).ptr = NULL
  BY DEF Plain
<1>3. CASE at[t] \in {"idle", "increment", "assign"}
  BY <1>1, <1>2, <1>3 DEF Part, Share, Local, Uncounted, Ahead
<1>4. CASE at[t] = "count"
  BY <1>1, <1>4 DEF Part, Share, Local, Uncounted, Ahead
<1>5. CASE at[t] \in {"reset", "undo"}
  BY <1>1, <1>5 DEF Part, Share, Local, Uncounted, Ahead
<1>6. CASE at[t] \in {"transfer", "keep", "release"}
  BY <1>1, <1>6 DEF Part, Share, Local, Uncounted, Ahead
<1> QED
  BY <1>1, <1>3, <1>4, <1>5, <1>6 DEF Label

\* The sum that CountExact takes is one of the sums above.
LEMMA TotalIs ==
  \A o : \E h : IsSum(h, Parts(o), Threads) /\ Total(o) = h[Threads]
<1> SUFFICES ASSUME NEW o PROVE \E h : IsSum(h, Parts(o), Threads) /\ Total(o) = h[Threads]
  OBVIOUS
<1> DEFINE E(h) == [s \in SUBSET Threads |->
                      IF s = {} THEN 0
                      ELSE (Share(Chosen(s), o) + Local(Chosen(s), o)) + h[s \ {Chosen(s)}]]
           k == CHOOSE h : h = E(h)
<1>1. Total(o) = k[Threads]
  BY DEF Total, MapThenSumSet, MapThenFoldSet, Chosen
<1>2. \A h : IsSum(h, Parts(o), Threads) <=> h = E(h)
  <2>1. TAKE h
  <2>2. \A s \in SUBSET Threads : s # {} =>
          Parts(o)[Chosen(s)] = Share(Chosen(s), o) + Local(Chosen(s), o)
    BY DEF Parts, Part, Chosen
  <2> QED
    BY <2>2 DEF IsSum
<1>3. \E h : IsSum(h, Parts(o), Threads)
  BY ThreadsAssumption, SumExists
<1> HIDE DEF E
<1>4. k = E(k)
  BY <1>2, <1>3
<1> HIDE DEF k
<1> QED
  BY <1>1, <1>2, <1>4

\* The same in the next state.
LEMMA TotalNext == (\A o : \E h : IsSum(h, Parts(o), Threads) /\ Total(o) = h[Threads])'
  BY TotalIs, PTL

\* The parts are integers.
LEMMA PartsInt == TypeOK => \A o \in Objects : Parts(o) \in [Threads -> Int]
  BY PartIs DEF Parts

\* PartsInt in the next state.
LEMMA PartsNext == (TypeOK => \A o \in Objects : Parts(o) \in [Threads -> Int])'
  BY PartsInt, PTL

\* The step of a thread changes the sum by what it changes the part of the thread.
LEMMA TotalChange ==
  ASSUME TypeOK, TypeOK', NEW o \in Objects, NEW t \in Threads,
         \A u \in Threads \ {t} : ref'[u] = ref[u] /\ at'[u] = at[u] /\ old'[u] = old[u]
  PROVE  /\ Total(o) \in Int
         /\ Total(o)' = Total(o) + (Part(t, o)' - Part(t, o))
<1> DEFINE F == Parts(o)
           G == Parts(o)'
<1>1. F \in [Threads -> Int] /\ G \in [Threads -> Int]
  BY PartsInt, PartsNext
<1>2. \A u \in Threads \ {t} : F[u] = G[u]
  BY DEF Parts, Part, Share, Local
<1>3. F[t] = Part(t, o) /\ G[t] = Part(t, o)'
  BY DEF Parts
<1> HIDE DEF F, G
<1>4. PICK h : IsSum(h, F, Threads) /\ Total(o) = h[Threads]
  BY TotalIs DEF F
<1>5. PICK k : IsSum(k, G, Threads) /\ Total(o)' = k[Threads]
  BY TotalNext DEF G
<1>6. k[Threads] = h[Threads] + (G[t] - F[t])
  BY <1>1, <1>2, <1>4, <1>5, ThreadsAssumption, SumChange
<1>7. h[Threads] \in Int
  BY <1>1, <1>4, ThreadsAssumption, SumInt
<1> QED
  BY <1>3, <1>4, <1>5, <1>6, <1>7

\* What somebody refers to.
Refs == ({Data.ptr} \ {NULL}) \cup UNION {InFlight(t) : t \in Threads}

\* An object is referenced by Data or by a thread whose part is not zero.
LEMMA RefsAre ==
  ASSUME TypeOK, NEW o \in Objects
  PROVE  /\ o \in Refs <=> Data.ptr = o \/ \E t \in Threads : Part(t, o) # 0
         /\ InData(o) \in Int
         /\ Data.ptr = o => InData(o) >= ALIGNMENT
         /\ Data.ptr # o => InData(o) = 0
<1>1. o # NULL
  OBVIOUS
<1>2. \A t \in Threads : o \in InFlight(t) <=> Part(t, o) # 0
  BY <1>1, PartIs DEF InFlight
<1>3. Data.outer \in 0 .. ALIGNMENT - 1
  BY DEF TypeOK, Word
<1>4. o \in Refs <=> Data.ptr = o \/ \E t \in Threads : Part(t, o) # 0
  BY <1>1, <1>2 DEF Refs
<1> QED
  BY <1>3, <1>4 DEF InData

\* Without a reference the sum is zero.
LEMMA UnusedIsZero ==
  TypeOK => \A o \in Objects : o \notin Refs => InData(o) + Total(o) = 0
<1> SUFFICES ASSUME TypeOK, NEW o \in Objects, o \notin Refs
             PROVE  InData(o) + Total(o) = 0
  OBVIOUS
<1> DEFINE F == Parts(o)
<1>1. PICK h : IsSum(h, F, Threads) /\ Total(o) = h[Threads]
  BY TotalIs
<1>2. \A t \in Threads : F[t] = 0
  BY RefsAre DEF Parts
<1> HIDE DEF F
<1>3. h[Threads] = 0
  BY <1>1, <1>2, ThreadsAssumption, SumZero
<1> QED
  BY <1>1, <1>3, RefsAre

\* With one it is not, unless there are enough readers that have not counted in.
LEMMA ZeroIsUnused ==
  TypeOK /\ ~ Crowded => \A o \in Objects : o \in Refs => InData(o) + Total(o) # 0
<1> SUFFICES ASSUME TypeOK, NEW o \in Objects, o \in Refs, InData(o) + Total(o) = 0
             PROVE  Crowded
  OBVIOUS
<1> DEFINE F == Parts(o)
           T == Threads
           U == Uncounted(o)
           n == Cardinality(U)
<1>1. F \in [T -> Int] /\ \A t \in T : F[t] = Part(t, o)
  BY PartsInt DEF Parts
<1>2. \A t \in T :
        /\ F[t] \in Int
        /\ F[t] >= IF t \in U THEN -1 ELSE 0
        /\ F[t] > 0 => F[t] >= ALIGNMENT - Ahead(t, o)
  BY <1>1, PartIs
<1>3. U \in SUBSET T /\ n \in Nat
  <2>1. U \in SUBSET T
    BY DEF Uncounted
  <2> HIDE DEF U
  <2>2. IsFiniteSet(U)
    BY <2>1, ThreadsAssumption, FS_Subset
  <2> QED
    BY <2>1, <2>2, FS_CardinalityType
<1>4. ASSUME NEW t \in T, n >= ALIGNMENT - Ahead(t, o) PROVE Crowded
  BY <1>4 DEF Crowded
<1>5. \A t \in T : Ahead(t, o) \in Nat
  BY DEF Ahead, TypeOK, Word
<1>6. Data.ptr = o \/ \E t \in T : F[t] # 0
  BY <1>1, RefsAre
<1> HIDE DEF F
<1>7. PICK h : IsSum(h, F, T) /\ Total(o) = h[T]
  BY TotalIs DEF F
<1>8. \A s \in SUBSET T : h[s] \in Int /\ \A y \in s : h[s] = F[y] + h[s \ {y}]
  <2>1. \A s \in SUBSET T : h[s] \in Int
    BY <1>1, <1>7, ThreadsAssumption, SumInt
  <2>2. ASSUME NEW s \in SUBSET T, NEW y \in s PROVE h[s] = F[y] + h[s \ {y}]
    <3>1. F \in [T -> Int] /\ IsSum(h, F, T) /\ IsFiniteSet(T)
      BY <1>1, <1>7, ThreadsAssumption
    <3> HIDE DEF T
    <3> QED
      BY <3>1, SumPull
  <2> QED
    BY <2>1, <2>2
<1> HIDE DEF U
<1>9. \A s \in SUBSET T : h[s] >= - Cardinality(s \cap U)
  <2>1. IsFiniteSet(T) /\ F \in [T -> Int] /\ IsSum(h, F, T) /\ U \in SUBSET T
        /\ \A t \in T : F[t] >= IF t \in U THEN -1 ELSE 0
    BY <1>1, <1>2, <1>3, <1>7, ThreadsAssumption
  <2> HIDE DEF T
  <2> QED
    BY <2>1, SumLow
<1>10. CASE Data.ptr = o
  <2>1. InData(o) \in Int /\ InData(o) >= ALIGNMENT
    BY <1>10, RefsAre
  <2>2. T \cap U = U
    BY <1>3
  <2>3. h[T] \in Int /\ h[T] >= - n
    BY <1>8, <1>9, <2>2
  <2>4. n >= ALIGNMENT
    BY <1>3, <1>7, <2>1, <2>3
  <2>5. PICK t \in T : TRUE
    <3>1. U # {}
      BY <2>4, FS_EmptySet
    <3> QED
      BY <1>3, <3>1
  <2> QED
    BY <1>3, <1>4, <1>5, <2>4, <2>5
<1>11. CASE Data.ptr # o /\ \E t \in T : F[t] > 0
  <2>1. PICK p \in T : F[p] > 0
    BY <1>11
  <2>2. p \notin U \/ F[p] >= ALIGNMENT - Ahead(p, o)
    BY <1>2, <2>1
  <2>3. T \ {p} \in SUBSET T /\ h[T] = F[p] + h[T \ {p}]
    BY <1>8
  <2>4. Cardinality((T \ {p}) \cap U) <= n /\ Cardinality((T \ {p}) \cap U) \in Nat
    <3>1. (T \ {p}) \cap U \in SUBSET U /\ IsFiniteSet(U)
      BY <1>3, ThreadsAssumption, FS_Subset
    <3> QED
      BY <3>1, FS_Subset, FS_CardinalityType
  <2>5. h[T \ {p}] \in Int /\ h[T \ {p}] >= - Cardinality((T \ {p}) \cap U)
    BY <1>8, <1>9, <2>3
  <2>6. h[T] = 0
    BY <1>7, <1>8, <1>11, RefsAre
  <2>7. F[p] \in Int /\ F[p] >= ALIGNMENT - Ahead(p, o)
    BY <1>2, <2>1
  <2> QED
    BY <1>3, <1>4, <1>5, <2>3, <2>4, <2>5, <2>6, <2>7
<1>12. CASE Data.ptr # o /\ \A t \in T : F[t] <= 0
  <2>1. PICK p \in T : F[p] < 0
    BY <1>2, <1>6, <1>12
  <2>2. h[T] = F[p] + h[T \ {p}] /\ T \ {p} \in SUBSET T
    BY <1>8
  <2>3. h[T \ {p}] <= 0
    BY <1>1, <1>7, <1>12, <2>2, ThreadsAssumption, SumHigh
  <2>4. h[T] = 0
    BY <1>7, <1>8, <1>12, RefsAre
  <2>5. F[p] \in Int /\ h[T \ {p}] \in Int
    BY <1>2, <1>8, <2>2
  <2> QED
    BY <2>1, <2>2, <2>3, <2>4, <2>5
<1> QED
  BY <1>2, <1>10, <1>11, <1>12

\* UnusedIsZero in the next state.
LEMMA UnusedIsZeroNext ==
  (TypeOK => \A o \in Objects : o \notin Refs => InData(o) + Total(o) = 0)'
  BY UnusedIsZero, PTL

\* ZeroIsUnused in the next state.
LEMMA ZeroIsUnusedNext ==
  (TypeOK /\ ~ Crowded => \A o \in Objects : o \in Refs => InData(o) + Total(o) # 0)'
  BY ZeroIsUnused, PTL

(***************************************************************************)
(* Types, and that a step leaves the other threads alone.                  *)
(***************************************************************************)

\* Next is the step of some thread.
Step(t) ==
  \/ Acquire(t)
  \/ Copy(t) \/ Assign(t) \/ Swap(t) \/ Reset(t) \/ Transfer(t)
  \/ Create(t) \/ Release(t) \/ Drop(t)

\* A thread changes its own pointer, place and memory only.
OthersSame(t) ==
  \A u \in Threads \ {t} : ref'[u] = ref[u] /\ at'[u] = at[u] /\ old'[u] = old[u]

\* Initially nobody refers to anything.
LEMMA TypeInit == Init => TypeOK
  BY DEF Init, TypeOK, Word, Plain, Label

\* Each step keeps the types and the bounds.
LEMMA TypeStep ==
  ASSUME TypeOK, NEW t \in Threads, Step(t)
  PROVE  TypeOK' /\ OthersSame(t)
<1>0. /\ Data \in Word
      /\ Count \in [Objects -> Int] /\ live \subseteq Objects
      /\ ref \in [Threads -> Objects \cup {NULL}]
      /\ at \in [Threads -> Label]
      /\ old \in [Threads -> Word]
      /\ Data.ptr \in Objects \cup {NULL} /\ Data.outer \in 0 .. ALIGNMENT - 1
      /\ old[t].ptr \in Objects \cup {NULL} /\ old[t].outer \in 0 .. ALIGNMENT - 1
  BY DEF TypeOK, Word
<1>1. \A p \in Objects \cup {NULL} : Plain(p) \in Word /\ Plain(p).outer = 0
  BY DEF Plain, Word
<1>2. \A p \in Objects \cup {NULL}, n \in Int : Add(p, n) => Count' \in [Objects -> Int]
  BY <1>0 DEF Add
<1>3. CASE NotNull(t)
  BY <1>0, <1>1, <1>3 DEF NotNull, Goto, TypeOK, OthersSame, counts, Label
<1>4. CASE Increment(t)
  <2>1. Data' \in Word /\ Data'.outer \in 1 .. MaxOuter /\ old' = [old EXCEPT ![t] = Data']
    BY <1>0, <1>4 DEF Increment, Word
  <2> QED
    BY <1>0, <1>1, <1>4, <2>1 DEF Increment, Goto, TypeOK, OthersSame, counts, Label
<1>5. CASE CountIn(t)
  <2>1. Count' \in [Objects -> Int]
    <3>1. ALIGNMENT - old[t].outer + 1 \in Int
      BY <1>0
    <3> QED
      BY <1>0, <1>2, <1>5, <3>1 DEF CountIn
  <2> QED
    BY <1>0, <1>1, <1>5, <2>1 DEF CountIn, Goto, TypeOK, OthersSame, Label
<1>6. CASE ResetOuter(t)
  <2>1. Data' \in Word /\ Data'.outer \in 0 .. ALIGNMENT - 1
    BY <1>0, <1>1, <1>6 DEF ResetOuter, Word, Plain
  <2>2. CASE at' = [at EXCEPT ![t] = "undo"]
    <3>1. ref' = ref /\ old' = old
      BY <1>0, <1>6, <2>2 DEF ResetOuter, Acquired, Goto, Label
    <3> QED
      BY <1>0, <1>6, <2>1, <2>2, <3>1 DEF ResetOuter, TypeOK, OthersSame, counts, Label
  <2>3. CASE Acquired(t)
    BY <1>0, <1>1, <1>6, <2>1, <2>3 DEF ResetOuter, Acquired, Goto, TypeOK, OthersSame, counts, Label
  <2> QED
    BY <1>6, <2>2, <2>3 DEF ResetOuter, Goto
<1>7. CASE Undo(t)
  <2>1. Count' \in [Objects -> Int]
    BY <1>0, <1>2, <1>7 DEF Undo
  <2> QED
    BY <1>0, <1>1, <1>7, <2>1 DEF Undo, Acquired, Goto, TypeOK, OthersSame, Label
<1>8. CASE Copy(t)
  <2>1. Count' \in [Objects -> Int]
    BY <1>0, <1>2, <1>8 DEF Copy
  <2> QED
    BY <1>0, <1>1, <1>8, <2>1 DEF Copy, Goto, TypeOK, OthersSame, Label
<1>9. CASE Assign(t)
  BY <1>0, <1>1, <1>9 DEF Assign, Xch, Goto, TypeOK, OthersSame, counts, Label
<1>10. CASE Swap(t)
  BY <1>0, <1>1, <1>10 DEF Swap, Xch, Goto, TypeOK, OthersSame, counts, Label
<1>11. CASE Reset(t)
  BY <1>0, <1>1, <1>11 DEF Reset, Xch, Goto, TypeOK, OthersSame, counts, Label
<1>12. CASE Transfer(t)
  <2>1. Count' \in [Objects -> Int]
    <3>1. - old[t].outer \in Int
      BY <1>0
    <3> QED
      BY <1>0, <1>2, <1>12, <3>1 DEF Transfer
  <2>2. CASE at[t] = "keep"
    <3>1. Acquired(t) /\ Data' = Data /\ live' = live
      BY <1>12, <2>2 DEF Transfer
    <3> QED
      BY <1>0, <1>1, <2>1, <3>1 DEF Acquired, Goto, TypeOK, OthersSame, Label
  <2>3. CASE at[t] # "keep"
    <3>1. [old[t] EXCEPT !.outer = 0] \in Word /\ [old[t] EXCEPT !.outer = 0].outer = 0
      BY <1>0 DEF Word
    <3>2. old' = [old EXCEPT ![t] = [old[t] EXCEPT !.outer = 0]]
      BY <1>12, <2>3 DEF Transfer
    <3> QED
      BY <1>0, <1>12, <2>1, <2>3, <3>1, <3>2 DEF Transfer, Goto, TypeOK, OthersSame, Label
  <2> QED
    BY <2>2, <2>3
<1>13. CASE Create(t)
  BY <1>0, <1>13 DEF Create, TypeOK, OthersSame, Label
<1>14. CASE Release(t)
  <2>1. Count' \in [Objects -> Int]
    <3>1. - (old[t].outer + ALIGNMENT) \in Int
      BY <1>0
    <3> QED
      BY <1>0, <1>2, <1>14, <3>1 DEF Release, Discard
  <2>2. live' \subseteq Objects
    BY <1>0, <1>14 DEF Release, Discard
  <2> QED
    BY <1>0, <1>1, <1>14, <2>1, <2>2 DEF Release, Goto, TypeOK, OthersSame, Label
<1>15. CASE Drop(t)
  <2>1. Count' \in [Objects -> Int]
    <3>1. - (Plain(ref[t]).outer + ALIGNMENT) \in Int /\ Plain(ref[t]).ptr \in Objects \cup {NULL}
      BY <1>0 DEF Plain
    <3> QED
      BY <1>2, <1>15, <3>1 DEF Drop, Discard
  <2>2. live' \subseteq Objects
    BY <1>0, <1>15 DEF Drop, Discard
  <2> QED
    BY <1>0, <1>1, <1>15, <2>1, <2>2 DEF Drop, TypeOK, OthersSame, Label
<1> QED
  BY <1>3, <1>4, <1>5, <1>6, <1>7, <1>8, <1>9, <1>10, <1>11, <1>12, <1>13, <1>14, <1>15 DEF Step, Acquire

(***************************************************************************)
(* Counts stay exact.                                                      *)
(***************************************************************************)

\* What a step adds to a count it adds to its part, or moves between its part and Data.
Balanced(t, o) ==
  Count'[o] = Count[o] + ((InData(o)' - InData(o)) + (Part(t, o)' - Part(t, o)))

\* CountExact in terms of the parts.
LEMMA CountExactIs == CountExact <=> \A o \in live : Count[o] = InData(o) + Total(o)
  BY DEF CountExact, InData, Total

\* CountExactIs in the next state.
LEMMA CountExactNext == (CountExact <=> \A o \in live : Count[o] = InData(o) + Total(o))'
  BY CountExactIs, PTL

\* Every step but the creation of an object is balanced for every object.
LEMMA Balance ==
  ASSUME TypeOK, NEW t \in Threads, Step(t), ~ Create(t), NEW o \in Objects
  PROVE  Balanced(t, o)
<1>0. /\ Data \in Word
      /\ Count \in [Objects -> Int] /\ Count[o] \in Int
      /\ ref \in [Threads -> Objects \cup {NULL}]
      /\ at \in [Threads -> Label]
      /\ old \in [Threads -> Word]
      /\ Data.ptr \in Objects \cup {NULL} /\ Data.outer \in 0 .. ALIGNMENT - 1
      /\ old[t].ptr \in Objects \cup {NULL} /\ old[t].outer \in 0 .. ALIGNMENT - 1
      /\ at[t] \in {"idle", "increment", "assign"} => old[t] = Plain(NULL)
      /\ at[t] \in {"increment", "count", "reset", "undo", "keep"} => ref[t] = NULL
      /\ at[t] = "assign" => ref[t] # NULL
  BY DEF TypeOK, Word
<1>1. \A p : Plain(p).ptr = p /\ Plain(p).outer = 0
  BY DEF Plain
<1>2. \A p \in Objects \cup {NULL}, n \in Int :
        Add(p, n) => Count'[o] = IF p = o THEN Count[o] + n ELSE Count[o]
  BY <1>0 DEF Add
<1>3. CASE NotNull(t)
  BY <1>0, <1>1, <1>3 DEF NotNull, Goto, counts, Balanced, InData, Part, Share, Local
<1>4. CASE Increment(t)
  <2>1. Data'.ptr = Data.ptr /\ Data'.outer = Data.outer + 1 /\ old'[t] = Data'
        /\ at[t] = "increment" /\ at'[t] = "count" /\ Count' = Count /\ ref' = ref
    BY <1>0, <1>4 DEF Increment, Word, Goto, counts
  <2> QED
    BY <1>0, <1>1, <2>1 DEF Balanced, InData, Part, Share, Local
<1>5. CASE CountIn(t)
  <2>1. ALIGNMENT - old[t].outer + 1 \in Int /\ Add(old[t].ptr, ALIGNMENT - old[t].outer + 1)
        /\ at[t] = "count" /\ at'[t] = "reset" /\ Data' = Data /\ ref' = ref /\ old' = old
    BY <1>0, <1>5 DEF CountIn, Goto
  <2>2. Count'[o] = IF old[t].ptr = o THEN Count[o] + (ALIGNMENT - old[t].outer + 1) ELSE Count[o]
    BY <1>0, <1>2, <2>1
  <2> QED
    BY <1>0, <2>1, <2>2 DEF Balanced, InData, Part, Share, Local
<1>6. CASE ResetOuter(t)
  <2>0. at[t] = "reset" /\ Count' = Count /\ ref[t] = NULL
    BY <1>0, <1>6 DEF ResetOuter, counts
  <2>1. CASE Data = old[t]
    <3>1. Data' = Plain(Data.ptr) /\ Acquired(t)
      BY <1>6, <2>1 DEF ResetOuter
    <3>2. Data'.ptr = Data.ptr /\ Data'.outer = 0 /\ ref'[t] = old[t].ptr /\ old'[t] = Plain(NULL) /\ at'[t] = "idle"
      BY <1>0, <1>1, <3>1 DEF Acquired, Goto
    <3> QED
      BY <1>0, <1>1, <2>0, <2>1, <3>2 DEF Balanced, InData, Part, Share, Local
  <2>2. CASE Data # old[t] /\ old[t].ptr # NULL
    <3>1. Data' = Data /\ ref' = ref /\ old' = old /\ at'[t] = "undo"
      BY <1>0, <1>6, <2>2 DEF ResetOuter, Goto
    <3> QED
      BY <1>0, <2>0, <3>1 DEF Balanced, InData, Part, Share, Local
  <2>3. CASE Data # old[t] /\ old[t].ptr = NULL
    <3>1. Data' = Data /\ ref'[t] = NULL /\ old'[t] = Plain(NULL) /\ at'[t] = "idle"
      BY <1>0, <1>6, <2>3 DEF ResetOuter, Acquired, Goto
    <3> QED
      BY <1>0, <1>1, <2>0, <2>3, <3>1 DEF Balanced, InData, Part, Share, Local
  <2> QED
    BY <2>1, <2>2, <2>3
<1>7. CASE Undo(t)
  <2>1. Add(old[t].ptr, old[t].outer) /\ at[t] = "undo" /\ ref[t] = NULL /\ Data' = Data
        /\ ref'[t] = old[t].ptr /\ old'[t] = Plain(NULL) /\ at'[t] = "idle"
    BY <1>0, <1>7 DEF Undo, Acquired, Goto
  <2>2. Count'[o] = IF old[t].ptr = o THEN Count[o] + old[t].outer ELSE Count[o]
    BY <1>0, <1>2, <2>1
  <2> QED
    BY <1>0, <1>1, <2>1, <2>2 DEF Balanced, InData, Part, Share, Local
<1>8. CASE Copy(t)
  <2>1. Add(ref[t], ALIGNMENT) /\ at[t] = "idle" /\ at'[t] = "assign" /\ Data' = Data /\ ref' = ref /\ old' = old
    BY <1>0, <1>8 DEF Copy, Goto
  <2>2. Count'[o] = IF ref[t] = o THEN Count[o] + ALIGNMENT ELSE Count[o]
    BY <1>0, <1>2, <2>1
  <2> QED
    BY <1>0, <1>1, <2>1, <2>2 DEF Balanced, InData, Part, Share, Local
<1>9. CASE Assign(t)
  <2>1. Data' = Plain(ref[t]) /\ old'[t] = Data /\ at[t] = "assign" /\ at'[t] = "transfer"
        /\ Count' = Count /\ ref' = ref
    BY <1>0, <1>9 DEF Assign, Xch, Goto, counts
  <2> QED
    BY <1>0, <1>1, <2>1 DEF Balanced, InData, Part, Share, Local
<1>10. CASE Swap(t)
  <2>1. Data' = Plain(ref[t]) /\ old'[t] = Data /\ at[t] = "idle" /\ at'[t] = "keep"
        /\ Count' = Count /\ ref'[t] = NULL
    BY <1>0, <1>10 DEF Swap, Xch, Goto, counts
  <2> QED
    BY <1>0, <1>1, <2>1 DEF Balanced, InData, Part, Share, Local
<1>11. CASE Reset(t)
  <2>1. Data' = Plain(NULL) /\ old'[t] = Data /\ at[t] = "idle" /\ at'[t] = "release"
        /\ Count' = Count /\ ref' = ref
    BY <1>0, <1>11 DEF Reset, Xch, Goto, counts
  <2> QED
    BY <1>0, <1>1, <2>1 DEF Balanced, InData, Part, Share, Local
<1>12. CASE Transfer(t)
  <2>1. Add(old[t].ptr, - old[t].outer) /\ - old[t].outer \in Int /\ Data' = Data
    BY <1>0, <1>12 DEF Transfer
  <2>2. Count'[o] = IF old[t].ptr = o THEN Count[o] - old[t].outer ELSE Count[o]
    BY <1>0, <1>2, <2>1
  <2>3. CASE at[t] = "keep"
    <3>1. ref[t] = NULL /\ ref'[t] = old[t].ptr /\ old'[t] = Plain(NULL) /\ at'[t] = "idle"
      BY <1>0, <1>12, <2>3 DEF Transfer, Acquired, Goto
    <3> QED
      BY <1>0, <1>1, <2>1, <2>2, <2>3, <3>1 DEF Balanced, InData, Part, Share, Local
  <2>4. CASE at[t] = "transfer"
    <3>1. ref' = ref /\ old'[t].ptr = old[t].ptr /\ old'[t].outer = 0 /\ at'[t] = "release"
      BY <1>0, <1>12, <2>4 DEF Transfer, Goto, Word
    <3> QED
      BY <1>0, <2>1, <2>2, <2>4, <3>1 DEF Balanced, InData, Part, Share, Local
  <2> QED
    BY <1>12, <2>3, <2>4 DEF Transfer
<1>14. CASE Release(t)
  <2>1. Add(old[t].ptr, - (old[t].outer + ALIGNMENT)) /\ - (old[t].outer + ALIGNMENT) \in Int
        /\ at[t] = "release" /\ at'[t] = "idle" /\ Data' = Data /\ ref' = ref /\ old'[t] = Plain(NULL)
    BY <1>0, <1>14 DEF Release, Discard, Goto
  <2>2. Count'[o] = IF old[t].ptr = o THEN Count[o] - (old[t].outer + ALIGNMENT) ELSE Count[o]
    BY <1>0, <1>2, <2>1
  <2> QED
    BY <1>0, <1>1, <2>1, <2>2 DEF Balanced, InData, Part, Share, Local
<1>15. CASE Drop(t)
  <2>1. Add(ref[t], - (0 + ALIGNMENT)) /\ - (0 + ALIGNMENT) \in Int
        /\ at[t] = "idle" /\ at' = at /\ Data' = Data /\ ref'[t] = NULL /\ old' = old
    BY <1>0, <1>1, <1>15 DEF Drop, Discard
  <2>2. Count'[o] = IF ref[t] = o THEN Count[o] - ALIGNMENT ELSE Count[o]
    BY <1>0, <1>2, <2>1
  <2> QED
    BY <1>0, <1>1, <2>1, <2>2 DEF Balanced, InData, Part, Share, Local
<1> QED
  BY <1>3, <1>4, <1>5, <1>6, <1>7, <1>8, <1>9, <1>10, <1>11, <1>12, <1>14, <1>15 DEF Step, Acquire

\* The part of Data is an integer.
LEMMA InDataInt == TypeOK => \A o \in Objects : InData(o) \in Int
  BY DEF TypeOK, Word, InData

\* InDataInt in the next state.
LEMMA InDataIntNext == (TypeOK => \A o \in Objects : InData(o) \in Int)'
  BY InDataInt, PTL

\* So are the parts of the threads.
LEMMA PartInt == TypeOK => \A o \in Objects, t \in Threads : Part(t, o) \in Int
  BY PartIs

\* PartInt in the next state.
LEMMA PartIntNext == (TypeOK => \A o \in Objects, t \in Threads : Part(t, o) \in Int)'
  BY PartInt, PTL

\* The count of an object is its sum after the step, also when the step deletes it.
LEMMA Sums ==
  ASSUME TypeOK, CountExact, NEW t \in Threads, Step(t), ~ Create(t), NEW o \in live
  PROVE  Count'[o] = InData(o)' + Total(o)'
<1>1. o \in Objects
  BY DEF TypeOK
<1>2. TypeOK' /\ OthersSame(t)
  BY TypeStep
<1>3. Total(o) \in Int /\ Total(o)' = Total(o) + (Part(t, o)' - Part(t, o))
  BY <1>1, <1>2, TotalChange DEF OthersSame
<1>4. Count'[o] = Count[o] + ((InData(o)' - InData(o)) + (Part(t, o)' - Part(t, o)))
  BY <1>1, Balance DEF Balanced
<1>5. Count[o] = InData(o) + Total(o)
  BY CountExactIs
<1>6. InData(o) \in Int /\ InData(o)' \in Int /\ Part(t, o) \in Int /\ Part(t, o)' \in Int
  BY <1>1, <1>2, InDataInt, InDataIntNext, PartInt, PartIntNext
<1> QED
  BY <1>3, <1>4, <1>5, <1>6

\* Only Create makes objects.
LEMMA LiveShrinks ==
  ASSUME NEW t \in Threads, Step(t), ~ Create(t)
  PROVE  live' \subseteq live
<1>1. Discard(old[t]) => live' \subseteq live
  BY DEF Discard
<1>2. Discard(Plain(ref[t])) => live' \subseteq live
  BY DEF Discard
<1>3. Acquire(t) => live' = live
  BY DEF Acquire, NotNull, Increment, CountIn, ResetOuter, Undo, counts
<1>4. Copy(t) \/ Assign(t) \/ Swap(t) \/ Reset(t) \/ Transfer(t) => live' = live
  BY DEF Copy, Assign, Swap, Reset, Transfer, counts
<1>5. Release(t) \/ Drop(t) => live' \subseteq live
  BY <1>1, <1>2 DEF Release, Drop
<1> QED
  BY <1>3, <1>4, <1>5 DEF Step

\* A new object is at an address without references, so its sum has been zero.
LEMMA SumOfNew ==
  ASSUME TypeOK, CountExact, NEW t \in Threads, Create(t), NEW o \in live'
  PROVE  Count'[o] = InData(o)' + Total(o)'
<1>0. TypeOK' /\ OthersSame(t)
  BY TypeStep DEF Step
<1>1. PICK n \in Objects \ live :
        /\ Data.ptr # n /\ \A u \in Threads : ref[u] # n /\ old[u].ptr # n
        /\ live' = live \cup {n}
        /\ Count' = [Count EXCEPT ![n] = ALIGNMENT]
        /\ ref' = [ref EXCEPT ![t] = n]
  BY DEF Create
<1>2. at[t] = "idle" /\ ref[t] = NULL /\ Data' = Data /\ at' = at /\ old' = old
  BY DEF Create
<1>3. o \in Objects /\ Count \in [Objects -> Int] /\ ref'[t] = n /\ old[t] = Plain(NULL)
  BY <1>0, <1>1, <1>2 DEF TypeOK
<1>4. Total(o) \in Int /\ Total(o)' = Total(o) + (Part(t, o)' - Part(t, o))
  BY <1>0, <1>3, TotalChange DEF OthersSame
<1>5. InData(o)' = InData(o) /\ InData(o) \in Int
  BY <1>2, <1>3, InDataInt DEF InData
<1>6. Plain(NULL).ptr = NULL
  BY DEF Plain
<1>7. CASE o = n
  <2>1. o \notin Refs
    BY <1>1, <1>7 DEF Refs, InFlight
  <2>2. InData(o) + Total(o) = 0
    BY <1>3, <2>1, UnusedIsZero
  <2>3. Part(t, o) = 0 /\ Part(t, o)' = ALIGNMENT
    BY <1>2, <1>3, <1>6, <1>7 DEF Part, Share, Local
  <2>4. Count'[o] = ALIGNMENT
    BY <1>1, <1>3, <1>7
  <2> QED
    BY <1>4, <1>5, <2>2, <2>3, <2>4
<1>8. CASE o # n
  <2>1. o \in live /\ Count'[o] = Count[o]
    BY <1>1, <1>3, <1>8
  <2>2. Part(t, o) = 0 /\ Part(t, o)' = 0
    BY <1>2, <1>3, <1>6, <1>8 DEF Part, Share, Local
  <2>3. Count[o] = InData(o) + Total(o)
    BY <2>1, CountExactIs
  <2> QED
    BY <1>4, <1>5, <2>1, <2>2, <2>3
<1> QED
  BY <1>7, <1>8

\* Each step keeps the counts exact.
LEMMA CountsStayExact ==
  ASSUME TypeOK, CountExact, NEW t \in Threads, Step(t)
  PROVE  CountExact'
<1>1. ASSUME NEW o \in live' PROVE Count'[o] = InData(o)' + Total(o)'
  BY <1>1, Sums, SumOfNew, LiveShrinks
<1> QED
  BY <1>1, CountExactNext

\* What is not referenced after a step has a count of zero.
LEMMA CountOfUnused ==
  ASSUME TypeOK, CountExact, NEW t \in Threads, Step(t), ~ Create(t), NEW o \in live, o \notin Refs'
  PROVE  Count'[o] = 0
<1>1. TypeOK' /\ o \in Objects
  BY TypeStep DEF TypeOK
<1>2. InData(o)' + Total(o)' = 0
  BY <1>1, UnusedIsZeroNext
<1> QED
  BY <1>2, Sums

\* What is referenced after a step has not, unless it is crowded.
LEMMA CountOfUsed ==
  ASSUME TypeOK, CountExact, NEW t \in Threads, Step(t), ~ Create(t), NEW o \in live, o \in Refs', ~ Crowded'
  PROVE  Count'[o] # 0
<1>1. TypeOK' /\ o \in Objects
  BY TypeStep DEF TypeOK
<1>2. InData(o)' + Total(o)' # 0
  BY <1>1, ZeroIsUnusedNext
<1> QED
  BY <1>2, Sums

(***************************************************************************)
(* Each step is one of SharedPointer, or none.                             *)
(***************************************************************************)

\* A step changes what the thread itself holds only.
LEMMA HeldChange ==
  ASSUME NEW t \in Threads, OthersSame(t)
  PROVE  Held' = [Held EXCEPT ![t] = InFlight(t)']
<1>1. \A u \in Threads \ {t} : InFlight(u)' = InFlight(u)
  BY DEF OthersSame, InFlight
<1> QED
  BY <1>1 DEF Held

\* The steps of SharedPointer that give up no reference, or none.
KeepsReferences(t) ==
  \/ UNCHANGED Abstract!vars
  \/ Abstract!Create(t) \/ Abstract!Read(t)
  \/ \E p \in Objects \cup {NULL} : Abstract!Exchange(t, p)
  \/ \E o \in Objects : Abstract!Swap(t, o)

\* A read takes effect with the increment of the outer count, an exchange when the word is
\* exchanged.
LEMMA MapsAtOnce ==
  ASSUME TypeOK, NEW t \in Threads, Step(t), ~ Release(t), ~ Drop(t)
  PROVE  KeepsReferences(t)
<1>0. /\ Data \in Word
      /\ live \subseteq Objects
      /\ ref \in [Threads -> Objects \cup {NULL}]
      /\ at \in [Threads -> Label]
      /\ old \in [Threads -> Word]
      /\ Data.ptr \in Objects \cup {NULL}
      /\ old[t].ptr \in Objects \cup {NULL}
      /\ at[t] \in {"idle", "increment", "assign"} => old[t] = Plain(NULL)
      /\ at[t] \in {"increment", "count", "reset", "undo", "keep"} => ref[t] = NULL
      /\ at[t] = "assign" => ref[t] # NULL
  BY DEF TypeOK, Word
<1>1. \A p : Plain(p).ptr = p
  BY DEF Plain
<1>2. OthersSame(t) /\ TypeOK'
  BY TypeStep
<1>3. Held' = [Held EXCEPT ![t] = InFlight(t)'] /\ Held[t] = InFlight(t)
  BY <1>2, HeldChange DEF Held
<1>4. ASSUME InFlight(t)' = InFlight(t), Data'.ptr = Data.ptr, live' = live
      PROVE  KeepsReferences(t)
  BY <1>3, <1>4 DEF Held, Abstract!vars, KeepsReferences
<1>5. CASE NotNull(t)
  BY <1>4, <1>5 DEF NotNull, counts, InFlight
<1>6. CASE Increment(t)
  <2>1. InFlight(t)' = InFlight(t) \cup ({Data.ptr} \ {NULL}) /\ Data'.ptr = Data.ptr /\ live' = live
    BY <1>0, <1>1, <1>6 DEF Increment, counts, InFlight, Word
  <2>2. Abstract!Read(t)
    BY <1>3, <2>1 DEF Held, Abstract!Read, Abstract!Hold
  <2> QED
    BY <2>2 DEF KeepsReferences
<1>7. CASE CountIn(t)
  BY <1>4, <1>7 DEF CountIn, InFlight
<1>8. CASE ResetOuter(t)
  <2>1. InFlight(t)' = InFlight(t)
    BY <1>0, <1>1, <1>8 DEF ResetOuter, Acquired, InFlight
  <2>2. Data'.ptr = Data.ptr /\ live' = live
    BY <1>1, <1>8 DEF ResetOuter, counts
  <2> QED
    BY <1>4, <2>1, <2>2
<1>9. CASE Undo(t)
  <2>1. InFlight(t)' = InFlight(t) /\ Data'.ptr = Data.ptr /\ live' = live
    BY <1>0, <1>1, <1>9 DEF Undo, Acquired, InFlight
  <2> QED
    BY <1>4, <2>1
<1>10. CASE Copy(t)
  BY <1>4, <1>10 DEF Copy, InFlight
<1>11. CASE Assign(t)
  <2>1. /\ InFlight(t)' = InFlight(t) \cup ({Data.ptr} \ {NULL}) /\ ref[t] \in InFlight(t)
        /\ Data'.ptr = ref[t] /\ live' = live
    BY <1>0, <1>1, <1>11 DEF Assign, Xch, counts, InFlight
  <2>2. Abstract!Exchange(t, ref[t])
    BY <1>3, <2>1 DEF Held, Abstract!Exchange, Abstract!Hold
  <2> QED
    BY <1>0, <2>2 DEF KeepsReferences
<1>12. CASE Swap(t)
  <2>1. /\ InFlight(t) = {ref[t]} \ {NULL} /\ InFlight(t)' = {Data.ptr} \ {NULL}
        /\ Data'.ptr = ref[t] /\ live' = live
    BY <1>0, <1>1, <1>12 DEF Swap, Xch, counts, InFlight
  <2>2. CASE ref[t] = NULL
    <3>1. Abstract!Exchange(t, NULL)
      BY <1>3, <2>1, <2>2 DEF Held, Abstract!Exchange, Abstract!Hold
    <3> QED
      BY <3>1 DEF KeepsReferences
  <2>3. CASE ref[t] # NULL
    <3>1. Abstract!Swap(t, ref[t])
      BY <1>3, <2>1, <2>3 DEF Held, Abstract!Swap
    <3> QED
      BY <1>0, <2>3, <3>1 DEF KeepsReferences
  <2> QED
    BY <2>2, <2>3
<1>13. CASE Reset(t)
  <2>1. /\ InFlight(t)' = InFlight(t) \cup ({Data.ptr} \ {NULL})
        /\ Data'.ptr = NULL /\ live' = live
    BY <1>0, <1>1, <1>13 DEF Reset, Xch, counts, InFlight
  <2>2. Abstract!Exchange(t, NULL)
    BY <1>3, <2>1 DEF Held, Abstract!Exchange, Abstract!Hold
  <2> QED
    BY <2>2 DEF KeepsReferences
<1>14. CASE Transfer(t)
  <2>1. InFlight(t)' = InFlight(t)
    <3>1. CASE at[t] = "keep"
      BY <1>0, <1>1, <1>14, <3>1 DEF Transfer, Acquired, InFlight
    <3>2. CASE at[t] = "transfer"
      <4>1. ref' = ref /\ old'[t].ptr = old[t].ptr
        BY <1>0, <1>14, <3>2 DEF Transfer, Word
      <4> QED
        BY <4>1 DEF InFlight
    <3> QED
      BY <1>14, <3>1, <3>2 DEF Transfer
  <2>2. Data'.ptr = Data.ptr /\ live' = live
    BY <1>14 DEF Transfer
  <2> QED
    BY <1>4, <2>1, <2>2
<1>15. CASE Create(t)
  <2>1. PICK n \in Objects \ live : live' = live \cup {n} /\ ref' = [ref EXCEPT ![t] = n]
    BY <1>15 DEF Create
  <2>2. ref[t] = NULL /\ old[t].ptr = NULL /\ Data' = Data /\ old' = old
    BY <1>0, <1>1, <1>15 DEF Create
  <2>3. InFlight(t)' = InFlight(t) \cup ({n} \ {NULL})
    BY <1>0, <2>1, <2>2 DEF InFlight
  <2>4. Abstract!Hold(t, n)
    BY <1>3, <2>3 DEF Held, Abstract!Hold
  <2>5. Abstract!Create(t)
    BY <2>1, <2>2, <2>4 DEF Abstract!Create
  <2> QED
    BY <2>5 DEF KeepsReferences
<1> QED
  BY <1>5, <1>6, <1>7, <1>8, <1>9, <1>10, <1>11, <1>12, <1>13, <1>14, <1>15 DEF Step, Acquire

\* None of them leaves an object without a reference.
LEMMA ReferencesStay ==
  ASSUME TypeOK, NEW t \in Threads, KeepsReferences(t)
  PROVE  /\ live \subseteq live'
         /\ live' \subseteq live \cup Refs'
         /\ Refs \subseteq Refs'
<1>0. /\ Held = [u \in Threads |-> InFlight(u)]
      /\ Refs = ({Data.ptr} \ {NULL}) \cup UNION {Held[u] : u \in Threads}
  BY DEF Held, Refs
<1>1. Refs' = ({Data'.ptr} \ {NULL}) \cup UNION {Held'[u] : u \in Threads}
  BY DEF Held, Refs
<1>2. CASE UNCHANGED Abstract!vars
  BY <1>0, <1>1, <1>2 DEF Abstract!vars, Held
<1>3. CASE Abstract!Create(t)
  <2>1. PICK o \in Objects \ live : Abstract!Hold(t, o) /\ live' = live \cup {o} /\ Data'.ptr = Data.ptr
    BY <1>3 DEF Abstract!Create
  <2>2. Held' = [Held EXCEPT ![t] = @ \cup {o}]
    BY <2>1 DEF Abstract!Hold, Held
  <2> QED
    BY <1>0, <1>1, <2>1, <2>2
<1>4. CASE Abstract!Read(t)
  <2>1. Held' = [Held EXCEPT ![t] = @ \cup ({Data.ptr} \ {NULL})] /\ Data'.ptr = Data.ptr /\ live' = live
    BY <1>4 DEF Abstract!Read, Abstract!Hold, Held
  <2> QED
    BY <1>0, <1>1, <2>1
<1>5. ASSUME NEW p \in Objects \cup {NULL}, Abstract!Exchange(t, p)
      PROVE  live' = live /\ Refs \subseteq Refs'
  <2>1. Held' = [Held EXCEPT ![t] = @ \cup ({Data.ptr} \ {NULL})] /\ live' = live
    BY <1>5 DEF Abstract!Exchange, Abstract!Hold, Held
  <2> QED
    BY <1>0, <1>1, <2>1
<1>6. ASSUME NEW o \in Objects, Abstract!Swap(t, o)
      PROVE  live' = live /\ Refs \subseteq Refs'
  <2>1. /\ Held' = [Held EXCEPT ![t] = (@ \ {o}) \cup ({Data.ptr} \ {NULL})]
        /\ live' = live /\ Data'.ptr = o /\ o # NULL
    BY <1>6 DEF Abstract!Swap, Held
  <2>2. ASSUME NEW x \in Refs PROVE x \in Refs'
    <3>1. CASE x = o
      BY <1>1, <2>1, <3>1
    <3>2. CASE x # o /\ x \in {Data.ptr} \ {NULL}
      <4>1. x \in Held'[t]
        BY <1>0, <2>1, <3>2
      <4> QED
        BY <1>1, <4>1
    <3>3. CASE x # o /\ \E u \in Threads : x \in Held[u]
      <4>1. PICK u \in Threads : x \in Held[u]
        BY <3>3
      <4>2. x \in Held'[u]
        BY <1>0, <2>1, <3>3, <4>1
      <4> QED
        BY <1>1, <4>2
    <3> QED
      BY <1>0, <2>2, <3>1, <3>2, <3>3
  <2> QED
    BY <2>1, <2>2
<1> QED
  BY <1>2, <1>3, <1>4, <1>5, <1>6 DEF KeepsReferences

\* What Release and Drop do: t gives up p, of which it may have another reference.
GivesUp(t, p) ==
  /\ p \in Objects /\ p \in InFlight(t)
  /\ Data' = Data
  /\ InFlight(t)' = InFlight(t) \/ InFlight(t)' = InFlight(t) \ {p}
  /\ live' = IF Count'[p] = 0 THEN live \ {p} ELSE live

\* Release and Drop give up something or are without effect.
LEMMA DeletesLast ==
  ASSUME TypeOK, NEW t \in Threads, Release(t) \/ Drop(t)
  PROVE  /\ ~ Create(t)
         /\ \/ InFlight(t)' = InFlight(t) /\ Data' = Data /\ live' = live
            \/ \E p \in Objects : GivesUp(t, p)
<1>0. /\ ref \in [Threads -> Objects \cup {NULL}]
      /\ at \in [Threads -> Label]
      /\ old \in [Threads -> Word]
      /\ old[t].ptr \in Objects \cup {NULL}
      /\ at[t] = "idle" => old[t] = Plain(NULL)
  BY DEF TypeOK, Word
<1>1. \A p : Plain(p).ptr = p
  BY DEF Plain
<1>2. CASE Release(t)
  <2> DEFINE p == old[t].ptr
  <2>1. /\ at[t] = "release" /\ ref' = ref /\ Data' = Data /\ old'[t] = Plain(NULL)
        /\ live' = IF p # NULL /\ Count'[p] = 0 THEN live \ {p} ELSE live
    BY <1>0, <1>2 DEF Release, Discard
  <2>2. ~ Create(t)
    BY <2>1 DEF Create
  <2>3. CASE p = NULL
    BY <1>1, <2>1, <2>2, <2>3 DEF InFlight
  <2>4. CASE p # NULL
    <3>1. p \in InFlight(t) /\ (InFlight(t)' = InFlight(t) \/ InFlight(t)' = InFlight(t) \ {p})
      BY <1>1, <2>1, <2>4 DEF InFlight
    <3>2. GivesUp(t, p)
      BY <1>0, <2>1, <2>4, <3>1 DEF GivesUp
    <3> QED
      BY <1>0, <2>2, <2>4, <3>2
  <2> QED
    BY <2>3, <2>4
<1>3. CASE Drop(t)
  <2>1. /\ ref[t] # NULL /\ ref'[t] = NULL /\ Data' = Data /\ old' = old /\ old[t].ptr = NULL
        /\ live' = IF Count'[ref[t]] = 0 THEN live \ {ref[t]} ELSE live
    BY <1>0, <1>1, <1>3 DEF Drop, Discard
  <2>2. ~ Create(t)
    BY <2>1 DEF Create
  <2>3. GivesUp(t, ref[t])
    BY <1>0, <2>1 DEF InFlight, GivesUp
  <2> QED
    BY <1>0, <2>1, <2>2, <2>3
<1> QED
  BY <1>2, <1>3

\* A release takes effect when the count is decremented.
LEMMA ReleaseMaps ==
  ASSUME TypeOK, CountExact, NEW t \in Threads, Step(t), Release(t) \/ Drop(t), ~ Crowded'
  PROVE  [Abstract!Next]_Abstract!vars
<1>1. Held' = [Held EXCEPT ![t] = InFlight(t)'] /\ Held[t] = InFlight(t)
  BY TypeStep, HeldChange DEF Held
<1>2. CASE InFlight(t)' = InFlight(t) /\ Data' = Data /\ live' = live
  BY <1>1, <1>2 DEF Held, Abstract!vars
<1>3. ASSUME NEW p \in Objects, GivesUp(t, p) PROVE [Abstract!Next]_Abstract!vars
  <2>0. /\ p \in InFlight(t) /\ Data' = Data
        /\ InFlight(t)' = InFlight(t) \/ InFlight(t)' = InFlight(t) \ {p}
        /\ live' = IF Count'[p] = 0 THEN live \ {p} ELSE live
    BY <1>3 DEF GivesUp
  <2>1. p \in live => (Count'[p] = 0 <=> p \notin Refs')
    BY DeletesLast, CountOfUnused, CountOfUsed
  <2>2. live' = live \ ({p} \ Refs')
    BY <2>0, <2>1
  <2>3. CASE InFlight(t)' = InFlight(t)
    <3>1. p \in Refs'
      BY <2>0, <2>3 DEF Refs
    <3> QED
      BY <1>1, <2>0, <2>2, <2>3, <3>1 DEF Held, Abstract!vars
  <2>4. CASE InFlight(t)' = InFlight(t) \ {p}
    <3>1. Abstract!Referenced' = Refs'
      BY DEF Abstract!Referenced, Refs
    <3>2. Abstract!Release(t, p)
      BY <1>1, <2>0, <2>2, <2>4, <3>1 DEF Held, Abstract!Release
    <3> QED
      BY <3>2 DEF Abstract!Next
  <2> QED
    BY <2>0, <2>3, <2>4
<1> QED
  BY <1>2, <1>3, DeletesLast

\* Each step is one of SharedPointer or none, unless it is crowded after it.
LEMMA StepMaps ==
  ASSUME TypeOK, CountExact, NEW t \in Threads, Step(t), ~ Crowded'
  PROVE  [Abstract!Next]_Abstract!vars
<1>1. KeepsReferences(t) => [Abstract!Next]_Abstract!vars
  BY DEF KeepsReferences, Abstract!Next
<1> QED
  BY <1>1, MapsAtOnce, ReleaseMaps

\* What has lost its last reference has been deleted, crowded or not.
LEMMA NothingStays ==
  ASSUME TypeOK, CountExact, NothingLeft, NEW t \in Threads, Step(t)
  PROVE  NothingLeft'
<1>1. live \subseteq Refs
  BY DEF NothingLeft, Abstract!Referenced, Refs
<1>2. CASE ~ Release(t) /\ ~ Drop(t)
  <2>1. live' \subseteq Refs'
    BY <1>1, <1>2, MapsAtOnce, ReferencesStay
  <2> QED
    BY <2>1 DEF NothingLeft, Abstract!Referenced, Refs
<1>3. CASE Release(t) \/ Drop(t)
  <2>1. \A u \in Threads \ {t} : InFlight(u)' = InFlight(u)
    BY TypeStep DEF OthersSame, InFlight
  <2>2. CASE InFlight(t)' = InFlight(t) /\ Data' = Data /\ live' = live
    <3>1. Refs' = Refs
      <4>1. \A u \in Threads : InFlight(u)' = InFlight(u)
        BY <2>1, <2>2
      <4> QED
        BY <2>2, <4>1 DEF Refs
    <3>2. live' \subseteq Refs'
      BY <1>1, <2>2, <3>1
    <3> QED
      BY <3>2 DEF NothingLeft, Abstract!Referenced, Refs
  <2>3. ASSUME NEW p \in Objects, GivesUp(t, p) PROVE NothingLeft'
    <3>0. /\ p \in InFlight(t) /\ Data' = Data
          /\ InFlight(t)' = InFlight(t) \/ InFlight(t)' = InFlight(t) \ {p}
          /\ live' = IF Count'[p] = 0 THEN live \ {p} ELSE live
      BY <2>3 DEF GivesUp
    <3>1. ASSUME NEW x \in live', x # p PROVE x \in Refs'
      <4>1. x \in Refs
        BY <1>1, <3>0, <3>1
      <4>2. CASE x \in {Data.ptr} \ {NULL}
        BY <3>0, <4>2 DEF Refs
      <4>3. CASE \E u \in Threads : x \in InFlight(u)
        <5>1. PICK u \in Threads : x \in InFlight(u)
          BY <4>3
        <5>2. x \in InFlight(u)'
          BY <2>1, <3>0, <3>1, <5>1
        <5> QED
          BY <5>2 DEF Refs
      <4> QED
        BY <4>1, <4>2, <4>3 DEF Refs
    <3>2. ASSUME p \in live', p \notin Refs' PROVE FALSE
      <4>1. p \in live
        BY <3>0, <3>2
      <4>2. Count'[p] = 0
        BY <1>3, <3>2, <4>1, DeletesLast, CountOfUnused
      <4> QED
        BY <3>0, <3>2, <4>2
    <3>3. live' \subseteq Refs'
      BY <3>1, <3>2
    <3> QED
      BY <3>3 DEF NothingLeft, Abstract!Referenced, Refs
  <2> QED
    BY <1>3, <2>2, <2>3, DeletesLast
<1> QED
  BY <1>2, <1>3

(***************************************************************************)
(* The theorems.                                                           *)
(***************************************************************************)

\* The invariant of SharedPointer in terms of Held.
LEMMA AbstractInvIs ==
  AbstractInv <=>
    /\ Data.ptr \in Objects \cup {NULL} /\ Held \in [Threads -> SUBSET Objects] /\ live \subseteq Objects
    /\ live = ({Data.ptr} \ {NULL}) \cup UNION {Held[t] : t \in Threads}
  BY DEF AbstractInv, Abstract!TypeOK, LiveIffReferenced, Abstract!Referenced, Held

\* AbstractInvIs in the next state.
LEMMA AbstractInvNext ==
  AbstractInv' <=>
    /\ Data'.ptr \in Objects \cup {NULL} /\ Held' \in [Threads -> SUBSET Objects] /\ live' \subseteq Objects
    /\ live' = ({Data'.ptr} \ {NULL}) \cup UNION {Held'[t] : t \in Threads}
  BY DEF AbstractInv, Abstract!TypeOK, LiveIffReferenced, Abstract!Referenced, Held

\* The steps of SharedPointer keep its invariant.
LEMMA AbstractKeeps ==
  ASSUME AbstractInv, [Abstract!Next]_Abstract!vars
  PROVE  AbstractInv'
<1>1. /\ Data.ptr \in Objects \cup {NULL} /\ Held \in [Threads -> SUBSET Objects] /\ live \subseteq Objects
      /\ live = ({Data.ptr} \ {NULL}) \cup UNION {Held[t] : t \in Threads}
  BY AbstractInvIs
<1>2. ASSUME NEW t \in Threads, Abstract!Create(t) PROVE AbstractInv'
  <2>1. PICK o \in Objects \ live : Abstract!Hold(t, o) /\ live' = live \cup {o} /\ Data'.ptr = Data.ptr
    BY <1>2 DEF Abstract!Create
  <2>2. Held' = [Held EXCEPT ![t] = @ \cup {o}]
    BY <2>1, NULLAssumption DEF Abstract!Hold, Held
  <2> QED BY <1>1, <2>1, <2>2, NULLAssumption, AbstractInvNext
<1>3. ASSUME NEW t \in Threads, Abstract!Read(t) PROVE AbstractInv'
  <2>1. Held' = [Held EXCEPT ![t] = @ \cup ({Data.ptr} \ {NULL})] /\ Data'.ptr = Data.ptr /\ live' = live
    BY <1>3 DEF Abstract!Read, Abstract!Hold, Held
  <2> QED BY <1>1, <2>1, AbstractInvNext
<1>4. ASSUME NEW t \in Threads, NEW p \in Objects \cup {NULL}, Abstract!Exchange(t, p) PROVE AbstractInv'
  <2>1. /\ p \in Held[t] \cup {NULL} /\ Data'.ptr = p /\ live' = live
        /\ Held' = [Held EXCEPT ![t] = @ \cup ({Data.ptr} \ {NULL})]
    BY <1>4 DEF Abstract!Exchange, Abstract!Hold, Held
  <2> QED BY <1>1, <2>1, AbstractInvNext
<1>5. ASSUME NEW t \in Threads, NEW o \in Objects, Abstract!Swap(t, o) PROVE AbstractInv'
  <2>1. /\ o \in Held[t] /\ Data'.ptr = o /\ live' = live
        /\ Held' = [Held EXCEPT ![t] = (@ \ {o}) \cup ({Data.ptr} \ {NULL})]
    BY <1>5 DEF Abstract!Swap, Held
  <2>2. ({o} \ {NULL}) \cup UNION {Held'[u] : u \in Threads}
          = ({Data.ptr} \ {NULL}) \cup UNION {Held[u] : u \in Threads}
    BY <1>1, <2>1, NULLAssumption
  <2> QED BY <1>1, <2>1, <2>2, AbstractInvNext
<1>6. ASSUME NEW t \in Threads, NEW o \in Objects, Abstract!Release(t, o) PROVE AbstractInv'
  <2>1. /\ o \in Held[t] /\ Data'.ptr = Data.ptr
        /\ Held' = [Held EXCEPT ![t] = @ \ {o}]
    BY <1>6 DEF Abstract!Release, Held
  <2> DEFINE R == ({Data'.ptr} \ {NULL}) \cup UNION {Held'[u] : u \in Threads}
  <2>2. live' = live \ ({o} \ R)
    BY <1>6 DEF Abstract!Release, Abstract!Referenced, Held
  <2>3. \A x : x \in live <=> x \in R \/ x = o
    BY <1>1, <2>1
  <2>4. live' = R
    <3> HIDE DEF R
    <3> QED BY <2>2, <2>3
  <2>5. Held' \in [Threads -> SUBSET Objects] /\ live' \subseteq Objects
    BY <1>1, <2>1, <2>2
  <2> QED BY <1>1, <2>1, <2>4, <2>5, AbstractInvNext
<1>7. CASE UNCHANGED Abstract!vars
  BY <1>7, <1>1, AbstractInvNext DEF Abstract!vars, Held
<1> QED BY <1>2, <1>3, <1>4, <1>5, <1>6, <1>7 DEF Abstract!Next

\* However threads read, exchange, swap and release a SharedPointer: what is referenced
\* exists, and what exists is referenced.
THEOREM ReferencesKeepAlive == Abstract!Spec => []LiveIffReferenced
<1>1. Abstract!Init => AbstractInv
  BY AbstractInvIs DEF Abstract!Init, Held
<1>2. AbstractInv /\ [Abstract!Next]_Abstract!vars => AbstractInv'
  BY AbstractKeeps
<1>3. AbstractInv => LiveIffReferenced
  BY DEF AbstractInv
<1> QED
  BY <1>1, <1>2, <1>3, PTL DEF Abstract!Spec

\* The state has its type: the labels of acquire, operator= and release tell what a thread
\* remembers and has.
THEOREM TypeCorrect == Spec => []TypeOK
<1>1. TypeOK /\ [Next]_vars => TypeOK'
  <2> SUFFICES ASSUME TypeOK, [Next]_vars PROVE TypeOK'
    OBVIOUS
  <2>1. CASE UNCHANGED vars
    BY <2>1 DEF vars, counts, TypeOK
  <2>2. CASE Next
    BY <2>2, TypeStep DEF Next, Step
  <2> QED
    BY <2>1, <2>2
<1> QED
  BY TypeInit, <1>1, PTL DEF Spec

\* Initially there is no object and no reference.
LEMMA IInvInit == Init => IInv
<1> SUFFICES ASSUME Init PROVE IInv
  OBVIOUS
<1>1. CountExact /\ NothingLeft
  BY DEF Init, CountExact, NothingLeft
<1> QED
  BY <1>1, TypeInit DEF IInv

\* What changes nothing changes nothing in SharedPointer.
LEMMA StutterIsStutter == UNCHANGED vars => UNCHANGED Abstract!vars
  BY DEF vars, counts, Abstract!vars, InFlight

\* The invariant is inductive.
LEMMA IInvStep == IInv /\ [Next]_vars => IInv'
<1> SUFFICES ASSUME IInv, [Next]_vars PROVE IInv'
  OBVIOUS
<1> USE DEF IInv
<1>1. CASE UNCHANGED vars
  <2>1. TypeOK'
    BY <1>1 DEF vars, counts, TypeOK
  <2>2. CountExact'
    <3>1. \A o : Parts(o)' = Parts(o) /\ InData(o)' = InData(o)
      BY <1>1 DEF vars, counts, Parts, Part, Share, Local, InData
    <3>2. \A o : Total(o)' = Total(o)
      <4>1. TAKE o
      <4>2. PICK h : IsSum(h, Parts(o), Threads) /\ Total(o) = h[Threads]
        BY TotalIs
      <4>3. PICK k : IsSum(k, Parts(o)', Threads) /\ Total(o)' = k[Threads]
        BY TotalNext
      <4> DEFINE F == Parts(o)
      <4>4. IsSum(h, F, Threads) /\ IsSum(k, F, Threads)
        BY <3>1, <4>2, <4>3
      <4> HIDE DEF F
      <4>5. h[Threads] = k[Threads]
        BY <4>4, ThreadsAssumption, SumAgree
      <4> QED
        BY <4>2, <4>3, <4>5
    <3>3. Count' = Count /\ live' = live
      BY <1>1 DEF vars, counts
    <3> QED
      BY <3>1, <3>2, <3>3, CountExactIs, CountExactNext
  <2>3. NothingLeft'
    BY <1>1 DEF vars, counts, NothingLeft, Abstract!Referenced, InFlight
  <2> QED
    BY <2>1, <2>2, <2>3
<1>2. CASE Next
  <2>1. PICK t \in Threads : Step(t)
    BY <1>2 DEF Next, Step
  <2> QED
    BY <2>1, TypeStep, CountsStayExact, NothingStays
<1> QED
  BY <1>1, <1>2

\* However the accesses of acquire, transfer, swap and release interleave, a count is the
\* number of references and of reads that are counted in, for any number of threads and
\* of reads that overlap.
THEOREM CountsAreExact == Spec => []CountExact
<1>1. IInv => CountExact
  BY DEF IInv
<1> QED
  BY IInvInit, IInvStep, <1>1, PTL DEF Spec

\* The last release deletes an object, whatever it overlaps with: none is left over.
THEOREM NothingLeaks == Spec => []NothingLeft
<1>1. IInv => NothingLeft
  BY DEF IInv
<1> QED
  BY IInvInit, IInvStep, <1>1, PTL DEF Spec

\* smartptr.h promises operations that are atomic although each takes several accesses:
\* each step is one of them or none, unless enough readers are between their increment
\* and their counting in to make up for a reference.
THEOREM OperationsAreAtomic == Spec => [][Crowded' \/ [Abstract!Next]_(Abstract!vars)]_vars
<1>1. IInv /\ [Next]_vars => (Crowded' \/ [Abstract!Next]_(Abstract!vars))
  <2> SUFFICES ASSUME IInv, [Next]_vars, ~ Crowded' PROVE [Abstract!Next]_(Abstract!vars)
    OBVIOUS
  <2>1. CASE UNCHANGED vars
    BY <2>1, StutterIsStutter
  <2>2. CASE Next
    <3>1. PICK t \in Threads : Step(t)
      BY <2>2 DEF Next, Step
    <3> QED
      BY <3>1, StepMaps DEF IInv
  <2> QED
    BY <2>1, <2>2
<1> QED
  BY IInvInit, IInvStep, <1>1, PTL DEF Spec
=============================================================================
