------------------------ MODULE DependencyInfoProofs ------------------------
(***************************************************************************)
(* Proofs about DependencyInfo for any objects, kinds and plans.           *)
(***************************************************************************)
EXTENDS DependencyInfo, FiniteSetTheorems, SequenceTheorems, WellFoundedInduction, TLAPS

(***************************************************************************)
(* Joined is a fold, that is a function that solves a recursive equation.  *)
(* It exists, so Joined has the value the loop of Commits has.             *)
(***************************************************************************)

\* A set of numbers that is not empty has a least one.
LEMMA LeastElement ==
  ASSUME NEW S \in SUBSET Nat, S # {}
  PROVE  \E x \in S : \A y \in S : x <= y
<1>1. PICK x \in S : \A y \in S : <<y, x>> \notin OpToRel(<, Nat)
  BY NatLessThanWellFounded, WFMin
<1>2. \A y \in Nat : y < x => <<y, x>> \in OpToRel(<, Nat)
  BY DEF OpToRel
<1>3. \A y \in S : ~ (y < x)
  BY <1>1, <1>2, Zenon
<1> QED BY <1>3

\* Induction up to n, for a set.
LEMMA Upwards ==
  ASSUME NEW n \in Nat, NEW D, 0 \in D, \A i \in 1 .. n : i - 1 \in D => i \in D
  PROVE  \A i \in 0 .. n : i \in D
<1> DEFINE N == {i \in 0 .. n : i \notin D}
<1>1. ASSUME N # {} PROVE FALSE
  <2>1. PICK m \in N : \A k \in N : m <= k
    <3>1. N \in SUBSET Nat
      OBVIOUS
    <3> HIDE DEF N
    <3> QED BY <1>1, <3>1, LeastElement
  <2>2. m \in 0 .. n /\ m \notin D /\ m # 0
    BY <2>1
  <2>3. m - 1 \in N
    BY <2>2
  <2> QED BY <2>1, <2>2, <2>3
<1> QED BY <1>1

\* What the fold of Joined starts with.
Nothing == [mandatory |-> NoEntries, optional |-> NoEntries]

\* h solves the equation FoldLeft chooses a solution of.
IsFold(h, ps) ==
  h = [s \in SUBSET DOMAIN ps |-> IF s = {} THEN Nothing ELSE Join(h[s \ {Max(s)}], ps[Max(s)])]

\* Max chooses the greatest index.
LEMMA MaxIs ==
  ASSUME NEW n \in Nat, NEW s \in SUBSET (1 .. n), s # {}
  PROVE  Max(s) \in s /\ \A y \in s : y <= Max(s)
<1> DEFINE N == {n - x : x \in s}
<1>1. N \in SUBSET Nat /\ N # {}
  <2>1. \A x \in s : n - x \in Nat
    OBVIOUS
  <2> QED BY <2>1
<1>2. PICK m \in N : \A k \in N : m <= k
  <2> HIDE DEF N
  <2> QED BY <1>1, LeastElement
<1>3. PICK x \in s : m = n - x
  BY <1>2
<1>4. \A y \in s : x >= y
  <2>1. TAKE y \in s
  <2>2. n - y \in N
    OBVIOUS
  <2>3. n - x <= n - y
    BY <1>2, <1>3, <2>2
  <2> QED BY <2>3
<1>5. Max(s) \in s /\ \A y \in s : Max(s) >= y
  BY <1>4 DEF Max
<1> QED BY <1>5

\* The equation of the fold has a solution: by the number of the indices.
LEMMA FoldExists ==
  ASSUME NEW ps, NEW n \in Nat, DOMAIN ps = 1 .. n
  PROVE  \E h : IsFold(h, ps)
<1> DEFINE S == DOMAIN ps
           Small(k) == {s \in SUBSET S : Cardinality(s) <= k}
           Upto(k, h) == h = [s \in Small(k) |-> IF s = {} THEN Nothing ELSE Join(h[s \ {Max(s)}], ps[Max(s)])]
           N == {k \in Nat : \A h : ~ Upto(k, h)}
<1>0. IsFiniteSet(S)
  BY FS_Interval
<1>1. \A s \in SUBSET S : IsFiniteSet(s) /\ Cardinality(s) \in Nat /\ Cardinality(s) <= Cardinality(S)
  BY <1>0, FS_Subset, FS_CardinalityType
<1>2. \A s \in SUBSET S : s # {} => Max(s) \in s /\ Cardinality(s \ {Max(s)}) = Cardinality(s) - 1
  <2>1. TAKE s \in SUBSET S
  <2>2. s # {} => Max(s) \in s
    BY MaxIs
  <2> QED BY <1>1, <2>2, FS_RemoveElement
<1>3. \A s \in SUBSET S : Cardinality(s) = 0 <=> s = {}
  BY <1>1, FS_EmptySet
<1> HIDE DEF S
<1>4. ASSUME N # {} PROVE FALSE
  <2>1. PICK k \in N : \A m \in N : k <= m
    <3> HIDE DEF N
    <3>1. N \in SUBSET Nat
      BY DEF N
    <3> QED BY <1>4, <3>1, LeastElement
  <2>2. k # 0
    <3> DEFINE h == [s \in Small(0) |-> Nothing]
    <3>1. \A s \in Small(0) : s = {}
      BY <1>1, <1>3
    <3>2. Upto(0, h)
      BY <3>1
    <3> HIDE DEF Upto, h
    <3> QED BY <2>1, <3>2
  <2>3. k - 1 \in Nat /\ k - 1 \notin N
    <3>1. k \in Nat
      BY <2>1
    <3> HIDE DEF N
    <3> QED BY <2>1, <2>2, <3>1
  <2>4. PICK h : Upto(k - 1, h)
    <3> HIDE DEF Upto
    <3> QED BY <2>3
  <2> DEFINE g == [s \in Small(k) |-> IF s = {} THEN Nothing ELSE Join(h[s \ {Max(s)}], ps[Max(s)])]
  <2>5. \A s \in Small(k - 1) : s \in Small(k) /\ g[s] = h[s]
    <3>1. TAKE s \in Small(k - 1)
    <3>2. s \in Small(k)
      BY <1>1, <2>1
    <3>3. h[s] = IF s = {} THEN Nothing ELSE Join(h[s \ {Max(s)}], ps[Max(s)])
      BY <2>4
    <3> HIDE DEF Small
    <3> QED BY <3>2, <3>3
  <2>6. \A s \in Small(k) : s # {} => s \ {Max(s)} \in Small(k - 1)
    BY <1>1, <1>2, <2>1
  <2>7. \A s \in Small(k) : g[s] = IF s = {} THEN Nothing ELSE Join(g[s \ {Max(s)}], ps[Max(s)])
    <3>1. TAKE s \in Small(k)
    <3>2. g[s] = IF s = {} THEN Nothing ELSE Join(h[s \ {Max(s)}], ps[Max(s)])
      OBVIOUS
    <3> HIDE DEF g, Small
    <3> QED BY <2>5, <2>6, <3>2
  <2>8. Upto(k, g)
    <3>1. g = [s \in Small(k) |-> g[s]]
      OBVIOUS
    <3> HIDE DEF g, Small
    <3> QED BY <2>7, <3>1
  <2> HIDE DEF Upto, g
  <2> QED BY <2>1, <2>8
<1>5. PICK h : Upto(Cardinality(S), h)
  <2>1. Cardinality(S) \in Nat
    BY <1>0, FS_CardinalityType
  <2> HIDE DEF Upto
  <2> QED BY <1>4, <2>1
<1>6. Small(Cardinality(S)) = SUBSET S
  BY <1>1
<1> QED BY <1>5, <1>6 DEF IsFold, S

\* f[i] joins the first i plans.
IsJoin(f, ps) ==
  /\ f[0] = Nothing
  /\ \A i \in 1 .. Len(ps) : f[i] = Join(f[i - 1], ps[i])

\* Joined joins one plan after the other, in the order of the sequence.
LEMMA JoinedIs ==
  ASSUME NEW ps, NEW n \in Nat, DOMAIN ps = 1 .. n, Len(ps) = n
  PROVE  \E f : IsJoin(f, ps) /\ Joined(ps) = f[n]
<1> DEFINE E(h) == [s \in SUBSET DOMAIN ps |-> IF s = {} THEN Nothing ELSE Join(h[s \ {Max(s)}], ps[Max(s)])]
           k == CHOOSE h : h = E(h)
<1>1. Joined(ps) = k[DOMAIN ps]
  BY DEF Joined, FoldLeft, MapThenFoldSet, Nothing
<1>2. \A h : IsFold(h, ps) <=> h = E(h)
  BY DEF IsFold
<1>3. \E h : IsFold(h, ps)
  BY FoldExists
<1> HIDE DEF E
<1>4. k = E(k)
  BY <1>2, <1>3
<1> HIDE DEF k
<1>5. \A s \in SUBSET (1 .. n) : k[s] = IF s = {} THEN Nothing ELSE Join(k[s \ {Max(s)}], ps[Max(s)])
  BY <1>4 DEF E
<1> DEFINE f == [i \in 0 .. n |-> k[1 .. i]]
<1>6. f[0] = Nothing
  <2>1. 1 .. 0 = {} /\ {} \in SUBSET (1 .. n)
    OBVIOUS
  <2>2. k[{}] = Nothing
    BY <1>5, <2>1
  <2>3. f[0] = k[1 .. 0]
    OBVIOUS
  <2> QED BY <2>1, <2>2, <2>3
<1>7. ASSUME NEW i \in 1 .. n PROVE f[i] = Join(f[i - 1], ps[i])
  <2>1. 1 .. i \in SUBSET (1 .. n) /\ i \in 1 .. i /\ 1 .. i # {}
    OBVIOUS
  <2>2. Max(1 .. i) = i
    <3>1. Max(1 .. i) \in 1 .. i /\ \A y \in 1 .. i : y <= Max(1 .. i)
      BY <2>1, MaxIs
    <3> QED BY <2>1, <3>1
  <2>3. (1 .. i) \ {i} = 1 .. (i - 1)
    OBVIOUS
  <2>4. k[1 .. i] = Join(k[1 .. (i - 1)], ps[i])
    BY <1>5, <2>1, <2>2, <2>3
  <2> QED BY <2>4
<1>8. Joined(ps) = f[n]
  BY <1>1
<1> HIDE DEF f
<1> QED BY <1>6, <1>7, <1>8 DEF IsJoin

(***************************************************************************)
(* The inductive invariant.  The right to go on with a job is one token:   *)
(* a thread has it that is Active, or Deleg, while it is attached, or the  *)
(* delegates of the optional entries.  OnCompleted takes it away for good. *)
(* A handler that runs after its delegate was detached would make another. *)
(***************************************************************************)

Locking == {"attach", "recheck", "optional", "check"}

MutexHeld ==
  /\ at = [t \in Threads |-> at[t]]
  /\ \A t \in Threads : at[t] \in Locking <=> Mtx = t
  /\ Mtx \in Threads \cup {NULL}

Active(t) == at[t] \in {"start", "attach", "optional", "check", "completed"}

\* No event of an optional entry has an effect any more, or yet.
OptionalOff == DelegList = {} \/ DOMAIN optional = {}

OneActive     == \A t, u \in Threads : Active(t) /\ Active(u) => t = u
ActiveAlone   == \A t \in Threads : Active(t) => Deleg = NULL /\ completed = 0
Exclusive     == \A t \in Threads :
                   /\ at[t] \in {"start", "attach"} => DelegList = {}
                   /\ at[t] = "completed" => OptionalOff
DelegAlone    == Deleg # NULL => DelegList = {} /\ completed = 0
RecheckAlone  == \A t \in Threads : at[t] = "recheck" =>
                   /\ DelegList = {} /\ completed = 0
                   /\ \A u \in Threads : at[u] # "completed"
CompletedLast == completed = 0 \/ (completed = 1 /\ OptionalOff)

Token == OneActive /\ ActiveAlone /\ Exclusive /\ DelegAlone /\ RecheckAlone /\ CompletedLast

IInv == MutexHeld /\ (~ stray => Token)

USE ThreadsAssumption

\* Initially the thread that starts the wait goes on.
LEMMA InitIInv == Init => IInv
  BY DEF Init, IInv, MutexHeld, Locking, Token, Active, OptionalOff, OneActive, ActiveAlone,
         Exclusive, DelegAlone, RecheckAlone, CompletedLast, Threads

\* A thread that was not at the job and is not afterwards changes nothing.
LEMMA Outside ==
  ASSUME IInv, NEW t \in Threads, NEW l,
         at[t] \notin {"start", "completed"} \cup Locking,
         l \notin {"start", "completed"} \cup Locking,
         Goto(t, l), stray => stray',
         UNCHANGED <<Mtx, Deleg, DelegList, completed>>,
         DOMAIN optional' \subseteq DOMAIN optional
  PROVE  IInv'
<1>1. MutexHeld'
  BY DEF IInv, MutexHeld, Locking, Goto
<1>2. \A u \in Threads : u # t => at'[u] = at[u]
  BY DEF IInv, MutexHeld, Goto
<1>3. at'[t] = l
  BY DEF IInv, MutexHeld, Goto
<1>4. OptionalOff => OptionalOff'
  BY DEF OptionalOff
<1>5. Token => Token'
  BY <1>2, <1>3, <1>4 DEF Token, Active, OneActive, ActiveAlone, Exclusive, DelegAlone,
     RecheckAlone, CompletedLast, Locking
<1> QED BY <1>1, <1>5 DEF IInv

\* Entry::Check of a mandatory entry.
LEMMA CheckMandatoryKeeps ==
  ASSUME IInv, NEW t \in Threads, NEW o \in Objects, CheckMandatory(t, o) PROVE IInv'
<1>1. at[t] = "start" /\ Mtx = NULL
  BY DEF CheckMandatory
<1>2. UNCHANGED <<optional, Deleg, DelegList, completed, stray>>
  BY DEF CheckMandatory, history
<1>3. CASE Mtx' = Mtx /\ at' = at
  BY <1>2, <1>3 DEF IInv, MutexHeld, Token, Active, OptionalOff, OneActive, ActiveAlone,
     Exclusive, DelegAlone, RecheckAlone, CompletedLast
<1>4. CASE Mtx' = t /\ Goto(t, "attach")
  <2>1. MutexHeld'
    BY <1>1, <1>4 DEF IInv, MutexHeld, Locking, Goto, Threads
  <2>2. \A u \in Threads : u # t => at'[u] = at[u]
    BY <1>4 DEF IInv, MutexHeld, Goto
  <2>3. at'[t] = "attach"
    BY <1>4 DEF IInv, MutexHeld, Goto
  <2>4. Token => Token'
    BY <1>1, <1>2, <2>2, <2>3 DEF Token, Active, OptionalOff, OneActive, ActiveAlone,
       Exclusive, DelegAlone, RecheckAlone, CompletedLast
  <2> QED BY <1>2, <2>1, <2>4 DEF IInv
<1> QED BY <1>3, <1>4 DEF CheckMandatory

\* The token goes to Deleg.
LEMMA AttachKeeps == ASSUME IInv, NEW t \in Threads, Attach(t) PROVE IInv'
<1>1. at[t] = "attach" /\ Goto(t, "recheck") /\ Mtx = t
  BY DEF Attach, IInv, MutexHeld, Locking
<1>2. UNCHANGED <<optional, DelegList, completed, stray, Mtx>>
  BY DEF Attach, data, history
<1>3. MutexHeld'
  BY <1>1, <1>2 DEF IInv, MutexHeld, Locking, Goto
<1>4. /\ \A u \in Threads : u # t => at'[u] = at[u]
      /\ at'[t] = "recheck"
  BY <1>1 DEF IInv, MutexHeld, Goto
<1>5. Token => Token'
  BY <1>1, <1>2, <1>4 DEF Token, Active, OptionalOff, OneActive, ActiveAlone,
     Exclusive, DelegAlone, RecheckAlone, CompletedLast
<1> QED BY <1>2, <1>3, <1>5 DEF IInv

\* Who detaches Deleg has the token, the other one has nothing.
LEMMA RecheckKeeps == ASSUME IInv, NEW t \in Threads, Recheck(t) PROVE IInv'
<1>1. at[t] = "recheck" /\ Mtx = t /\ Mtx' = NULL
  BY DEF Recheck, Leave, IInv, MutexHeld, Locking
<1>2. UNCHANGED <<optional, DelegList, completed, stray>>
  BY DEF Recheck, data
<1>3. \/ Goto(t, "start") /\ Deleg # NULL /\ Deleg' = NULL
      \/ Goto(t, "idle") /\ Deleg' \in {Deleg, NULL} /\ (Deleg' = NULL => Deleg = NULL)
  BY DEF Recheck, Leave
<1>4. PICK l \in {"start", "idle"} : Goto(t, l) /\ (l = "start" => Deleg # NULL /\ Deleg' = NULL)
  BY <1>3
<1>5. /\ \A u \in Threads : u # t => at'[u] = at[u]
      /\ at'[t] = l
      /\ at' = [u \in Threads |-> at'[u]]
  BY <1>4 DEF IInv, MutexHeld, Goto
<1>6. MutexHeld'
  BY <1>1, <1>5 DEF IInv, MutexHeld, Locking, Threads
<1>7. Deleg' \in {Deleg, NULL}
  BY <1>3
<1>8. Token => Token'
  BY <1>1, <1>2, <1>4, <1>5, <1>7 DEF Token, Active, OptionalOff, OneActive, ActiveAlone,
     Exclusive, DelegAlone, RecheckAlone, CompletedLast
<1> QED BY <1>2, <1>6, <1>8 DEF IInv

\* Nothing is left to wait for.
LEMMA FinishedKeeps == ASSUME IInv, NEW t \in Threads, Finished(t) PROVE IInv'
<1>1. at[t] = "start" /\ Mtx = NULL /\ Goto(t, "completed")
  BY DEF Finished
<1>2. UNCHANGED <<optional, Deleg, DelegList, completed, stray, Mtx>>
  BY DEF Finished, data, waiting, history
<1>3. /\ \A u \in Threads : u # t => at'[u] = at[u]
      /\ at'[t] = "completed"
  BY <1>1 DEF IInv, MutexHeld, Goto
<1>4. MutexHeld'
  BY <1>1, <1>2 DEF IInv, MutexHeld, Locking, Goto
<1>5. \A u \in Threads : at[u] # "recheck"
  BY <1>1 DEF IInv, MutexHeld, Locking, Threads
<1>6. Token => Token'
  BY <1>1, <1>2, <1>3, <1>5 DEF Token, Active, OptionalOff, OneActive, ActiveAlone,
     Exclusive, DelegAlone, RecheckAlone, CompletedLast
<1> QED BY <1>2, <1>4, <1>6 DEF IInv

\* The delegates of the optional entries are attached under the mutex.
LEMMA AttachOptionalKeeps ==
  ASSUME IInv, NEW t \in Threads, NEW o \in Objects, AttachOptional(t, o) PROVE IInv'
<1>1. /\ (at[t] = "start" /\ Mtx = NULL) \/ at[t] = "optional"
      /\ Mtx' = t /\ Goto(t, "check")
  BY DEF AttachOptional
<1>2. UNCHANGED <<optional, Deleg, completed, stray>>
  BY DEF AttachOptional, data, history
<1>3. /\ \A u \in Threads : u # t => at'[u] = at[u]
      /\ at'[t] = "check"
      /\ at' = [u \in Threads |-> at'[u]]
  BY <1>1 DEF IInv, MutexHeld, Goto
<1>4. \A u \in Threads : u # t => at[u] \notin Locking
  BY <1>1 DEF IInv, MutexHeld, Locking, Threads
<1>5. MutexHeld'
  BY <1>1, <1>3, <1>4 DEF IInv, MutexHeld, Locking
<1>6. Token => Token'
  BY <1>1, <1>2, <1>3, <1>4 DEF Token, Active, OptionalOff, OneActive, ActiveAlone,
     Exclusive, DelegAlone, RecheckAlone, CompletedLast, Locking
<1> QED BY <1>2, <1>5, <1>6 DEF IInv

\* The token goes to the delegates, or stays if there is nothing to wait for.
LEMMA CheckOptionalKeeps == ASSUME IInv, NEW t \in Threads, CheckOptional(t) PROVE IInv'
<1>1. at[t] = "check" /\ Mtx = t
  BY DEF CheckOptional, IInv, MutexHeld, Locking
<1>2. UNCHANGED <<Deleg, completed, stray>>
  BY DEF CheckOptional, history
<1>3. PICK l \in {"completed", "idle", "optional"} :
        /\ Goto(t, l)
        /\ Mtx' = IF l = "optional" THEN t ELSE NULL
        /\ l = "completed" => DelegList' = {}
  BY <1>1 DEF CheckOptional, Leave
<1>4. /\ \A u \in Threads : u # t => at'[u] = at[u]
      /\ at'[t] = l
      /\ at' = [u \in Threads |-> at'[u]]
  BY <1>3 DEF IInv, MutexHeld, Goto
<1>5. \A u \in Threads : u # t => at[u] \notin Locking
  BY <1>1 DEF IInv, MutexHeld, Locking
<1>6. MutexHeld'
  BY <1>1, <1>3, <1>4, <1>5 DEF IInv, MutexHeld, Locking, Threads
<1>7. Token => Token'
  BY <1>1, <1>2, <1>3, <1>4, <1>5 DEF Token, Active, OptionalOff, OneActive, ActiveAlone,
     Exclusive, DelegAlone, RecheckAlone, CompletedLast, Locking
<1> QED BY <1>2, <1>6, <1>7 DEF IInv

\* OnCompleted: the token is gone.
LEMMA OnCompletedKeeps == ASSUME IInv, NEW t \in Threads, OnCompleted(t) PROVE IInv'
<1>1. at[t] = "completed" /\ Goto(t, "idle") /\ completed' = completed + 1
  BY DEF OnCompleted
<1>2. UNCHANGED <<optional, Mtx, stray>>
  BY DEF OnCompleted, data
<1>3. Deleg' \in {Deleg, NULL} /\ DelegList' \in {DelegList, {}}
  BY DEF OnCompleted
<1>4. /\ \A u \in Threads : u # t => at'[u] = at[u]
      /\ at'[t] = "idle"
  BY <1>1 DEF IInv, MutexHeld, Goto
<1>5. MutexHeld'
  BY <1>1, <1>2 DEF IInv, MutexHeld, Locking, Goto
<1>6. Token => Token'
  BY <1>1, <1>2, <1>3, <1>4 DEF Token, Active, OptionalOff, OneActive, ActiveAlone,
     Exclusive, DelegAlone, RecheckAlone, CompletedLast
<1> QED BY <1>2, <1>5, <1>6 DEF IInv

\* Cancel detaches everything.
LEMMA CancelKeeps == ASSUME IInv, NEW t \in Threads, Cancel(t) PROVE IInv'
<1>1. at[t] = "idle" /\ Goto(t, "canceled") /\ Deleg' = NULL /\ DelegList' = {}
  BY DEF Cancel
<1>2. UNCHANGED <<optional, Mtx, completed, stray>>
  BY DEF Cancel, data, history
<1>3. /\ \A u \in Threads : u # t => at'[u] = at[u]
      /\ at'[t] = "canceled"
  BY <1>1 DEF IInv, MutexHeld, Goto
<1>4. MutexHeld'
  BY <1>1, <1>2 DEF IInv, MutexHeld, Locking, Goto
<1>5. Token => Token'
  BY <1>1, <1>2, <1>3 DEF Token, Active, OptionalOff, OneActive, ActiveAlone,
     Exclusive, DelegAlone, RecheckAlone, CompletedLast
<1> QED BY <1>2, <1>4, <1>5 DEF IInv

\* The notification of the mandatory entry detaches Deleg, and goes on if it did.
LEMMA DetachKeeps == ASSUME IInv, NEW o \in Threads, Detach(o) PROVE IInv'
<1>1. at[o] = "detach" /\ Deleg' = NULL /\ (stray => stray')
  BY DEF Detach
<1>2. UNCHANGED <<optional, Mtx, DelegList, completed>>
  BY DEF Detach, data
<1>3. PICK l \in {"start", "idle"} : Goto(o, l) /\ (l = "start" => Deleg # NULL)
  BY DEF Detach
<1>4. /\ \A u \in Threads : u # o => at'[u] = at[u]
      /\ at'[o] = l
  BY <1>3 DEF IInv, MutexHeld, Goto
<1>5. MutexHeld'
  BY <1>1, <1>2, <1>3 DEF IInv, MutexHeld, Locking, Goto
<1>6. Token => Token'
  BY <1>1, <1>2, <1>3, <1>4 DEF Token, Active, OptionalOff, OneActive, ActiveAlone,
     Exclusive, DelegAlone, RecheckAlone, CompletedLast
<1> QED BY <1>1, <1>5, <1>6 DEF IInv

\* The notification that fulfils an optional entry takes the token.
LEMMA OptionalInfoChangeKeeps ==
  ASSUME IInv, NEW o \in Threads, OptionalInfoChange(o) PROVE IInv'
<1>1. /\ at[o] = "optional?" /\ Mtx = NULL
      /\ stray' = (stray \/ o \notin DelegList)
      /\ UNCHANGED <<Mtx, Deleg, DelegList, completed>>
  BY DEF OptionalInfoChange, waiting
<1>2. CASE Goto(o, "idle") /\ DOMAIN optional' = DOMAIN optional
  BY <1>1, <1>2, Outside DEF Locking
<1>3. CASE o \in DOMAIN optional /\ Goto(o, "completed") /\ optional' = NoEntries
  <2>1. /\ \A u \in Threads : u # o => at'[u] = at[u]
        /\ at'[o] = "completed"
    BY <1>3 DEF IInv, MutexHeld, Goto
  <2>2. MutexHeld'
    BY <1>1, <1>3 DEF IInv, MutexHeld, Locking, Goto
  <2>3. DOMAIN optional' = {}
    BY <1>3 DEF NoEntries
  <2>4. \A u \in Threads : at[u] \notin Locking
    BY <1>1 DEF IInv, MutexHeld, Threads
  <2>5. o \in DelegList /\ Token => Token'
    BY <1>1, <1>3, <2>1, <2>3, <2>4 DEF Token, Active, OptionalOff, OneActive, ActiveAlone,
       Exclusive, DelegAlone, RecheckAlone, CompletedLast, Locking
  <2> QED BY <1>1, <2>2, <2>5 DEF IInv
<1> QED BY <1>2, <1>3 DEF OptionalInfoChange

\* No step of any thread breaks the invariant.
LEMMA StepIInv == IInv /\ [Next]_vars => IInv'
<1> SUFFICES ASSUME IInv, [Next]_vars PROVE IInv'
  OBVIOUS
<1>1. ASSUME NEW t \in Threads, Start(t) PROVE IInv'
  BY <1>1, CheckMandatoryKeeps, AttachKeeps, RecheckKeeps, FinishedKeeps, AttachOptionalKeeps,
     CheckOptionalKeeps, OnCompletedKeeps DEF Start
<1>2. ASSUME NEW t \in Threads, Cancel(t) PROVE IInv'
  BY <1>2, CancelKeeps
<1>3. ASSUME NEW o \in Objects, Load(o) PROVE IInv'
  <2>1. o \in Threads /\ at[o] = "idle" /\ Goto(o, "raise")
    BY <1>3 DEF Load, Threads
  <2>2. UNCHANGED <<Mtx, Deleg, DelegList, completed, optional, stray>>
    BY <1>3 DEF Load, waiting, data, history
  <2> QED BY <2>1, <2>2, Outside DEF Locking
<1>4. ASSUME NEW o \in Objects, Visit(o) PROVE IInv'
  <2>1. o \in Threads /\ at[o] = "raise"
    BY <1>4 DEF Visit, Threads
  <2>2. PICK l \in {"mandatory", "optional?", "idle"} : Goto(o, l)
    BY <1>4 DEF Visit
  <2>3. UNCHANGED <<Mtx, Deleg, DelegList, completed, optional, stray>>
    BY <1>4 DEF Visit, waiting, data, history
  <2> QED BY <2>1, <2>2, <2>3, Outside DEF Locking
<1>5. ASSUME NEW o \in Objects, Reduce(o) PROVE IInv'
  <2>1. o \in Threads /\ at[o] = "mandatory" /\ (stray => stray')
    BY <1>5 DEF Reduce, Threads
  <2>2. PICK l \in {"detach", "idle"} : Goto(o, l)
    BY <1>5 DEF Reduce
  <2>3. UNCHANGED <<Mtx, Deleg, DelegList, completed, optional>>
    BY <1>5 DEF Reduce, data
  <2> QED BY <2>1, <2>2, <2>3, Outside DEF Locking
<1>6. ASSUME NEW o \in Objects, Detach(o) \/ OptionalInfoChange(o) PROVE IInv'
  BY <1>6, DetachKeeps, OptionalInfoChangeKeeps DEF Threads
<1>7. CASE UNCHANGED vars
  BY <1>7 DEF vars, data, waiting, history, IInv, MutexHeld, Token, Active, OptionalOff,
     OneActive, ActiveAlone, Exclusive, DelegAlone, RecheckAlone, CompletedLast
<1> QED BY <1>1, <1>2, <1>3, <1>4, <1>5, <1>6, <1>7 DEF Next, Raise

\* dependencyinfo.h: OnCompletion is called once, and the worker does exactly nothing
\* after it, whatever objects and plans there are and however their notifications
\* interleave with the start, as long as no detached delegate is called.
THEOREM CompletesOnceOnly == Spec => []CompletedOnce
<1>1. Spec => []IInv
  BY InitIInv, StepIInv, PTL DEF Spec
<1>2. IInv => CompletedOnce
  <2>1. ASSUME IInv, ~ stray PROVE completed <= 1
    BY <2>1 DEF IInv, Token, CompletedLast
  <2>2. ASSUME IInv, ~ stray, completed = 1, NEW t \in Threads PROVE ~ Inside(t)
    BY <2>2 DEF IInv, Token, ActiveAlone, RecheckAlone, Active, Inside
  <2> QED BY <2>1, <2>2 DEF CompletedOnce
<1> QED BY <1>1, <1>2, PTL

(***************************************************************************)
(* That no job is completed too early.  Of an entry that has left the set  *)
(* of the mandatory ones nothing is missing but what NowWaitingFor still   *)
(* has, while its delegate is attached; an optional entry has all that is  *)
(* missing of it, until one has completed the job.  This holds as long as  *)
(* somebody has the token.                                                 *)
(***************************************************************************)

HasToken == Deleg # NULL \/ DelegList # {} \/ \E t \in Threads : Active(t)
Over     == completed > 0 \/ \E t \in Threads : at[t] = "completed"
Waits(o) == Deleg = o \/ \E t \in Threads : at[t] = "attach" /\ ep = o
Taken    == DOMAIN wanted.mandatory \ DOMAIN mandatory

Ready ==
  /\ \A o \in DOMAIN wanted.mandatory : o \in Objects /\ Available(wanted.mandatory, o)
  /\ DOMAIN wanted.optional # {} =>
       \E o \in DOMAIN wanted.optional : o \in Objects /\ Available(wanted.optional, o)

Loaded   == /\ missing \in [Objects -> SUBSET Flags] /\ loaded \in [Objects -> SUBSET Flags]
            /\ \A o \in Objects : loaded[o] \cap missing[o] = {}
ToCheck  == /\ Taken \subseteq Objects
            /\ \A o \in DOMAIN mandatory :
                 o \in DOMAIN wanted.mandatory /\ mandatory[o] = wanted.mandatory[o]
Checked  == HasToken => \A o \in Taken :
              wanted.mandatory[o] \cap missing[o] \subseteq IF Waits(o) THEN NowWaitingFor ELSE {}
Attached == \A t \in Threads : at[t] \in {"attach", "recheck"} =>
              /\ ep \in Taken
              /\ wanted.mandatory[ep] \cap missing[ep] \subseteq what
              /\ at[t] = "recheck" => Deleg \in {ep, NULL}
Visited  == /\ Deleg # NULL => Deleg \notin DOMAIN mandatory
            /\ \A o \in Objects : at[o] \in {"mandatory", "detach"} =>
                 o \notin DOMAIN mandatory /\ \A t \in Threads : at[t] = "attach" => ep # o
            /\ \A o \in Objects : at[o] = "detach" /\ Deleg = o => NowWaitingFor = {}
Choosing == /\ DelegList # {} \/ (\E t \in Threads : at[t] \in {"optional", "check"}) =>
                 DOMAIN mandatory = {}
            /\ \A t \in Threads : at[t] = "check" => ep \in DOMAIN optional /\ ep \in Objects
ToChoose == HasToken /\ ~ Over =>
              /\ DOMAIN optional = DOMAIN wanted.optional
              /\ \A o \in DOMAIN wanted.optional :
                   o \in Objects => wanted.optional[o] \cap missing[o] \subseteq optional[o]
InTime   == ~ early /\ \A t \in Threads : at[t] = "completed" => Ready

Progress == Loaded /\ ToCheck /\ Checked /\ Attached /\ Visited /\ Choosing /\ ToChoose /\ InTime

\* Init: nothing has been taken yet.
LEMMA InitProgress == Init => Progress
<1> SUFFICES ASSUME Init PROVE Progress
  OBVIOUS
<1>1. Loaded
  BY DEF Init, Loaded
<1>2. Taken = {} /\ Deleg = NULL /\ DelegList = {} /\ mandatory = wanted.mandatory
  BY DEF Init, Taken
<1>3. \A t \in Threads : at[t] \in {"start", "idle"}
  BY DEF Init
<1>4. ToCheck /\ Checked /\ Attached /\ Choosing
  BY <1>2, <1>3 DEF ToCheck, Checked, Attached, Choosing, Taken
<1>5. Visited
  <2>1. \A o \in Objects : at[o] \in {"start", "idle"}
    BY <1>3 DEF Threads
  <2> QED BY <1>2, <2>1 DEF Visited
<1>6. ToChoose /\ InTime
  BY <1>3 DEF Init, ToChoose, InTime
<1> QED BY <1>1, <1>4, <1>5, <1>6 DEF Progress

\* An entry leaves the set, and is waited for if it lacks something.
LEMMA CheckMandatoryInTime ==
  ASSUME IInv, IInv', ~ stray, Progress, NEW t \in Threads, NEW o \in Objects, CheckMandatory(t, o)
  PROVE  Progress'
<1>1. /\ at[t] = "start" /\ Mtx = NULL /\ o \in DOMAIN mandatory
      /\ mandatory' = Only(mandatory, DOMAIN mandatory \ {o})
      /\ UNCHANGED <<missing, optional, Deleg, DelegList, loaded, completed, wanted, early>>
  BY DEF CheckMandatory, history
<1>2. /\ Deleg = NULL /\ DelegList = {}
      /\ \A u \in Threads : u # t => ~ Active(u) /\ at[u] # "recheck"
  BY <1>1 DEF IInv, MutexHeld, Locking, Token, Active, ActiveAlone, OneActive, Exclusive, Threads
<1>3. /\ DOMAIN mandatory' = DOMAIN mandatory \ {o}
      /\ \A x \in DOMAIN mandatory' : mandatory'[x] = mandatory[x]
      /\ o \in DOMAIN wanted.mandatory /\ mandatory[o] = wanted.mandatory[o]
  BY <1>1 DEF Only, Progress, ToCheck
<1>4. Taken' = Taken \cup {o}
  BY <1>1, <1>3 DEF Taken
<1>5. Loaded' /\ ToCheck'
  BY <1>1, <1>3, <1>4 DEF Progress, Loaded, ToCheck
<1>6. \A x \in Taken : wanted.mandatory[x] \cap missing[x] = {}
  <2>1. HasToken
    BY <1>1 DEF HasToken, Active
  <2>2. \A x \in Objects : x # NULL
    BY DEF Threads
  <2>3. \A x \in Objects : ~ Waits(x)
    BY <1>1, <1>2, <2>2 DEF Waits, Active
  <2> QED BY <2>1, <2>3 DEF Progress, Checked, ToCheck
<1>7. CASE Available(mandatory, o) /\ UNCHANGED <<NowWaitingFor, Mtx, at, ep, what>>
  <2>1. wanted.mandatory[o] \cap missing[o] = {}
    BY <1>3, <1>7 DEF Available
  <2>2. Checked'
    BY <1>1, <1>4, <1>6, <2>1 DEF Checked
  <2>3. Attached'
    BY <1>1, <1>2, <1>7 DEF Attached, Active
  <2>4. Visited' /\ Choosing'
    BY <1>1, <1>2, <1>3, <1>7 DEF Progress, Visited, Choosing, Active
  <2>5. ToChoose' /\ InTime'
    BY <1>1, <1>7 DEF Progress, ToChoose, InTime, HasToken, Over, Active, Ready, Available
  <2> QED BY <1>5, <2>2, <2>3, <2>4, <2>5 DEF Progress
<1>8. CASE /\ what' = mandatory[o] \cap missing[o] /\ NowWaitingFor' = what'
           /\ ep' = o /\ Goto(t, "attach")
  <2>1. /\ \A u \in Threads : u # t => at'[u] = at[u]
        /\ at'[t] = "attach"
    BY <1>8 DEF IInv, MutexHeld, Goto
  <2>2. Checked'
    BY <1>1, <1>3, <1>4, <1>6, <1>8, <2>1 DEF Checked, Waits
  <2>3. Attached'
    BY <1>1, <1>2, <1>3, <1>4, <1>8, <2>1 DEF Attached, Active
  <2>4. Visited'
    <3>1. \A x \in Objects : x \in Threads
      BY DEF Threads
    <3> QED BY <1>1, <1>2, <1>3, <1>8, <2>1, <3>1 DEF Progress, Visited, Active
  <2>5. Choosing'
    BY <1>1, <1>2, <2>1 DEF Choosing, Active
  <2>6. ToChoose' /\ InTime'
    BY <1>1, <1>2, <2>1 DEF Progress, ToChoose, InTime, HasToken, Over, Active, Ready, Available
  <2> QED BY <1>5, <2>2, <2>3, <2>4, <2>5, <2>6 DEF Progress
<1> QED BY <1>7, <1>8 DEF CheckMandatory

\* The delegate gets the entry.
LEMMA AttachInTime ==
  ASSUME IInv, IInv', ~ stray, Progress, NEW t \in Threads, Attach(t)
  PROVE  Progress'
<1>1. /\ at[t] = "attach" /\ Goto(t, "recheck") /\ Deleg' = ep
      /\ UNCHANGED <<missing, mandatory, optional, NowWaitingFor, DelegList, ep, what, loaded, completed, wanted, early>>
  BY DEF Attach, history, data, entry
<1>2. /\ Deleg = NULL /\ DelegList = {} /\ completed = 0
      /\ \A u \in Threads : u # t => ~ Active(u) /\ at[u] # "recheck"
  BY <1>1 DEF IInv, MutexHeld, Locking, Token, Active, ActiveAlone, OneActive, Exclusive, Threads
<1>3. /\ \A u \in Threads : u # t => at'[u] = at[u]
      /\ at'[t] = "recheck"
  BY <1>1 DEF IInv, MutexHeld, Goto
<1>4. ep \in Taken /\ ep \in Objects /\ ep \notin DOMAIN mandatory
  BY <1>1 DEF Progress, Attached, ToCheck, Taken
<1>5. Loaded' /\ ToCheck' /\ Taken' = Taken
  BY <1>1 DEF Progress, Loaded, ToCheck, Taken
<1>6. \A o \in Objects : Waits(o)' <=> Waits(o)
  <2>1. \A o \in Objects : o # NULL
    BY DEF Threads
  <2>2. \A o \in Objects : Waits(o) <=> ep = o
    BY <1>1, <1>2, <2>1 DEF Waits, Active
  <2>3. \A o \in Objects : Waits(o)' <=> ep = o
    BY <1>1, <1>2, <1>3, <2>1 DEF Waits, Active
  <2> QED BY <2>2, <2>3
<1>7. Checked'
  <2>1. HasToken
    BY <1>1 DEF HasToken, Active
  <2> QED BY <1>1, <1>5, <1>6, <2>1 DEF Progress, Checked, ToCheck
<1>8. Attached'
  BY <1>1, <1>2, <1>3, <1>5 DEF Progress, Attached, Active
<1>9. Visited'
  <2>1. \A x \in Objects : x \in Threads
    BY DEF Threads
  <2> QED BY <1>1, <1>2, <1>3, <1>4, <2>1 DEF Progress, Visited, Active
<1>10. Choosing'
  BY <1>1, <1>2, <1>3 DEF Choosing, Active
<1>11. ToChoose' /\ InTime'
  BY <1>1, <1>2, <1>3, <1>4 DEF Progress, ToChoose, InTime, HasToken, Over, Active, Ready, Available
<1> QED BY <1>5, <1>7, <1>8, <1>9, <1>10, <1>11 DEF Progress

\* Who goes on has seen that nothing is missing.
LEMMA RecheckInTime ==
  ASSUME IInv, IInv', ~ stray, Progress, NEW t \in Threads, Recheck(t)
  PROVE  Progress'
<1>1. /\ at[t] = "recheck" /\ what' = what \cap missing[ep]
      /\ Deleg' = IF what' = {} THEN NULL ELSE Deleg
      /\ Goto(t, IF what' = {} /\ Deleg # NULL THEN "start" ELSE "idle")
      /\ UNCHANGED <<missing, mandatory, optional, NowWaitingFor, DelegList, ep, loaded, completed, wanted, early>>
  BY DEF Recheck, Leave, data
<1>2. /\ DelegList = {} /\ completed = 0
      /\ \A u \in Threads : u # t => at[u] \notin Locking /\ at[u] # "completed"
  BY <1>1 DEF IInv, MutexHeld, Locking, Token, RecheckAlone
<1>3. PICK l \in {"start", "idle"} :
        /\ Goto(t, l)
        /\ l = "start" => what' = {} /\ Deleg # NULL
        /\ l = "idle" => Deleg' = Deleg
  BY <1>1
<1>4. /\ \A u \in Threads : u # t => at'[u] = at[u]
      /\ at'[t] = l
  BY <1>3 DEF IInv, MutexHeld, Goto
<1>5. /\ ep \in Taken /\ ep \in Objects /\ Deleg \in {ep, NULL}
      /\ wanted.mandatory[ep] \cap missing[ep] \subseteq what
  BY <1>1 DEF Progress, Attached, ToCheck
<1>6. Loaded' /\ ToCheck' /\ Taken' = Taken
  BY <1>1 DEF Progress, Loaded, ToCheck, Taken
<1>7. Checked'
  <2>1. CASE l = "idle"
    <3>1. HasToken' => HasToken
      BY <1>1, <1>3, <1>4, <2>1 DEF HasToken, Active
    <3>2. \A o \in Objects : Waits(o)' <=> Waits(o)
      BY <1>1, <1>3, <1>4, <2>1 DEF Waits
    <3> QED BY <1>1, <1>6, <3>1, <3>2 DEF Progress, Checked, ToCheck
  <2>2. CASE l = "start"
    <3>1. Deleg = ep /\ wanted.mandatory[ep] \cap missing[ep] = {}
      BY <1>1, <1>3, <1>5, <2>2
    <3>2. \A o \in Objects : o # ep => ~ Waits(o)
      BY <1>1, <1>2, <3>1 DEF Waits, Locking
    <3>3. \A o \in Taken : wanted.mandatory[o] \cap missing[o] = {}
      BY <1>3, <2>2, <3>1, <3>2 DEF Progress, Checked, HasToken, ToCheck
    <3> QED BY <1>1, <1>6, <3>3 DEF Checked
  <2> QED BY <2>1, <2>2
<1>8. Attached' /\ Choosing'
  BY <1>1, <1>2, <1>4 DEF Attached, Choosing, Locking
<1>9. Visited'
  <2>1. \A x \in Objects : x \in Threads
    BY DEF Threads
  <2>2. Deleg' \in {Deleg, NULL}
    BY <1>1
  <2> QED BY <1>1, <1>2, <1>4, <2>1, <2>2 DEF Progress, Visited, Locking
<1>10. ToChoose'
  <2>1. HasToken' => HasToken
    BY <1>1, <1>3, <1>4 DEF HasToken, Active
  <2>2. ~ Over
    BY <1>1, <1>2 DEF Over
  <2> QED BY <1>1, <2>1, <2>2 DEF Progress, ToChoose
<1>11. InTime'
  BY <1>1, <1>4 DEF Progress, InTime, Ready, Available
<1> QED BY <1>6, <1>7, <1>8, <1>9, <1>10, <1>11 DEF Progress

\* All entries are there.
LEMMA FinishedInTime ==
  ASSUME IInv, IInv', ~ stray, Progress, NEW t \in Threads, Finished(t)
  PROVE  Progress'
<1>1. /\ at[t] = "start" /\ Mtx = NULL /\ Goto(t, "completed")
      /\ mandatory = NoEntries /\ optional = NoEntries
      /\ UNCHANGED <<missing, mandatory, optional, NowWaitingFor, Deleg, DelegList, ep, what, loaded, completed, wanted, early>>
  BY DEF Finished, history, data, entry, waiting
<1>2. /\ Deleg = NULL /\ DelegList = {} /\ completed = 0
      /\ \A u \in Threads : u # t => ~ Active(u) /\ at[u] # "recheck"
  BY <1>1 DEF IInv, MutexHeld, Locking, Token, Active, ActiveAlone, OneActive, Exclusive, Threads
<1>3. /\ \A u \in Threads : u # t => at'[u] = at[u]
      /\ at'[t] = "completed"
  BY <1>1 DEF IInv, MutexHeld, Goto
<1>4. Loaded' /\ ToCheck' /\ Taken' = Taken
  BY <1>1 DEF Progress, Loaded, ToCheck, Taken
<1>5. \A x \in Taken : wanted.mandatory[x] \cap missing[x] = {}
  <2>1. HasToken
    BY <1>1 DEF HasToken, Active
  <2>2. \A x \in Objects : x # NULL
    BY DEF Threads
  <2>3. \A x \in Objects : ~ Waits(x)
    BY <1>1, <1>2, <2>2 DEF Waits, Active
  <2> QED BY <2>1, <2>3 DEF Progress, Checked, ToCheck
<1>6. Ready
  <2>1. DOMAIN mandatory = {} /\ DOMAIN optional = {}
    BY <1>1 DEF NoEntries
  <2>2. Taken = DOMAIN wanted.mandatory
    BY <2>1 DEF Taken
  <2>3. HasToken /\ ~ Over
    BY <1>1, <1>2 DEF HasToken, Over, Active
  <2>4. DOMAIN wanted.optional = {}
    BY <2>1, <2>3 DEF Progress, ToChoose
  <2> QED BY <1>5, <2>2, <2>4 DEF Progress, ToCheck, Ready, Available
<1>7. Checked'
  BY <1>1, <1>4, <1>5 DEF Checked
<1>8. Attached' /\ Choosing'
  BY <1>1, <1>2, <1>3 DEF Progress, Attached, Choosing, Active
<1>9. Visited'
  <2>1. \A x \in Objects : x \in Threads
    BY DEF Threads
  <2> QED BY <1>1, <1>2, <1>3, <2>1 DEF Progress, Visited, Active
<1>10. ToChoose' /\ InTime'
  BY <1>1, <1>3, <1>6 DEF Progress, ToChoose, Over, InTime, Ready, Available
<1> QED BY <1>4, <1>7, <1>8, <1>9, <1>10 DEF Progress

\* The entry is still in the set, as nobody else was called.
LEMMA AttachOptionalInTime ==
  ASSUME IInv, IInv', ~ stray, Progress, NEW t \in Threads, NEW o \in Objects, AttachOptional(t, o)
  PROVE  Progress'
<1>1. /\ at[t] \in {"start", "optional"} /\ Goto(t, "check") /\ ep' = o /\ o \in DOMAIN optional
      /\ at[t] = "start" => Mtx = NULL /\ mandatory = NoEntries
      /\ UNCHANGED <<missing, mandatory, optional, NowWaitingFor, Deleg, what, loaded, completed, wanted, early>>
  BY DEF AttachOptional, history, data
<1>2. /\ Deleg = NULL /\ completed = 0
      /\ \A u \in Threads : u # t => ~ Active(u) /\ at[u] # "recheck"
  BY <1>1 DEF IInv, MutexHeld, Locking, Token, Active, ActiveAlone, OneActive, Threads
<1>3. /\ \A u \in Threads : u # t => at'[u] = at[u]
      /\ at'[t] = "check"
  BY <1>1 DEF IInv, MutexHeld, Goto
<1>4. Loaded' /\ ToCheck' /\ Taken' = Taken
  BY <1>1 DEF Progress, Loaded, ToCheck, Taken
<1>5. HasToken /\ ~ Over
  BY <1>1, <1>2 DEF HasToken, Over, Active
<1>6. Checked'
  <2>1. \A x \in Objects : Waits(x)' <=> Waits(x)
    BY <1>1, <1>2, <1>3 DEF Waits, Active
  <2> QED BY <1>1, <1>4, <1>5, <2>1 DEF Progress, Checked, ToCheck
<1>7. Attached'
  BY <1>1, <1>2, <1>3 DEF Attached, Active
<1>8. Choosing'
  <2>1. DOMAIN mandatory = {}
    BY <1>1 DEF Progress, Choosing, NoEntries
  <2> QED BY <1>1, <1>2, <1>3, <2>1 DEF Choosing, Active
<1>9. Visited'
  <2>1. \A x \in Objects : x \in Threads
    BY DEF Threads
  <2> QED BY <1>1, <1>2, <1>3, <2>1 DEF Progress, Visited, Active
<1>10. ToChoose' /\ InTime'
  BY <1>1, <1>3, <1>5 DEF Progress, ToChoose, InTime, Ready, Available
<1> QED BY <1>4, <1>6, <1>7, <1>8, <1>9, <1>10 DEF Progress

\* An optional entry completes the job if nothing of it is missing.
LEMMA CheckOptionalInTime ==
  ASSUME IInv, IInv', ~ stray, Progress, NEW t \in Threads, CheckOptional(t)
  PROVE  Progress'
<1>1. /\ at[t] = "check"
      /\ optional' = [optional EXCEPT ![ep] = @ \cap missing[ep]]
      /\ UNCHANGED <<missing, mandatory, NowWaitingFor, Deleg, ep, what, loaded, completed, wanted, early>>
  BY DEF CheckOptional, history, entry
<1>2. /\ Deleg = NULL /\ completed = 0
      /\ \A u \in Threads : u # t => ~ Active(u) /\ at[u] # "recheck"
  BY <1>1 DEF IInv, MutexHeld, Locking, Token, Active, ActiveAlone, OneActive, Threads
<1>3. PICK l \in {"completed", "idle", "optional"} :
        /\ Goto(t, l)
        /\ l = "completed" => optional'[ep] = {}
        /\ DelegList' \in {DelegList, {}}
  BY DEF CheckOptional, Leave
<1>4. /\ \A u \in Threads : u # t => at'[u] = at[u]
      /\ at'[t] = l
  BY <1>3 DEF IInv, MutexHeld, Goto
<1>5. /\ DOMAIN mandatory = {} /\ ep \in DOMAIN optional /\ ep \in Objects
      /\ HasToken /\ ~ Over
  BY <1>1, <1>2 DEF Progress, Choosing, HasToken, Over, Active
<1>6. Loaded' /\ ToCheck' /\ Taken' = Taken /\ Taken = DOMAIN wanted.mandatory
  BY <1>1, <1>5 DEF Progress, Loaded, ToCheck, Taken
<1>7. \A x \in Taken : wanted.mandatory[x] \cap missing[x] = {}
  <2>1. \A x \in Objects : x # NULL
    BY DEF Threads
  <2>2. \A x \in Objects : ~ Waits(x)
    BY <1>1, <1>2, <2>1 DEF Waits, Active
  <2> QED BY <1>5, <2>2 DEF Progress, Checked, ToCheck
<1>8. /\ DOMAIN optional' = DOMAIN wanted.optional
      /\ \A o \in DOMAIN wanted.optional :
           o \in Objects => wanted.optional[o] \cap missing[o] \subseteq optional'[o]
  BY <1>1, <1>5 DEF Progress, ToChoose
<1>9. ASSUME l = "completed" PROVE Ready
  <2>1. wanted.optional[ep] \cap missing[ep] = {} /\ ep \in DOMAIN wanted.optional
    BY <1>1, <1>3, <1>5, <1>8, <1>9
  <2> QED BY <1>5, <1>6, <1>7, <2>1 DEF Progress, ToCheck, Ready, Available
<1>10. Checked'
  BY <1>1, <1>6, <1>7 DEF Checked
<1>11. Attached' /\ Choosing'
  BY <1>1, <1>2, <1>4, <1>5 DEF Attached, Choosing, Active
<1>12. Visited'
  <2>1. \A x \in Objects : x \in Threads
    BY DEF Threads
  <2> QED BY <1>1, <1>2, <1>4, <2>1 DEF Progress, Visited, Active
<1>13. ToChoose'
  BY <1>1, <1>8 DEF ToChoose
<1>14. InTime'
  BY <1>1, <1>4, <1>9 DEF Progress, InTime, Ready, Available
<1> QED BY <1>6, <1>10, <1>11, <1>12, <1>13, <1>14 DEF Progress

\* The job is over, and its dependencies are there.
LEMMA OnCompletedInTime ==
  ASSUME IInv, IInv', ~ stray, Progress, NEW t \in Threads, OnCompleted(t)
  PROVE  Progress'
<1>1. /\ at[t] = "completed" /\ Goto(t, "idle") /\ completed' = completed + 1
      /\ early' = (early \/ ~ Fulfilled(wanted))
      /\ Deleg' \in {Deleg, NULL} /\ DelegList' \in {DelegList, {}}
      /\ UNCHANGED <<missing, mandatory, optional, NowWaitingFor, ep, what, loaded, wanted>>
  BY DEF OnCompleted, data, entry
<1>2. /\ Deleg = NULL /\ completed = 0
      /\ \A u \in Threads : u # t => ~ Active(u) /\ at[u] # "recheck"
  BY <1>1 DEF IInv, Token, Active, ActiveAlone, OneActive, RecheckAlone
<1>3. /\ \A u \in Threads : u # t => at'[u] = at[u]
      /\ at'[t] = "idle"
  BY <1>1 DEF IInv, MutexHeld, Goto
<1>4. Loaded' /\ ToCheck' /\ Taken' = Taken
  BY <1>1 DEF Progress, Loaded, ToCheck, Taken
<1>5. Checked'
  <2>1. HasToken
    BY <1>1 DEF HasToken, Active
  <2>2. \A x \in Objects : Waits(x)' <=> Waits(x)
    BY <1>1, <1>2, <1>3 DEF Waits, Active
  <2> QED BY <1>1, <1>4, <2>1, <2>2 DEF Progress, Checked, ToCheck
<1>6. Attached'
  BY <1>1, <1>2, <1>3 DEF Attached, Active
<1>7. Visited'
  <2>1. \A x \in Objects : x \in Threads
    BY DEF Threads
  <2> QED BY <1>1, <1>2, <1>3, <2>1 DEF Progress, Visited, Active
<1>8. Choosing'
  BY <1>1, <1>2, <1>3 DEF Progress, Choosing, Active
<1>9. ToChoose'
  BY <1>1, <1>2 DEF ToChoose, Over
<1>10. InTime'
  <2>1. Ready
    BY <1>1 DEF Progress, InTime
  <2>2. Fulfilled(wanted)
    BY <2>1 DEF Ready, Fulfilled, AllAvailable
  <2> QED BY <1>1, <1>2, <1>3, <2>2 DEF Progress, InTime, Active
<1> QED BY <1>4, <1>5, <1>6, <1>7, <1>8, <1>9, <1>10 DEF Progress

\* The delegates are gone, a notification on the way may go on.
LEMMA CancelInTime ==
  ASSUME IInv, IInv', ~ stray, Progress, NEW t \in Threads, Cancel(t)
  PROVE  Progress'
<1>1. /\ at[t] = "idle" /\ Mtx = NULL /\ Goto(t, "canceled") /\ Deleg' = NULL /\ DelegList' = {}
      /\ UNCHANGED <<missing, mandatory, optional, NowWaitingFor, ep, what, loaded, completed, wanted, early>>
  BY DEF Cancel, history, data, entry
<1>2. \A u \in Threads : at[u] \notin Locking
  BY <1>1 DEF IInv, MutexHeld, Threads
<1>3. /\ \A u \in Threads : u # t => at'[u] = at[u]
      /\ at'[t] = "canceled"
  BY <1>1 DEF IInv, MutexHeld, Goto
<1>4. Loaded' /\ ToCheck' /\ Taken' = Taken
  BY <1>1 DEF Progress, Loaded, ToCheck, Taken
<1>5. HasToken' => HasToken /\ Deleg = NULL
  BY <1>1, <1>3 DEF HasToken, Active, IInv, Token, ActiveAlone
<1>6. Checked'
  <2>1. \A x \in Objects : x # NULL
    BY DEF Threads
  <2>2. Deleg = NULL => \A x \in Objects : ~ Waits(x)
    BY <1>2, <2>1 DEF Waits, Locking
  <2> QED BY <1>1, <1>4, <1>5, <2>2 DEF Progress, Checked, ToCheck
<1>7. Attached' /\ Choosing'
  BY <1>1, <1>2, <1>3 DEF Attached, Choosing, Locking
<1>8. Visited'
  <2>1. \A x \in Objects : x \in Threads
    BY DEF Threads
  <2> QED BY <1>1, <1>2, <1>3, <2>1 DEF Progress, Visited, Locking
<1>9. ToChoose'
  <2>1. Over' <=> Over
    BY <1>1, <1>3 DEF Over
  <2> QED BY <1>1, <1>5, <2>1 DEF Progress, ToChoose
<1>10. InTime'
  BY <1>1, <1>3 DEF Progress, InTime, Ready, Available
<1> QED BY <1>4, <1>6, <1>7, <1>8, <1>9, <1>10 DEF Progress

\* What is loaded is missing no longer.
LEMMA LoadInTime ==
  ASSUME IInv, IInv', ~ stray, Progress, NEW o \in Objects, Load(o)
  PROVE  Progress'
<1>1. /\ at[o] = "idle" /\ Goto(o, "raise") /\ o \in Threads
      /\ UNCHANGED <<mandatory, optional, NowWaitingFor, Deleg, DelegList, ep, what, completed, wanted, early>>
  BY DEF Load, history, data, entry, waiting, Threads
<1>2. PICK L \in (SUBSET missing[o]) \ {{}} :
        /\ missing' = [missing EXCEPT ![o] = @ \ L]
        /\ loaded' = [loaded EXCEPT ![o] = L]
  BY DEF Load
<1>3. /\ \A u \in Threads : u # o => at'[u] = at[u]
      /\ at'[o] = "raise"
  BY <1>1 DEF IInv, MutexHeld, Goto
<1>4. /\ Loaded'
      /\ \A x \in Objects : missing'[x] \subseteq missing[x]
  BY <1>2 DEF Progress, Loaded
<1>5. ToCheck' /\ Taken' = Taken /\ Taken \subseteq Objects
  BY <1>1 DEF Progress, ToCheck, Taken
<1>6. HasToken' <=> HasToken
  BY <1>1, <1>3 DEF HasToken, Active
<1>7. \A x \in Objects : Waits(x)' <=> Waits(x)
  BY <1>1, <1>3 DEF Waits
<1>8. Checked'
  <2>1. SUFFICES ASSUME HasToken, NEW x \in Taken
                 PROVE  wanted.mandatory[x] \cap missing'[x] \subseteq IF Waits(x)' THEN NowWaitingFor ELSE {}
    BY <1>1, <1>5, <1>6 DEF Checked
  <2>2. x \in Objects
    BY <1>5
  <2> QED BY <1>4, <1>7, <2>1, <2>2 DEF Progress, Checked
<1>9. Attached'
  <2>1. SUFFICES ASSUME NEW t \in Threads, at'[t] \in {"attach", "recheck"}
                 PROVE  /\ ep \in Taken
                        /\ wanted.mandatory[ep] \cap missing'[ep] \subseteq what
                        /\ at'[t] = "recheck" => Deleg \in {ep, NULL}
    BY <1>1, <1>5 DEF Attached
  <2>2. at[t] = at'[t]
    BY <1>3, <2>1
  <2>3. ep \in Taken /\ ep \in Objects
    BY <1>5, <2>1, <2>2 DEF Progress, Attached
  <2> QED BY <1>4, <2>1, <2>2, <2>3 DEF Progress, Attached
<1>10. Visited'
  <2>1. \A x \in Objects : x \in Threads
    BY DEF Threads
  <2> QED BY <1>1, <1>3, <2>1 DEF Progress, Visited
<1>11. Choosing'
  BY <1>1, <1>3 DEF Progress, Choosing
<1>12. ToChoose'
  <2>1. Over' <=> Over
    BY <1>1, <1>3 DEF Over
  <2> QED BY <1>1, <1>4, <1>6, <2>1 DEF Progress, ToChoose
<1>13. InTime'
  <2>1. Ready => Ready'
    BY <1>1, <1>4 DEF Ready, Available
  <2> QED BY <1>1, <1>3, <2>1 DEF Progress, InTime
<1> QED BY <1>4, <1>5, <1>8, <1>9, <1>10, <1>11, <1>12, <1>13 DEF Progress

\* A step of a notification that changes no more than its place keeps all but Visited.
LEMMA OnTheWay ==
  ASSUME IInv, Progress, NEW o \in Objects, NEW l,
         at[o] \in {"raise", "mandatory", "detach", "optional?"},
         l \in {"idle", "mandatory", "detach", "optional?"}, Goto(o, l),
         UNCHANGED <<missing, mandatory, optional, Deleg, DelegList, ep, what, loaded, completed, wanted, early>>,
         NowWaitingFor' = NowWaitingFor \/ NowWaitingFor' = NowWaitingFor \ loaded[o],
         NowWaitingFor' = NowWaitingFor \/ \A x \in Objects : x # o => ~ Waits(x),
         Visited'
  PROVE  Progress'
<1>1. o \in Threads
  BY DEF Threads
<1>2. /\ \A u \in Threads : u # o => at'[u] = at[u]
      /\ at'[o] = l
  BY <1>1 DEF IInv, MutexHeld, Goto
<1>3. Loaded' /\ ToCheck' /\ Taken' = Taken /\ Taken \subseteq Objects
  BY DEF Progress, Loaded, ToCheck, Taken
<1>4. HasToken' <=> HasToken
  BY <1>1, <1>2 DEF HasToken, Active
<1>5. \A x \in Objects : Waits(x)' <=> Waits(x)
  BY <1>1, <1>2 DEF Waits
<1>6. Checked'
  <2>1. CASE NowWaitingFor' = NowWaitingFor
    BY <1>3, <1>4, <1>5, <2>1 DEF Progress, Checked
  <2>2. CASE /\ NowWaitingFor' = NowWaitingFor \ loaded[o]
             /\ \A x \in Objects : x # o => ~ Waits(x)
    <3>1. loaded[o] \cap missing[o] = {}
      BY DEF Progress, Loaded
    <3> QED BY <1>3, <1>4, <1>5, <2>2, <3>1 DEF Progress, Checked
  <2> QED BY <2>1, <2>2
<1>7. Attached' /\ Choosing'
  BY <1>1, <1>2, <1>3 DEF Progress, Attached, Choosing
<1>8. ToChoose'
  <2>1. Over' <=> Over
    BY <1>1, <1>2 DEF Over
  <2> QED BY <1>4, <2>1 DEF Progress, ToChoose
<1>9. InTime'
  BY <1>1, <1>2 DEF Progress, InTime, Ready, Available
<1> QED BY <1>3, <1>6, <1>7, <1>8, <1>9 DEF Progress

\* Deleg is called for an entry that has left the set.
LEMMA VisitInTime ==
  ASSUME IInv, IInv', ~ stray, Progress, NEW o \in Objects, Visit(o)
  PROVE  Progress'
<1>1. /\ at[o] = "raise" /\ o \in Threads
      /\ UNCHANGED <<missing, mandatory, optional, NowWaitingFor, Deleg, DelegList, ep, what, loaded, completed, wanted, early>>
  BY DEF Visit, history, data, entry, waiting, Threads
<1>2. PICK l \in {"mandatory", "optional?", "idle"} : Goto(o, l) /\ (l = "mandatory" => Deleg = o)
  BY DEF Visit
<1>3. /\ \A u \in Threads : u # o => at'[u] = at[u]
      /\ at'[o] = l
  BY <1>1, <1>2 DEF IInv, MutexHeld, Goto
<1>4. Deleg # NULL => \A u \in Threads : at[u] # "attach"
  BY DEF IInv, Token, ActiveAlone, Active
<1>5. Visited'
  <2>1. \A x \in Objects : x \in Threads /\ x # NULL
    BY DEF Threads
  <2> QED BY <1>1, <1>2, <1>3, <1>4, <2>1 DEF Progress, Visited
<1> QED BY <1>1, <1>2, <1>5, OnTheWay

\* NowWaitingFor belongs to the object whose delegate is attached.
LEMMA ReduceInTime ==
  ASSUME IInv, IInv', ~ stray, ~ stray', Progress, NEW o \in Objects, Reduce(o)
  PROVE  Progress'
<1>1. /\ at[o] = "mandatory" /\ o \in Threads /\ Deleg = o
      /\ NowWaitingFor' = NowWaitingFor \ loaded[o]
      /\ UNCHANGED <<missing, mandatory, optional, Deleg, DelegList, ep, what, loaded, completed, wanted, early>>
  BY DEF Reduce, data, entry, Threads
<1>2. PICK l \in {"detach", "idle"} : Goto(o, l) /\ (l = "detach" => NowWaitingFor' = {})
  BY DEF Reduce
<1>3. /\ \A u \in Threads : u # o => at'[u] = at[u]
      /\ at'[o] = l
  BY <1>1, <1>2 DEF IInv, MutexHeld, Goto
<1>4. \A u \in Threads : at[u] # "attach"
  BY <1>1 DEF IInv, Token, ActiveAlone, Active, Threads
<1>5. \A x \in Objects : x # o => ~ Waits(x)
  BY <1>1, <1>4 DEF Waits
<1>6. Visited'
  <2>1. \A x \in Objects : x \in Threads
    BY DEF Threads
  <2> QED BY <1>1, <1>2, <1>3, <1>4, <2>1 DEF Progress, Visited
<1> QED BY <1>1, <1>2, <1>5, <1>6, OnTheWay

\* Who detached Deleg goes on, and the entry is there.
LEMMA DetachInTime ==
  ASSUME IInv, IInv', ~ stray, ~ stray', Progress, NEW o \in Objects, Detach(o)
  PROVE  Progress'
<1>1. /\ at[o] = "detach" /\ o \in Threads /\ Deleg \in {o, NULL} /\ Deleg' = NULL
      /\ Goto(o, IF Deleg # NULL THEN "start" ELSE "idle")
      /\ UNCHANGED <<missing, mandatory, optional, NowWaitingFor, DelegList, ep, what, loaded, completed, wanted, early>>
  BY DEF Detach, data, entry, Threads
<1>2. \A x \in Objects : x \in Threads /\ x # NULL
  BY DEF Threads
<1>3. CASE Deleg = NULL
  <2>1. Goto(o, "idle") /\ Deleg' = Deleg
    BY <1>1, <1>3
  <2>2. /\ \A u \in Threads : u # o => at'[u] = at[u]
        /\ at'[o] = "idle"
    BY <1>1, <2>1 DEF IInv, MutexHeld, Goto
  <2>3. Visited'
    BY <1>1, <1>2, <2>1, <2>2 DEF Progress, Visited
  <2> QED BY <1>1, <2>1, <2>3, OnTheWay
<1>4. CASE Deleg = o
  <2>1. /\ \A u \in Threads : u # o => at'[u] = at[u]
        /\ at'[o] = "start"
    BY <1>1, <1>2, <1>4 DEF IInv, MutexHeld, Goto
  <2>2. /\ DelegList = {} /\ completed = 0
        /\ \A u \in Threads : ~ Active(u)
    BY <1>2, <1>4 DEF IInv, Token, DelegAlone, ActiveAlone
  <2>3. Loaded' /\ ToCheck' /\ Taken' = Taken
    BY <1>1 DEF Progress, Loaded, ToCheck, Taken
  <2>4. NowWaitingFor = {} /\ HasToken
    BY <1>1, <1>2, <1>4 DEF Progress, Visited, HasToken
  <2>5. Checked'
    BY <1>1, <2>3, <2>4 DEF Progress, Checked
  <2>6. Attached' /\ Choosing'
    BY <1>1, <2>1, <2>2, <2>3 DEF Progress, Attached, Choosing, Active
  <2>7. Visited'
    BY <1>1, <1>2, <2>1, <2>2 DEF Progress, Visited, Active
  <2>8. ToChoose'
    <3>1. ~ Over
      BY <2>2 DEF Over, Active
    <3> QED BY <1>1, <2>4, <3>1 DEF Progress, ToChoose
  <2>9. InTime'
    BY <1>1, <2>1 DEF Progress, InTime, Ready, Available
  <2> QED BY <2>3, <2>5, <2>6, <2>7, <2>8, <2>9 DEF Progress
<1> QED BY <1>1, <1>3, <1>4

\* The first optional entry that is there completes the job.
LEMMA OptionalInfoChangeInTime ==
  ASSUME IInv, IInv', ~ stray, ~ stray', Progress, NEW o \in Objects, OptionalInfoChange(o)
  PROVE  Progress'
<1>1. /\ at[o] = "optional?" /\ Mtx = NULL /\ o \in Threads /\ o \in DelegList
      /\ UNCHANGED <<missing, mandatory, NowWaitingFor, Deleg, DelegList, ep, what, loaded, completed, wanted, early>>
  BY DEF OptionalInfoChange, waiting, entry, Threads
<1>2. \A x \in Objects : x \in Threads /\ x # NULL
  BY DEF Threads
<1>3. /\ Deleg = NULL /\ DOMAIN mandatory = {} /\ HasToken
      /\ \A u \in Threads : at[u] \notin Locking
  BY <1>1 DEF IInv, MutexHeld, Token, DelegAlone, Progress, Choosing, HasToken, Threads
<1>4. Loaded' /\ ToCheck' /\ Taken' = Taken /\ Taken = DOMAIN wanted.mandatory
  BY <1>1, <1>3 DEF Progress, Loaded, ToCheck, Taken
<1>5. \A x \in Taken : wanted.mandatory[x] \cap missing[x] = {}
  <2>1. \A x \in Objects : ~ Waits(x)
    BY <1>2, <1>3 DEF Waits, Locking
  <2> QED BY <1>3, <2>1 DEF Progress, Checked, ToCheck
<1>6. Checked'
  BY <1>1, <1>4, <1>5 DEF Checked
<1>7. CASE o \notin DOMAIN optional /\ Goto(o, "idle") /\ UNCHANGED optional
  <2>1. /\ \A u \in Threads : u # o => at'[u] = at[u]
        /\ at'[o] = "idle"
    BY <1>1, <1>7 DEF IInv, MutexHeld, Goto
  <2>2. Visited'
    BY <1>1, <1>2, <2>1 DEF Progress, Visited
  <2> QED BY <1>1, <1>7, <2>2, OnTheWay
<1>8. CASE /\ o \in DOMAIN optional /\ optional[o] \subseteq loaded[o]
           /\ Goto(o, "completed") /\ optional' = NoEntries
  <2>1. /\ \A u \in Threads : u # o => at'[u] = at[u]
        /\ at'[o] = "completed"
    BY <1>1, <1>8 DEF IInv, MutexHeld, Goto
  <2>2. ~ Over
    BY <1>1, <1>8 DEF Over, IInv, Token, Exclusive, CompletedLast, OptionalOff
  <2>3. Ready
    <3>1. /\ o \in DOMAIN wanted.optional
          /\ wanted.optional[o] \cap missing[o] \subseteq optional[o]
      BY <1>3, <1>8, <2>2 DEF Progress, ToChoose
    <3>2. loaded[o] \cap missing[o] = {}
      BY DEF Progress, Loaded
    <3>3. wanted.optional[o] \cap missing[o] = {}
      BY <1>8, <3>1, <3>2
    <3> QED BY <1>4, <1>5, <3>1, <3>3 DEF Progress, ToCheck, Ready, Available
  <2>4. Attached' /\ Choosing'
    BY <1>1, <1>3, <2>1 DEF Attached, Choosing, Locking
  <2>5. Visited'
    BY <1>1, <1>2, <1>3, <2>1 DEF Visited, Locking
  <2>6. ToChoose'
    BY <1>1, <2>1 DEF ToChoose, Over
  <2>7. InTime'
    BY <1>1, <2>1, <2>3 DEF Progress, InTime, Ready, Available
  <2> QED BY <1>4, <1>6, <2>4, <2>5, <2>6, <2>7 DEF Progress
<1>9. CASE Goto(o, "idle") /\ optional' = [optional EXCEPT ![o] = @ \ loaded[o]]
  <2>1. /\ \A u \in Threads : u # o => at'[u] = at[u]
        /\ at'[o] = "idle"
    BY <1>1, <1>9 DEF IInv, MutexHeld, Goto
  <2>2. Attached' /\ Choosing'
    BY <1>1, <1>3, <2>1 DEF Attached, Choosing, Locking
  <2>3. Visited'
    BY <1>1, <1>2, <1>3, <2>1 DEF Visited, Locking
  <2>4. ToChoose'
    <3>1. Over' <=> Over
      BY <1>1, <2>1 DEF Over
    <3>2. loaded[o] \cap missing[o] = {}
      BY DEF Progress, Loaded
    <3> QED BY <1>1, <1>3, <1>9, <3>1, <3>2 DEF Progress, ToChoose
  <2>5. InTime'
    BY <1>1, <2>1 DEF Progress, InTime, Ready, Available
  <2> QED BY <1>4, <1>6, <2>2, <2>3, <2>4, <2>5 DEF Progress
<1> QED BY <1>7, <1>8, <1>9 DEF OptionalInfoChange

\* Every step keeps it, unless the handler of a detached delegate runs.
LEMMA StepProgress ==
  ASSUME IInv, IInv', ~ stray => Progress, [Next]_vars
  PROVE  ~ stray' => Progress'
<1> SUFFICES ASSUME ~ stray' PROVE Progress'
  OBVIOUS
<1>1. ASSUME NEW t \in Threads, Start(t) PROVE Progress'
  <2>1. ASSUME NEW o \in Objects, CheckMandatory(t, o) PROVE Progress'
    <3>1. ~ stray
      BY <2>1 DEF CheckMandatory, history
    <3> QED BY <2>1, <3>1, CheckMandatoryInTime
  <2>2. ASSUME NEW o \in Objects, AttachOptional(t, o) PROVE Progress'
    <3>1. ~ stray
      BY <2>2 DEF AttachOptional, history
    <3> QED BY <2>2, <3>1, AttachOptionalInTime
  <2>3. ASSUME Attach(t) PROVE Progress'
    BY <2>3, AttachInTime DEF Attach, history
  <2>4. ASSUME Recheck(t) PROVE Progress'
    BY <2>4, RecheckInTime DEF Recheck
  <2>5. ASSUME Finished(t) PROVE Progress'
    BY <2>5, FinishedInTime DEF Finished, history
  <2>6. ASSUME CheckOptional(t) PROVE Progress'
    BY <2>6, CheckOptionalInTime DEF CheckOptional, history
  <2>7. ASSUME OnCompleted(t) PROVE Progress'
    BY <2>7, OnCompletedInTime DEF OnCompleted
  <2> QED BY <1>1, <2>1, <2>2, <2>3, <2>4, <2>5, <2>6, <2>7 DEF Start
<1>2. ASSUME NEW t \in Threads, Cancel(t) PROVE Progress'
  BY <1>2, CancelInTime DEF Cancel, history
<1>3. ASSUME NEW o \in Objects, Load(o) PROVE Progress'
  <2>1. ~ stray
    BY <1>3 DEF Load, history
  <2> QED BY <1>3, <2>1, LoadInTime
<1>4. ASSUME NEW o \in Objects, Raise(o) PROVE Progress'
  <2>1. ASSUME Visit(o) PROVE Progress'
    BY <2>1, VisitInTime DEF Visit, history
  <2>2. ASSUME Reduce(o) PROVE Progress'
    BY <2>2, ReduceInTime DEF Reduce
  <2>3. ASSUME Detach(o) PROVE Progress'
    BY <2>3, DetachInTime DEF Detach
  <2>4. ASSUME OptionalInfoChange(o) PROVE Progress'
    BY <2>4, OptionalInfoChangeInTime DEF OptionalInfoChange
  <2> QED BY <1>4, <2>1, <2>2, <2>3, <2>4 DEF Raise
<1>5. CASE UNCHANGED vars
  BY <1>5 DEF vars, data, waiting, entry, history, Progress, Loaded, ToCheck, Taken, Checked, HasToken,
     Active, Waits, Attached, Visited, Choosing, ToChoose, Over, InTime, Ready, Available
<1> QED BY <1>1, <1>2, <1>3, <1>4, <1>5 DEF Next

\* OnCompleted is called when all mandatory dependencies and one of the optional ones
\* are there, as long as no detached delegate is called.
THEOREM NeverTooEarly == Spec => []CompletedFulfilled
<1>1. IInv /\ (~ stray => Progress) /\ [Next]_vars => IInv' /\ (~ stray' => Progress')
  BY StepIInv, StepProgress
<1>2. Spec => [](IInv /\ (~ stray => Progress))
  BY InitIInv, InitProgress, <1>1, PTL DEF Spec
<1>3. IInv /\ (~ stray => Progress) => CompletedFulfilled
  BY DEF Progress, InTime, CompletedFulfilled
<1> QED BY <1>2, <1>3, PTL

(***************************************************************************)
(* Join: the cases, and that it keeps the types.                           *)
(***************************************************************************)

\* DependencyInfoPath and DependencyInfoSet.
Path == UNION {[D -> SUBSET Flags] : D \in SUBSET Objects}
Set  == [mandatory : Path, optional : Path]

\* A path maps some objects to flags.
LEMMA PathIs ==
  \A p : p \in Path <=> /\ p = [o \in DOMAIN p |-> p[o]]
                        /\ DOMAIN p \subseteq Objects
                        /\ \A o \in DOMAIN p : p[o] \subseteq Flags
<1>1. TAKE p
<1>2. ASSUME p \in Path
      PROVE  /\ p = [o \in DOMAIN p |-> p[o]]
             /\ DOMAIN p \subseteq Objects
             /\ \A o \in DOMAIN p : p[o] \subseteq Flags
  <2>1. PICK D \in SUBSET Objects : p \in [D -> SUBSET Flags]
    BY <1>2 DEF Path
  <2> QED BY <2>1
<1>3. ASSUME p = [o \in DOMAIN p |-> p[o]], DOMAIN p \subseteq Objects,
             \A o \in DOMAIN p : p[o] \subseteq Flags
      PROVE  p \in Path
  <2>1. p \in [DOMAIN p -> SUBSET Flags]
    BY <1>3
  <2> QED BY <1>3, <2>1 DEF Path
<1> QED BY <1>2, <1>3

\* Merge: the entries of both, and all either wants of an object.
LEMMA MergeIs ==
  ASSUME NEW l \in Path, NEW r \in Path
  PROVE  /\ Merge(l, r) \in Path
         /\ DOMAIN Merge(l, r) = DOMAIN l \cup DOMAIN r
         /\ \A o \in DOMAIN l \cup DOMAIN r :
              Merge(l, r)[o] = (IF o \in DOMAIN l THEN l[o] ELSE {}) \cup (IF o \in DOMAIN r THEN r[o] ELSE {})
<1> DEFINE m == Merge(l, r)
<1>1. DOMAIN l \subseteq Objects /\ DOMAIN r \subseteq Objects
      /\ (\A o \in DOMAIN l : l[o] \subseteq Flags) /\ (\A o \in DOMAIN r : r[o] \subseteq Flags)
  BY PathIs
<1>2. /\ m = [o \in DOMAIN m |-> m[o]]
      /\ DOMAIN m = DOMAIN l \cup DOMAIN r
      /\ \A o \in DOMAIN l \cup DOMAIN r :
           m[o] = (IF o \in DOMAIN l THEN l[o] ELSE {}) \cup (IF o \in DOMAIN r THEN r[o] ELSE {})
  BY DEF Merge
<1> HIDE DEF m
<1>3. \A o \in DOMAIN m : m[o] \subseteq Flags
  BY <1>1, <1>2
<1>4. m \in Path
  BY <1>1, <1>2, <1>3, PathIs
<1> QED BY <1>2, <1>4 DEF m

\* Only: the entries of some objects.
LEMMA OnlyIs ==
  ASSUME NEW p \in Path, NEW S
  PROVE  /\ Only(p, S) \in Path
         /\ DOMAIN Only(p, S) = DOMAIN p \cap S
         /\ \A o \in DOMAIN p \cap S : Only(p, S)[o] = p[o]
<1> DEFINE m == Only(p, S)
<1>1. DOMAIN p \subseteq Objects /\ \A o \in DOMAIN p : p[o] \subseteq Flags
  BY PathIs
<1>2. /\ m = [o \in DOMAIN m |-> m[o]]
      /\ DOMAIN m = DOMAIN p \cap S
      /\ \A o \in DOMAIN p \cap S : m[o] = p[o]
  BY DEF Only
<1> HIDE DEF m
<1>3. m \in Path
  BY <1>1, <1>2, PathIs
<1> QED BY <1>2, <1>3 DEF m

\* What Join calls both, left, right and all, and when one contains the other.
Both(l, r)  == DOMAIN l.mandatory \cap DOMAIN r
Left(l, r)  == Merge(l.optional, Only(r, DOMAIN r \ Both(l, r)))
Right(l, r) == Only(l.mandatory, DOMAIN l.mandatory \ Both(l, r))
All(l, r)   == Merge(Left(l, r), Right(l, r))
Nested(l, r) == (Both(l, r) = DOMAIN l.mandatory) # (Both(l, r) = DOMAIN r)

\* The cases of Join, of a plan that is not empty.
LEMMA JoinIs ==
  ASSUME NEW l \in Set, NEW r \in Path, DOMAIN r # {}
  PROVE  /\ NothingIn(l) => Join(l, r) = [mandatory |-> r, optional |-> l.optional]
         /\ ~ NothingIn(l) =>
              Join(l, r) = [mandatory |-> Only(Merge(l.mandatory, r), Both(l, r)),
                            optional  |-> IF Nested(l, r) THEN Only(All(l, r), DOMAIN Left(l, r) \cap DOMAIN Right(l, r))
                                          ELSE All(l, r)]
<1>1. ASSUME NothingIn(l) PROVE Join(l, r) = [mandatory |-> r, optional |-> l.optional]
  <2>1. Join(l, r) = [l EXCEPT !.mandatory = r]
    BY <1>1 DEF Join
  <2> QED BY <2>1 DEF Set
<1>2. ASSUME ~ NothingIn(l)
      PROVE  Join(l, r) = [mandatory |-> Only(Merge(l.mandatory, r), Both(l, r)),
                            optional  |-> IF Nested(l, r) THEN Only(All(l, r), DOMAIN Left(l, r) \cap DOMAIN Right(l, r))
                                          ELSE All(l, r)]
  BY <1>2 DEF Join, Both, Left, Right, All, Nested
<1> QED BY <1>1, <1>2

\* The sets Join makes the optional ones of.
LEMMA JoinParts ==
  ASSUME NEW l \in Set, NEW r \in Path
  PROVE  /\ Left(l, r) \in Path /\ Right(l, r) \in Path /\ All(l, r) \in Path
         /\ DOMAIN Left(l, r) = DOMAIN l.optional \cup (DOMAIN r \ Both(l, r))
         /\ DOMAIN Right(l, r) = DOMAIN l.mandatory \ Both(l, r)
         /\ DOMAIN All(l, r) = DOMAIN Left(l, r) \cup DOMAIN Right(l, r)
         /\ Merge(l.mandatory, r) \in Path
<1>1. l.mandatory \in Path /\ l.optional \in Path
  BY DEF Set
<1>2. Only(r, DOMAIN r \ Both(l, r)) \in Path
      /\ DOMAIN Only(r, DOMAIN r \ Both(l, r)) = DOMAIN r \ Both(l, r)
  BY OnlyIs
<1>3. Left(l, r) \in Path /\ DOMAIN Left(l, r) = DOMAIN l.optional \cup (DOMAIN r \ Both(l, r))
  BY <1>1, <1>2, MergeIs DEF Left
<1>4. Right(l, r) \in Path /\ DOMAIN Right(l, r) = DOMAIN l.mandatory \ Both(l, r)
  <2> DEFINE S == DOMAIN l.mandatory \ Both(l, r)
             p == l.mandatory
  <2>1. p \in Path
    BY <1>1
  <2> HIDE DEF S, p
  <2>2. Only(p, S) \in Path /\ DOMAIN Only(p, S) = DOMAIN p \cap S
    BY <2>1, OnlyIs
  <2> QED BY <2>2 DEF Right, S, p
<1>5. All(l, r) \in Path /\ DOMAIN All(l, r) = DOMAIN Left(l, r) \cup DOMAIN Right(l, r)
  BY <1>3, <1>4, MergeIs DEF All
<1> QED BY <1>1, <1>3, <1>4, <1>5, MergeIs

\* Join returns a set of dependencies.
LEMMA JoinTyped ==
  ASSUME NEW l \in Set, NEW r \in Path
  PROVE  Join(l, r) \in Set
<1>0. l.mandatory \in Path /\ l.optional \in Path
  BY DEF Set
<1>1. CASE DOMAIN r = {}
  BY <1>1 DEF Join
<1>2. CASE DOMAIN r # {}
  <2>1. CASE NothingIn(l)
    <3>1. Join(l, r) = [mandatory |-> r, optional |-> l.optional]
      BY <1>2, <2>1, JoinIs
    <3> QED BY <1>0, <3>1 DEF Set
  <2>2. CASE ~ NothingIn(l)
    <3>1. Only(Merge(l.mandatory, r), Both(l, r)) \in Path
      BY JoinParts, OnlyIs
    <3>2. Only(All(l, r), DOMAIN Left(l, r) \cap DOMAIN Right(l, r)) \in Path /\ All(l, r) \in Path
      BY JoinParts, OnlyIs
    <3> QED BY <1>2, <2>2, <3>1, <3>2, JoinIs DEF Set
  <2> QED BY <2>1, <2>2
<1> QED BY <1>1, <1>2

\* A plan is a path with an entry.
LEMMA PlanIsPath == \A r \in Plan : r \in Path /\ DOMAIN r # {}
<1>1. TAKE r \in Plan
<1>2. PICK D \in (SUBSET Objects) \ {{}} : r \in [D -> (SUBSET Flags) \ {{}}]
  BY DEF Plan
<1>3. DOMAIN r = D /\ D # {} /\ D \in SUBSET Objects
  <2>1. DOMAIN r = D
    BY <1>2
  <2>2. D # {}
    BY <1>2
  <2>3. D \in SUBSET Objects
    BY <1>2
  <2> QED BY <2>1, <2>2, <2>3
<1>4. r \in [D -> SUBSET Flags]
  BY <1>2
<1>5. r \in Path
  BY <1>3, <1>4 DEF Path
<1> QED BY <1>3, <1>5

\* There are no dependencies at the beginning.
LEMMA NothingIsSet == Nothing \in Set /\ NothingIn(Nothing)
<1>1. NoEntries \in [{} -> SUBSET Flags] /\ DOMAIN NoEntries = {}
  BY DEF NoEntries
<1>2. NoEntries \in Path
  BY <1>1 DEF Path
<1> QED BY <1>1, <1>2 DEF Nothing, Set, NothingIn

\* The plans of a job join to a set of dependencies.
LEMMA JoinedTyped ==
  ASSUME NEW ps \in Seq(Plan)
  PROVE  Joined(ps) \in Set
<1> DEFINE n == Len(ps)
<1>1. n \in Nat /\ DOMAIN ps = 1 .. n /\ \A i \in 1 .. n : ps[i] \in Path
  BY PlanIsPath
<1>2. PICK f : IsJoin(f, ps) /\ Joined(ps) = f[n]
  BY <1>1, JoinedIs
<1> DEFINE D == {i \in 0 .. n : f[i] \in Set}
<1>3. 0 \in D
  BY <1>1, <1>2, NothingIsSet DEF IsJoin
<1>4. ASSUME NEW i \in 1 .. n, i - 1 \in D PROVE i \in D
  <2>1. f[i] = Join(f[i - 1], ps[i]) /\ f[i - 1] \in Set /\ ps[i] \in Path
    BY <1>1, <1>2, <1>4 DEF IsJoin
  <2> QED BY <2>1, JoinTyped
<1>5. n \in D
  <2> HIDE DEF D
  <2>1. n \in Nat
    BY <1>1
  <2> HIDE DEF n
  <2>2. \A i \in 0 .. n : i \in D
    BY <1>3, <1>4, <2>1, Upwards
  <2> QED BY <2>1, <2>2
<1> QED BY <1>2, <1>5

(***************************************************************************)
(* One plan is enough.  The invariant of the loop of Commits: what is      *)
(* mandatory is in every plan so far, and if there is something optional   *)
(* each plan has some of it.                                               *)
(***************************************************************************)

\* d serves plans with the objects Ds, if w[o] is what they want of an object.
Serves(d, Ds, w) ==
  /\ d \in Set
  /\ DOMAIN d.mandatory \cap DOMAIN d.optional = {}
  /\ \A o \in DOMAIN d.mandatory : d.mandatory[o] = w[o]
  /\ \A o \in DOMAIN d.optional : d.optional[o] = w[o]
  /\ \A D \in Ds : /\ DOMAIN d.mandatory \subseteq D
                   /\ DOMAIN d.optional # {} => DOMAIN d.optional \cap D # {}

\* Join keeps that with a plan that adds to it, unless it is the first.
LEMMA JoinServes ==
  ASSUME NEW l, NEW r \in Path, NEW Ds, NEW w,
         Serves(l, Ds, w), DOMAIN r # {}, \A o \in DOMAIN r : r[o] = w[o],
         NothingIn(l) <=> Ds = {}, Ds # {} => DOMAIN r # DOMAIN l.mandatory
  PROVE  Serves(Join(l, r), Ds \cup {DOMAIN r}, w)
<1> DEFINE m == DOMAIN l.mandatory
           q == DOMAIN l.optional
           D == DOMAIN r
           b == m \cap D
<1>1. /\ l \in Set /\ l.mandatory \in Path /\ l.optional \in Path
      /\ m \cap q = {} /\ D # {}
      /\ \A o \in m : l.mandatory[o] = w[o]
      /\ \A o \in q : l.optional[o] = w[o]
      /\ \A E \in Ds : m \subseteq E /\ (q # {} => q \cap E # {})
  BY DEF Serves, Set
<1>2. CASE NothingIn(l)
  <2>1. Join(l, r) = [mandatory |-> r, optional |-> l.optional] /\ Ds = {} /\ q = {}
    BY <1>1, <1>2, JoinIs DEF NothingIn
  <2>2. Join(l, r) \in Set
    BY <1>1, JoinTyped
  <2> QED BY <1>1, <2>1, <2>2 DEF Serves
<1>3. CASE ~ NothingIn(l)
  <2> DEFINE M == Only(Merge(l.mandatory, r), b)
             L == Left(l, r)
             R == Right(l, r)
             A == All(l, r)
             O == IF Nested(l, r) THEN Only(A, DOMAIN L \cap DOMAIN R) ELSE A
  <2>0. Both(l, r) = b
    BY DEF Both
  <2>1. Join(l, r) = [mandatory |-> M, optional |-> O]
    BY <1>1, <1>3, <2>0, JoinIs
  <2>2. Join(l, r) \in Set
    BY <1>1, JoinTyped
  <2>3. /\ L \in Path /\ R \in Path /\ A \in Path /\ Merge(l.mandatory, r) \in Path
        /\ DOMAIN L = q \cup (D \ b) /\ DOMAIN R = m \ b /\ DOMAIN A = DOMAIN L \cup DOMAIN R
    <3> DEFINE lb == Both(l, r)
    <3>1. /\ L \in Path /\ R \in Path /\ A \in Path /\ Merge(l.mandatory, r) \in Path
          /\ DOMAIN L = DOMAIN l.optional \cup (DOMAIN r \ lb) /\ DOMAIN R = DOMAIN l.mandatory \ lb
          /\ DOMAIN A = DOMAIN L \cup DOMAIN R
      BY <1>1, JoinParts
    <3>2. lb = b
      BY <2>0
    <3> HIDE DEF lb, L, R, A, b
    <3> QED BY <3>1, <3>2
  <2>4. /\ DOMAIN M = b
        /\ \A o \in b : M[o] = w[o]
    <3>1. /\ DOMAIN Merge(l.mandatory, r) = m \cup D
          /\ \A o \in b : Merge(l.mandatory, r)[o] = l.mandatory[o] \cup r[o]
      BY <1>1, MergeIs
    <3>2. /\ DOMAIN M = (m \cup D) \cap b
          /\ \A o \in (m \cup D) \cap b : M[o] = Merge(l.mandatory, r)[o]
      <4> DEFINE p == Merge(l.mandatory, r)
                 S == b
      <4>1. p \in Path /\ DOMAIN p = m \cup D
        BY <2>3, <3>1
      <4> HIDE DEF p, S
      <4>2. DOMAIN Only(p, S) = DOMAIN p \cap S /\ \A o \in DOMAIN p \cap S : Only(p, S)[o] = p[o]
        BY <4>1, OnlyIs
      <4>3. M = Only(p, S)
        BY DEF p, S
      <4> HIDE DEF M, b
      <4> QED BY <4>1, <4>2, <4>3 DEF p, S
    <3>3. (m \cup D) \cap b = b
      OBVIOUS
    <3>4. \A o \in b : l.mandatory[o] = w[o] /\ r[o] = w[o]
      BY <1>1
    <3> HIDE DEF M, b
    <3> QED BY <3>1, <3>2, <3>3, <3>4
  <2>5. \A o \in DOMAIN A : A[o] = w[o]
    <3>1. \A o \in DOMAIN L : L[o] = w[o]
      <4> DEFINE X == Only(r, D \ b)
      <4>1. X \in Path /\ DOMAIN X = D \cap (D \ b) /\ \A o \in D \cap (D \ b) : X[o] = r[o]
        BY OnlyIs
      <4>2. L = Merge(l.optional, X)
        BY <2>0 DEF Left
      <4> HIDE DEF X
      <4>3. \A o \in q \cup DOMAIN X :
              L[o] = (IF o \in q THEN l.optional[o] ELSE {}) \cup (IF o \in DOMAIN X THEN X[o] ELSE {})
        <5> DEFINE p == l.optional
        <5>1. p \in Path /\ X \in Path
          BY <1>1, <4>1
        <5> HIDE DEF p
        <5>2. \A o \in DOMAIN p \cup DOMAIN X :
                Merge(p, X)[o] = (IF o \in DOMAIN p THEN p[o] ELSE {}) \cup (IF o \in DOMAIN X THEN X[o] ELSE {})
          BY <5>1, MergeIs
        <5> QED BY <4>2, <5>2 DEF p
      <4>4. \A o \in DOMAIN X : X[o] = w[o]
        BY <4>1
      <4>5. DOMAIN X = D \ b /\ DOMAIN L = q \cup (D \ b)
        BY <2>3, <4>1
      <4>6. \A o \in q : l.optional[o] = w[o]
        BY <1>1
      <4> HIDE DEF L, b, q, D
      <4> QED BY <4>3, <4>4, <4>5, <4>6
    <3>2. \A o \in DOMAIN R : R[o] = w[o]
      <4> DEFINE S == m \ b
                 p == l.mandatory
      <4>1. R = Only(p, S) /\ p \in Path
        BY <1>1, <2>0 DEF Right
      <4> HIDE DEF S
      <4>2. DOMAIN R = DOMAIN p \cap S /\ \A o \in DOMAIN p \cap S : R[o] = p[o]
        <5> HIDE DEF p, R
        <5>1. DOMAIN Only(p, S) = DOMAIN p \cap S /\ \A o \in DOMAIN p \cap S : Only(p, S)[o] = p[o]
          BY <4>1, OnlyIs
        <5> QED BY <4>1, <5>1
      <4> QED BY <1>1, <4>2
    <3>3. \A o \in DOMAIN L \cup DOMAIN R :
            A[o] = (IF o \in DOMAIN L THEN L[o] ELSE {}) \cup (IF o \in DOMAIN R THEN R[o] ELSE {})
      BY <2>3, MergeIs DEF All
    <3> HIDE DEF A, L, R
    <3> QED BY <2>3, <3>1, <3>2, <3>3
  <2>6. Nested(l, r) <=> (b = m) # (b = D)
    BY <2>0 DEF Nested
  <2> HIDE DEF M, L, R, A
  <2>7. CASE Nested(l, r)
    <3>1. DOMAIN L \cap DOMAIN R = {}
      BY <1>1, <2>3
    <3>2. DOMAIN O = {}
      <4>1. DOMAIN Only(A, {}) = DOMAIN A \cap {}
        BY <2>3, OnlyIs
      <4> QED BY <2>7, <3>1, <4>1
    <3> HIDE DEF O
    <3>3. b \subseteq m /\ b \subseteq D
      OBVIOUS
    <3> QED BY <1>1, <2>1, <2>2, <2>4, <3>2, <3>3 DEF Serves
  <2>8. CASE ~ Nested(l, r)
    <3>1. O = A
      BY <2>8
    <3> HIDE DEF O
    <3>2. DOMAIN O = q \cup (D \ b) \cup (m \ b)
      BY <2>3, <3>1
    <3>3. b \cap DOMAIN O = {}
      BY <1>1, <3>2
    <3>4. (b = m) = (b = D)
      BY <2>6, <2>8
    <3>5. ASSUME NEW E \in Ds PROVE b \subseteq E /\ (DOMAIN O # {} => DOMAIN O \cap E # {})
      <4>1. m \subseteq E /\ (q # {} => q \cap E # {}) /\ D # m
        BY <1>1
      <4> QED BY <3>2, <3>4, <4>1
    <3>6. b \subseteq D /\ (DOMAIN O # {} => DOMAIN O \cap D # {})
      <4>1. CASE D \ b # {}
        BY <3>2, <4>1
      <4>2. CASE D \ b = {}
        <5>1. D = m
          BY <3>4, <4>2
        <5> QED BY <1>3, <5>1
      <4> QED BY <4>1, <4>2
    <3> QED BY <2>1, <2>2, <2>4, <2>5, <3>1, <3>3, <3>5, <3>6 DEF Serves
  <2> QED BY <2>7, <2>8
<1> QED BY <1>2, <1>3

\* The first plans of a job join to what the fold has at that place.
LEMMA JoinedFirst ==
  ASSUME NEW ps \in Seq(Plan), NEW f, IsJoin(f, ps), NEW i \in 0 .. Len(ps)
  PROVE  Joined(SubSeq(ps, 1, i)) = f[i]
<1> DEFINE s == SubSeq(ps, 1, i)
<1>1. Len(ps) \in Nat /\ i \in Nat /\ i <= Len(ps)
  OBVIOUS
<1>2. Len(s) = i /\ DOMAIN s = 1 .. i /\ \A j \in 1 .. i : s[j] = ps[j]
  OBVIOUS
<1> HIDE DEF s
<1>3. PICK g : IsJoin(g, s) /\ Joined(s) = g[i]
  BY <1>1, <1>2, JoinedIs
<1> DEFINE D == {j \in 0 .. i : g[j] = f[j]}
<1>4. 0 \in D
  BY <1>1, <1>3 DEF IsJoin
<1>5. ASSUME NEW j \in 1 .. i, j - 1 \in D PROVE j \in D
  <2>1. j \in 1 .. Len(ps) /\ j \in 0 .. i /\ g[j - 1] = f[j - 1]
    BY <1>1, <1>5
  <2>2. g[j] = Join(g[j - 1], s[j])
    BY <1>2, <1>3 DEF IsJoin
  <2>3. f[j] = Join(f[j - 1], ps[j])
    BY <2>1 DEF IsJoin
  <2>4. s[j] = ps[j]
    BY <1>2
  <2> QED BY <2>1, <2>2, <2>3, <2>4
<1>6. i \in D
  <2> HIDE DEF D
  <2>1. \A j \in 0 .. i : j \in D
    BY <1>1, <1>4, <1>5, Upwards
  <2> QED BY <1>1, <2>1
<1> QED BY <1>3, <1>6 DEF s

\* If each plan adds something the dependencies serve all of them.
LEMMA JoinedServes ==
  ASSUME NEW ps \in Seq(Plan), NEW w,
         \A i \in DOMAIN ps : \A o \in DOMAIN ps[i] : ps[i][o] = w[o],
         \A i \in 2 .. Len(ps) :
           /\ ~ NothingIn(Joined(SubSeq(ps, 1, i - 1)))
           /\ DOMAIN ps[i] # DOMAIN Joined(SubSeq(ps, 1, i - 1)).mandatory
  PROVE  Serves(Joined(ps), {DOMAIN ps[i] : i \in DOMAIN ps}, w)
<1> DEFINE n == Len(ps)
           To(k) == {DOMAIN ps[i] : i \in 1 .. k}
<1>1. n \in Nat /\ DOMAIN ps = 1 .. n /\ \A i \in 1 .. n : ps[i] \in Path /\ DOMAIN ps[i] # {}
  BY PlanIsPath
<1>2. PICK f : IsJoin(f, ps) /\ Joined(ps) = f[n]
  BY <1>1, JoinedIs
<1> DEFINE D == {k \in 0 .. n : Serves(f[k], To(k), w)}
<1>3. 0 \in D
  <2>1. f[0] = Nothing
    BY <1>2 DEF IsJoin
  <2>2. DOMAIN Nothing.mandatory = {} /\ DOMAIN Nothing.optional = {}
    BY DEF Nothing, NoEntries
  <2>3. To(0) = {}
    OBVIOUS
  <2> HIDE DEF To
  <2>4. Serves(f[0], To(0), w)
    BY <2>1, <2>2, <2>3, NothingIsSet DEF Serves
  <2> QED BY <1>1, <2>4
<1>4. ASSUME NEW k \in 1 .. n, k - 1 \in D PROVE k \in D
  <2> DEFINE l == f[k - 1]
             r == ps[k]
             Ds == To(k - 1)
  <2>1. f[k] = Join(l, r) /\ r \in Path /\ DOMAIN r # {} /\ Serves(l, Ds, w)
    BY <1>1, <1>2, <1>4 DEF IsJoin
  <2>2. \A o \in DOMAIN r : r[o] = w[o]
    BY <1>1
  <2>3. (NothingIn(l) <=> Ds = {}) /\ (Ds # {} => DOMAIN r # DOMAIN l.mandatory)
    <3>1. CASE k = 1
      <4>1. l = Nothing /\ Ds = {}
        BY <1>2, <3>1 DEF IsJoin
      <4> QED BY <4>1, NothingIsSet
    <3>2. CASE k # 1
      <4>1. k \in 2 .. n /\ k - 1 \in 0 .. n /\ 1 \in 1 .. (k - 1)
        BY <1>1, <3>2
      <4>2. Joined(SubSeq(ps, 1, k - 1)) = l
        BY <1>2, <4>1, JoinedFirst
      <4>3. Ds # {}
        BY <4>1
      <4>4. ~ NothingIn(l) /\ DOMAIN r # DOMAIN l.mandatory
        <5> HIDE DEF l
        <5> QED BY <4>1, <4>2
      <4> QED BY <4>3, <4>4
    <3> QED BY <3>1, <3>2
  <2>4. To(k) = Ds \cup {DOMAIN r}
    <3>1. 1 .. k = 1 .. (k - 1) \cup {k}
      BY <1>1
    <3> QED BY <3>1
  <2> HIDE DEF l, r, Ds, To
  <2>5. Serves(Join(l, r), Ds \cup {DOMAIN r}, w)
    BY <2>1, <2>2, <2>3, JoinServes
  <2>6. k \in 0 .. n
    BY <1>1
  <2> QED BY <2>1, <2>4, <2>5, <2>6
<1>5. n \in D
  <2> HIDE DEF D
  <2>1. n \in Nat
    BY <1>1
  <2> HIDE DEF n
  <2>2. \A i \in 0 .. n : i \in D
    BY <1>3, <1>4, <2>1, Upwards
  <2> QED BY <2>1, <2>2
<1> QED BY <1>1, <1>2, <1>5

\* So one plan that is available fulfils the dependencies.
LEMMA JoinedSuffices ==
  ASSUME NEW ps \in Seq(Plan),
         \A i, j \in DOMAIN ps : \A o \in DOMAIN ps[i] \cap DOMAIN ps[j] : ps[i][o] = ps[j][o],
         \A i \in 2 .. Len(ps) :
           /\ ~ NothingIn(Joined(SubSeq(ps, 1, i - 1)))
           /\ DOMAIN ps[i] # DOMAIN Joined(SubSeq(ps, 1, i - 1)).mandatory,
         NEW i \in DOMAIN ps, AllAvailable(ps[i])
  PROVE  Fulfilled(Joined(ps))
<1> DEFINE w == [o \in Objects |-> ps[CHOOSE j \in DOMAIN ps : o \in DOMAIN ps[j]][o]]
           d == Joined(ps)
           Ds == {DOMAIN ps[j] : j \in DOMAIN ps}
<1>1. \A j \in DOMAIN ps : DOMAIN ps[j] \subseteq Objects
  BY PlanIsPath, PathIs
<1>2. \A j \in DOMAIN ps : \A o \in DOMAIN ps[j] : ps[j][o] = w[o]
  <2>1. TAKE j \in DOMAIN ps
  <2>2. TAKE o \in DOMAIN ps[j]
  <2>3. PICK c \in DOMAIN ps : c = (CHOOSE k \in DOMAIN ps : o \in DOMAIN ps[k]) /\ o \in DOMAIN ps[c]
    OBVIOUS
  <2>4. w[o] = ps[c][o]
    BY <1>1, <2>3
  <2> QED BY <2>3, <2>4
<1> HIDE DEF w, d
<1>3. Serves(d, Ds, w)
  BY <1>2, JoinedServes DEF d
<1>4. DOMAIN ps[i] \in Ds
  OBVIOUS
<1>5. \A o \in DOMAIN ps[i] : w[o] \cap missing[o] = {}
  BY <1>2 DEF AllAvailable, Available
<1> HIDE DEF Ds
<1>6. /\ DOMAIN d.mandatory \subseteq DOMAIN ps[i]
      /\ DOMAIN d.optional # {} => DOMAIN d.optional \cap DOMAIN ps[i] # {}
      /\ \A o \in DOMAIN d.mandatory : d.mandatory[o] = w[o]
      /\ \A o \in DOMAIN d.optional : d.optional[o] = w[o]
  BY <1>3, <1>4 DEF Serves
<1>7. AllAvailable(d.mandatory)
  BY <1>5, <1>6 DEF AllAvailable, Available
<1>8. ASSUME DOMAIN d.optional # {} PROVE \E o \in DOMAIN d.optional : Available(d.optional, o)
  BY <1>5, <1>6, <1>8 DEF Available
<1> QED BY <1>7, <1>8 DEF Fulfilled, d

\* What a job waits for is joined from its plans, whatever happens afterwards.
AsJoined == plans \in Seq(Plan) /\ wanted = Joined(plans)

\* Initially.
LEMMA InitAsJoined == Init => AsJoined
  BY AlternativesAssumption DEF Init, AsJoined

\* The history variables of the plans never change.
LEMMA StepAsJoined == [Next]_vars => UNCHANGED <<plans, wanted>>
<1>1. ASSUME NEW t \in Threads, Start(t) \/ Cancel(t) PROVE UNCHANGED <<plans, wanted>>
  <2>1. ASSUME NEW o \in Objects, CheckMandatory(t, o) \/ AttachOptional(t, o) PROVE UNCHANGED <<plans, wanted>>
    BY <2>1 DEF CheckMandatory, AttachOptional, history
  <2>2. ASSUME Attach(t) \/ Finished(t) \/ CheckOptional(t) \/ Cancel(t) PROVE UNCHANGED <<plans, wanted>>
    BY <2>2 DEF Attach, Finished, CheckOptional, Cancel, history
  <2>3. ASSUME Recheck(t) \/ OnCompleted(t) PROVE UNCHANGED <<plans, wanted>>
    BY <2>3 DEF Recheck, OnCompleted
  <2> QED BY <1>1, <2>1, <2>2, <2>3 DEF Start
<1>2. ASSUME NEW o \in Objects, Load(o) \/ Raise(o) PROVE UNCHANGED <<plans, wanted>>
  <2>1. ASSUME Load(o) \/ Visit(o) PROVE UNCHANGED <<plans, wanted>>
    BY <2>1 DEF Load, Visit, history
  <2>2. ASSUME Reduce(o) \/ Detach(o) \/ OptionalInfoChange(o) PROVE UNCHANGED <<plans, wanted>>
    BY <2>2 DEF Reduce, Detach, OptionalInfoChange
  <2> QED BY <1>2, <2>1, <2>2 DEF Raise
<1>3. ASSUME UNCHANGED vars PROVE UNCHANGED <<plans, wanted>>
  BY <1>3 DEF vars, history
<1> QED BY <1>1, <1>2, <1>3 DEF Next

\* The dependencies are always those of the plans.
LEMMA AsJoinedAlways == Spec => []AsJoined
<1>1. AsJoined /\ [Next]_vars => AsJoined'
  <2>1. AsJoined /\ UNCHANGED <<plans, wanted>> => AsJoined'
    BY DEF AsJoined, Joined
  <2> QED BY <2>1, StepAsJoined
<1> QED BY <1>1, InitAsJoined, PTL DEF Spec

\* The property, of the plans of the job.
LEMMA JoinedEnough == AsJoined => AlternativeSuffices
<1> SUFFICES ASSUME AsJoined PROVE AlternativeSuffices
  OBVIOUS
<1> QED BY JoinedSuffices DEF AsJoined, AlternativeSuffices

\* AlternativeSuffices: of alternative plans that agree on what they want of an
\* object, and add to each other, one that becomes available fulfils the
\* dependencies of the job (DependencyInfoSet::Join, OnCompleted).
THEOREM OneAlternativeIsEnough == Spec => []AlternativeSuffices
  BY AsJoinedAlways, JoinedEnough, PTL

(***************************************************************************)
(* Types.                                                                  *)
(***************************************************************************)

\* The parts of TypeOK: the entries that are left are of objects and kinds,
PathsTyped ==
  /\ DOMAIN mandatory \subseteq Objects /\ \A o \in DOMAIN mandatory : mandatory[o] \subseteq Flags
  /\ DOMAIN optional \subseteq Objects /\ \A o \in DOMAIN optional : optional[o] \subseteq Flags

\* so is what is missing, waited for and loaded,
FlagsTyped ==
  /\ missing \in [Objects -> SUBSET Flags]
  /\ loaded \in [Objects -> SUBSET Flags]
  /\ NowWaitingFor \subseteq Flags /\ what \subseteq Flags

\* and delegates are attached to objects.
DelegatesTyped ==
  /\ kind \in {"reschedule", "message"}
  /\ Deleg \in Objects \cup {NULL} /\ DelegList \subseteq Objects
  /\ ep \in Objects \cup {NULL}
  /\ completed \in Nat

\* TypeOK without the owner of the mutex, which IInv knows.
Typed == PathsTyped /\ FlagsTyped /\ DelegatesTyped /\ at \in [Threads -> Label]

\* Initially the entries are the ones the plans were joined to.
LEMMA InitTyped == Init => Typed
<1> SUFFICES ASSUME Init PROVE Typed
  OBVIOUS
<1>1. plans \in Seq(Plan) /\ wanted = Joined(plans)
  BY InitAsJoined DEF AsJoined
<1>2. wanted \in Set
  BY <1>1, JoinedTyped
<1>3. mandatory \in Path /\ optional \in Path
  BY <1>2 DEF Init, Set
<1>4. PathsTyped
  BY <1>3, PathIs DEF PathsTyped
<1>5. FlagsTyped
  BY DEF Init, FlagsTyped
<1>6. DelegatesTyped
  BY DEF Init, DelegatesTyped
<1>7. at \in [Threads -> Label]
  BY DEF Init, Label
<1> QED BY <1>4, <1>5, <1>6, <1>7 DEF Typed

\* A thread gets from label to label.
LEMMA Went ==
  ASSUME NEW t, NEW l \in Label, at \in [Threads -> Label], Goto(t, l)
  PROVE  at' \in [Threads -> Label]
  BY DEF Goto

\* An entry leaves the set.
LEMMA CheckMandatoryTyped ==
  ASSUME Typed, NEW t \in Threads, NEW o \in Objects, CheckMandatory(t, o) PROVE Typed'
<1>1. PathsTyped'
  BY DEF CheckMandatory, Typed, PathsTyped, Only
<1>2. FlagsTyped'
  BY DEF CheckMandatory, Typed, PathsTyped, FlagsTyped
<1>3. DelegatesTyped'
  BY DEF CheckMandatory, Typed, DelegatesTyped
<1>4. at' \in [Threads -> Label]
  BY Went DEF CheckMandatory, Typed, Label
<1> QED BY <1>1, <1>2, <1>3, <1>4 DEF Typed

\* Deleg is attached to the object of the entry.
LEMMA AttachTyped == ASSUME Typed, NEW t \in Threads, Attach(t) PROVE Typed'
<1>1. PathsTyped' /\ FlagsTyped'
  BY DEF Attach, Typed, PathsTyped, FlagsTyped, data, entry
<1>2. DelegatesTyped'
  BY DEF Attach, Typed, DelegatesTyped, entry
<1>3. at' \in [Threads -> Label]
  BY Went DEF Attach, Typed, Label
<1> QED BY <1>1, <1>2, <1>3 DEF Typed

\* The double check.
LEMMA RecheckTyped == ASSUME Typed, NEW t \in Threads, Recheck(t) PROVE Typed'
<1>1. PathsTyped' /\ FlagsTyped'
  BY DEF Recheck, Typed, PathsTyped, FlagsTyped, data
<1>2. DelegatesTyped'
  BY DEF Recheck, Typed, DelegatesTyped
<1>3. at' \in [Threads -> Label]
  BY Went DEF Recheck, Leave, Typed, Label
<1> QED BY <1>1, <1>2, <1>3 DEF Typed

\* Nothing is left.
LEMMA FinishedTyped == ASSUME Typed, NEW t \in Threads, Finished(t) PROVE Typed'
<1>1. PathsTyped' /\ FlagsTyped' /\ DelegatesTyped'
  BY DEF Finished, Typed, PathsTyped, FlagsTyped, DelegatesTyped, data, waiting, entry
<1>2. at' \in [Threads -> Label]
  BY Went DEF Finished, Typed, Label
<1> QED BY <1>1, <1>2 DEF Typed

\* One more delegate of an optional entry.
LEMMA AttachOptionalTyped ==
  ASSUME Typed, NEW t \in Threads, NEW o \in Objects, AttachOptional(t, o) PROVE Typed'
<1>1. PathsTyped' /\ FlagsTyped'
  BY DEF AttachOptional, Typed, PathsTyped, FlagsTyped, data
<1>2. DelegatesTyped'
  BY DEF AttachOptional, Typed, DelegatesTyped
<1>3. at' \in [Threads -> Label]
  BY Went DEF AttachOptional, Typed, Label
<1> QED BY <1>1, <1>2, <1>3 DEF Typed

\* What is missing of an optional entry.
LEMMA CheckOptionalTyped == ASSUME Typed, NEW t \in Threads, CheckOptional(t) PROVE Typed'
<1>1. PathsTyped'
  BY DEF CheckOptional, Typed, PathsTyped
<1>2. FlagsTyped' /\ DelegatesTyped'
  BY DEF CheckOptional, Typed, FlagsTyped, DelegatesTyped, entry
<1>3. at' \in [Threads -> Label]
  BY Went DEF CheckOptional, Leave, Typed, Label
<1> QED BY <1>1, <1>2, <1>3 DEF Typed

\* OnCompleted and Cancel detach everything.
LEMMA OnCompletedTyped == ASSUME Typed, NEW t \in Threads, OnCompleted(t) \/ Cancel(t) PROVE Typed'
<1>1. PathsTyped' /\ FlagsTyped'
  BY DEF OnCompleted, Cancel, Typed, PathsTyped, FlagsTyped, data, entry
<1>2. DelegatesTyped'
  BY DEF OnCompleted, Cancel, Typed, DelegatesTyped, entry
<1>3. at' \in [Threads -> Label]
  BY Went DEF OnCompleted, Cancel, Typed, Label
<1> QED BY <1>1, <1>2, <1>3 DEF Typed

\* An object gets information it did not have.
LEMMA LoadTyped == ASSUME Typed, NEW o \in Objects, Load(o) PROVE Typed'
<1>1. PathsTyped' /\ DelegatesTyped'
  BY DEF Load, Typed, PathsTyped, DelegatesTyped, data, waiting, entry
<1>2. FlagsTyped'
  <2>1. PICK L \in (SUBSET missing[o]) \ {{}} :
          /\ missing' = [missing EXCEPT ![o] = @ \ L]
          /\ loaded' = [loaded EXCEPT ![o] = L]
    BY DEF Load
  <2>2. missing[o] \in SUBSET Flags /\ L \subseteq missing[o]
    BY <2>1 DEF Typed, FlagsTyped
  <2>3. missing' \in [Objects -> SUBSET Flags] /\ loaded' \in [Objects -> SUBSET Flags]
    BY <2>1, <2>2 DEF Typed, FlagsTyped
  <2> QED BY <2>3 DEF Load, Typed, FlagsTyped, waiting, entry
<1>3. at' \in [Threads -> Label]
  BY Went DEF Load, Typed, Label
<1> QED BY <1>1, <1>2, <1>3 DEF Typed

\* The notifications.
LEMMA RaiseTyped == ASSUME Typed, NEW o \in Objects, Raise(o) PROVE Typed'
<1>1. CASE Visit(o)
  <2>1. PathsTyped' /\ FlagsTyped' /\ DelegatesTyped'
    BY <1>1 DEF Visit, Typed, PathsTyped, FlagsTyped, DelegatesTyped, data, waiting, entry
  <2>2. at' \in [Threads -> Label]
    BY <1>1, Went DEF Visit, Typed, Label
  <2> QED BY <2>1, <2>2 DEF Typed
<1>2. CASE Reduce(o)
  <2>1. PathsTyped' /\ FlagsTyped' /\ DelegatesTyped'
    BY <1>2 DEF Reduce, Typed, PathsTyped, FlagsTyped, DelegatesTyped, data, entry
  <2>2. at' \in [Threads -> Label]
    BY <1>2, Went DEF Reduce, Typed, Label
  <2> QED BY <2>1, <2>2 DEF Typed
<1>3. CASE Detach(o)
  <2>1. PathsTyped' /\ FlagsTyped' /\ DelegatesTyped'
    BY <1>3 DEF Detach, Typed, PathsTyped, FlagsTyped, DelegatesTyped, data, entry
  <2>2. at' \in [Threads -> Label]
    BY <1>3, Went DEF Detach, Typed, Label
  <2> QED BY <2>1, <2>2 DEF Typed
<1>4. CASE OptionalInfoChange(o)
  <2>1. PathsTyped'
    BY <1>4 DEF OptionalInfoChange, Typed, PathsTyped, NoEntries
  <2>2. FlagsTyped' /\ DelegatesTyped'
    BY <1>4 DEF OptionalInfoChange, Typed, FlagsTyped, DelegatesTyped, waiting, entry
  <2>3. at' \in [Threads -> Label]
    BY <1>4, Went DEF OptionalInfoChange, Typed, Label
  <2> QED BY <2>1, <2>2, <2>3 DEF Typed
<1> QED BY <1>1, <1>2, <1>3, <1>4 DEF Raise

\* Every step.
LEMMA StepTyped == Typed /\ [Next]_vars => Typed'
<1> SUFFICES ASSUME Typed, [Next]_vars PROVE Typed'
  OBVIOUS
<1>1. ASSUME NEW t \in Threads, Start(t) \/ Cancel(t) PROVE Typed'
  BY <1>1, CheckMandatoryTyped, AttachTyped, RecheckTyped, FinishedTyped, AttachOptionalTyped,
     CheckOptionalTyped, OnCompletedTyped DEF Start
<1>2. ASSUME NEW o \in Objects, Load(o) \/ Raise(o) PROVE Typed'
  BY <1>2, LoadTyped, RaiseTyped
<1>3. CASE UNCHANGED vars
  BY <1>3 DEF vars, data, waiting, entry, history, Typed, PathsTyped, FlagsTyped, DelegatesTyped
<1> QED BY <1>1, <1>2, <1>3 DEF Next

\* TypeOK: dependencies, delegates and labels stay in range for any plans, and
\* the owner of Mtx is the thread that is between request and release of it.
THEOREM TypeCorrect == Spec => []TypeOK
<1>1. Spec => [](IInv /\ Typed)
  BY InitIInv, StepIInv, InitTyped, StepTyped, PTL DEF Spec
<1>2. IInv /\ Typed => TypeOK
  BY DEF IInv, MutexHeld, Locking, Typed, PathsTyped, FlagsTyped, DelegatesTyped, TypeOK
<1> QED BY <1>1, <1>2, PTL
=============================================================================
