--------------------------- MODULE InfoStateProofs ---------------------------
(***************************************************************************)
(* Proofs about InfoState for any flags, loaders and clients.              *)
(*                                                                         *)
(* Exclusive is not inductive: Begin needs to know that a flag which is not*)
(* in service has no holder, unless it was torn (Served).  RequestKept is  *)
(* not either: the two steps of EndUpdate that drop the request are right  *)
(* because the flags they drop are confirmed or spoiled (Covered), and a   *)
(* confirmed flag is not owed (Settled).                                   *)
(***************************************************************************)
EXTENDS InfoState, TLAPS

\* What a loader holds is in service, unless an Invalidate tore it.
Served == \A l \in Loaders : What[l] \subseteq InService \cup torn

\* EndUpdate drops requests of confirmed or spoiled flags only.
Covered == Dropping \subseteq Confirmed \cup spoiled

\* Nothing confirmed is owed.
Settled == owed \cap Confirmed = {}

IInv ==
  /\ TypeOK
  /\ Backed
  /\ Exclusive
  /\ Served
  /\ Covered
  /\ Settled
  /\ RequestKept

USE RolesAssumption

LEMMA InitInvariant == Init => IInv
<1> SUFFICES ASSUME Init PROVE IInv
  OBVIOUS
<1>1. \A t \in Threads : call[t] = [at |-> "idle", arg |-> {}]
  BY DEF Init, Idle
<1>2. call \in [Threads -> [at : Labels, arg : SUBSET Flags]]
  BY DEF Init, Idle, Labels
<1>3. \A l \in Loaders : call[l].at = "idle"
  BY <1>1 DEF Threads
<1>4. TypeOK
  BY <1>2, <1>3 DEF Init, TypeOK, At
<1>5. Backed /\ Exclusive /\ Served
  BY DEF Init, Backed, Exclusive, Served
<1>6. Covered /\ Settled /\ RequestKept
  BY <1>3 DEF Init, Covered, Settled, RequestKept, Dropping
<1> QED
  BY <1>4, <1>5, <1>6 DEF IInv

\* A call record of a thread changes, and every other thread's stays.
LEMMA CallTyped ==
  ASSUME TypeOK, NEW t \in Threads, NEW label \in Labels, NEW flags \in SUBSET Flags,
         Goto(t, label, flags) \/ (Return(t) /\ label = "idle" /\ flags = {})
  PROVE  /\ call' \in [Threads -> [at : Labels, arg : SUBSET Flags]]
         /\ call'[t] = [at |-> label, arg |-> flags]
         /\ \A u \in Threads : u # t => call'[u] = call[u]
<1>1. [at |-> label, arg |-> flags] \in [at : Labels, arg : SUBSET Flags]
  OBVIOUS
<1>2. call' = [call EXCEPT ![t] = [at |-> label, arg |-> flags]]
  BY DEF Goto, Return, Idle
<1>3. call \in [Threads -> [at : Labels, arg : SUBSET Flags]]
  BY DEF TypeOK
<1> QED
  BY <1>1, <1>2, <1>3

\* A loader that enters or leaves no window of EndUpdate changes no Dropping.
LEMMA SameDropping ==
  ASSUME \A l \in Loaders :
           \/ call'[l] = call[l]
           \/ /\ call[l].at \notin {"droplow", "drophigh"}
              /\ call'[l].at \notin {"droplow", "drophigh"}
  PROVE  Dropping' = Dropping
BY DEF Dropping

\* The part of the invariant about holders survives what leaves holders alone.
LEMMA SameHolders ==
  ASSUME Backed, Exclusive, Served, UNCHANGED <<InService, What, lost, torn>>
  PROVE  Backed' /\ Exclusive' /\ Served'
BY DEF Backed, Exclusive, Served

\* The part about requests survives what leaves the requests alone.
LEMMA SameRequests ==
  ASSUME Covered, Settled, RequestKept, Dropping' = Dropping,
         UNCHANGED <<ReqLow, ReqHigh, Confirmed, owed, spoiled>>
  PROVE  Covered' /\ Settled' /\ RequestKept'
BY DEF Covered, Settled, RequestKept, Requested

(***************************************************************************)
(* Loaders.                                                                *)
(***************************************************************************)

LEMMA BeginInvariant ==
  ASSUME IInv, NEW l \in Loaders, NEW flags \in SUBSET Flags,
         call[l].at \in {"idle", "begin"}, Begin(l, flags)
  PROVE  IInv'
<1> USE DEF IInv
<1>1. l \in Threads /\ Labels' = Labels
  BY DEF Threads, Labels
<1>2. /\ call' \in [Threads -> [at : Labels, arg : SUBSET Flags]]
      /\ call'[l] = [at |-> "idle", arg |-> {}]
      /\ \A u \in Threads : u # l => call'[u] = call[u]
  BY <1>1, CallTyped DEF Begin, Labels
<1>3. TypeOK'
  <2>1. \A k \in Loaders : call'[k].at = "confirm" => call'[k].arg # {}
    BY <1>2 DEF TypeOK, At, Threads
  <2> QED
    BY <1>2, <2>1 DEF TypeOK, Begin, At
<1>4. Backed' /\ Exclusive' /\ Served'
  BY DEF Begin, TypeOK, Backed, Exclusive, Served
<1>5. Dropping' = Dropping
  BY <1>2, SameDropping DEF Threads
<1>6. Covered' /\ Settled' /\ RequestKept'
  BY <1>5, SameRequests DEF Begin
<1> QED
  BY <1>3, <1>4, <1>6

\* Giving flags up: what Commit and Rollback have in common.
LEMMA ReleaseHolders ==
  ASSUME IInv, NEW l \in Loaders, NEW flags \in SUBSET What[l], Release(l, flags)
  PROVE  /\ Backed' /\ Exclusive' /\ Served'
         /\ InService' \in SUBSET Flags /\ torn' \in SUBSET Flags
         /\ What' \in [Loaders -> SUBSET Flags] /\ lost' \in [Loaders -> SUBSET Flags]
<1> USE DEF IInv
<1>1. Backed'
  BY DEF Release, TypeOK, Backed
<1>2. ASSUME NEW f \in Flags, f \notin torn', NEW k \in Loaders, f \in What'[k]
      PROVE  f \notin torn /\ f \notin flags
  BY <1>2 DEF Release, TypeOK, Exclusive
<1>3. Exclusive'
  BY <1>2 DEF Release, TypeOK, Exclusive
<1>4. Served'
  BY <1>2 DEF Release, TypeOK, Served
<1>5. /\ InService' \in SUBSET Flags /\ torn' \in SUBSET Flags
      /\ What' \in [Loaders -> SUBSET Flags] /\ lost' \in [Loaders -> SUBSET Flags]
  BY DEF Release, TypeOK
<1> QED
  BY <1>1, <1>3, <1>4, <1>5

LEMMA LoadInvariant ==
  ASSUME IInv, NEW l \in Loaders, Load(l)
  PROVE  IInv'
<1> USE DEF IInv
<1>1. l \in Threads
  BY DEF Threads
<1>2. CASE GetRequest(l) \/ GetRequestRest(l)
  <2>1. PICK label \in {"begin", "readlow", "readhigh"}, flags \in SUBSET Flags :
          Goto(l, label, flags)
    BY <1>1, <1>2 DEF GetRequest, GetRequestRest, TypeOK, At
  <2>2. /\ call' \in [Threads -> [at : Labels, arg : SUBSET Flags]]
        /\ call'[l] = [at |-> label, arg |-> flags]
        /\ \A u \in Threads : u # l => call'[u] = call[u]
    <3>1. label \in Labels
      BY DEF Labels
    <3> QED
      BY <1>1, <2>1, <3>1, CallTyped
  <2>3. UNCHANGED <<words, What, history>>
    BY <1>2 DEF GetRequest, GetRequestRest
  <2>4. TypeOK'
    BY <2>2, <2>3 DEF TypeOK, words, history, At, Threads
  <2>5. Dropping' = Dropping
    BY <1>2, <2>2, SameDropping DEF Threads, GetRequest, GetRequestRest, At
  <2> QED
    BY <2>3, <2>4, <2>5, SameHolders, SameRequests DEF words, history
<1>3. CASE BeginUpdate(l)
  <2>1. PICK flags \in SUBSET Flags : flags = call[l].arg
    BY <1>1 DEF TypeOK
  <2> QED
    BY <1>3, <2>1, BeginInvariant DEF BeginUpdate, At
<1>4. ASSUME NEW flags \in SUBSET Flags, Extend(l, flags) PROVE IInv'
  BY <1>4, BeginInvariant DEF Extend, At
<1>5. ASSUME NEW flags \in SUBSET Flags, Commit(l, flags) PROVE IInv'
  <2>1. flags \in SUBSET What[l] /\ Release(l, flags)
    BY <1>5 DEF Commit
  <2>2. /\ Backed' /\ Exclusive' /\ Served'
        /\ InService' \in SUBSET Flags /\ torn' \in SUBSET Flags
        /\ What' \in [Loaders -> SUBSET Flags] /\ lost' \in [Loaders -> SUBSET Flags]
    BY <2>1, ReleaseHolders
  <2>3. /\ UNCHANGED <<Valid, Confirmed, ReqLow, ReqHigh, owed, spoiled>>
        /\ call[l].at = "idle"
    BY <1>5 DEF Commit, At
  <2>4. /\ call' \in [Threads -> [at : Labels, arg : SUBSET Flags]]
        /\ \A u \in Threads : u # l => call'[u] = call[u]
        /\ \/ call'[l] = call[l]
           \/ call'[l].at = "confirm" /\ call'[l].arg # {}
    <3>1. CASE flags \cap InService = {}
      BY <1>5, <3>1 DEF Commit, TypeOK
    <3>2. CASE flags \cap InService # {}
      <4>1. PICK ret \in SUBSET Flags : ret = flags \cap InService
        OBVIOUS
      <4>2. Goto(l, "confirm", ret)
        BY <1>5, <3>2, <4>1 DEF Commit
      <4> QED
        <5>1. "confirm" \in Labels
          BY DEF Labels
        <5>2. /\ call' \in [Threads -> [at : Labels, arg : SUBSET Flags]]
              /\ call'[l] = [at |-> "confirm", arg |-> ret]
              /\ \A u \in Threads : u # l => call'[u] = call[u]
          BY <1>1, <4>2, <5>1, CallTyped
        <5> QED
          BY <3>2, <4>1, <5>2
    <3> QED
      BY <3>1, <3>2
  <2>5. TypeOK'
    BY <2>2, <2>3, <2>4 DEF TypeOK, At, Threads
  <2>6. Dropping' = Dropping
    BY <2>3, <2>4, SameDropping DEF Threads
  <2> QED
    BY <2>2, <2>3, <2>5, <2>6, SameRequests
<1>6. ASSUME NEW flags \in SUBSET Flags, Rollback(l, flags) PROVE IInv'
  <2>1. flags \in SUBSET What[l] /\ Release(l, flags)
    BY <1>6 DEF Rollback
  <2>2. /\ Backed' /\ Exclusive' /\ Served'
        /\ InService' \in SUBSET Flags /\ torn' \in SUBSET Flags
        /\ What' \in [Loaders -> SUBSET Flags] /\ lost' \in [Loaders -> SUBSET Flags]
    BY <2>1, ReleaseHolders
  <2>3. UNCHANGED <<Valid, Confirmed, ReqLow, ReqHigh, call, owed, spoiled>>
    BY <1>6 DEF Rollback
  <2>4. TypeOK'
    BY <2>2, <2>3 DEF TypeOK, At
  <2>5. Dropping' = Dropping
    BY <2>3, SameDropping
  <2> QED
    BY <2>2, <2>3, <2>4, <2>5, SameRequests
<1>7. CASE EndUpdateConfirm(l)
  <2>1. PICK flags \in SUBSET Flags : flags = call[l].arg
    BY <1>1 DEF TypeOK
  <2>2. /\ call' \in [Threads -> [at : Labels, arg : SUBSET Flags]]
        /\ call'[l] = [at |-> "droplow", arg |-> flags]
        /\ \A u \in Threads : u # l => call'[u] = call[u]
    BY <1>1, <1>7, <2>1, CallTyped DEF EndUpdateConfirm, Labels
  <2>3. TypeOK'
    BY <1>7, <2>2 DEF EndUpdateConfirm, TypeOK, At, Threads
  <2>4. Backed' /\ Exclusive' /\ Served'
    BY <1>7, SameHolders DEF EndUpdateConfirm
  <2>5. Dropping' \subseteq Dropping \cup flags
    BY <2>2 DEF Dropping, Threads
  <2>6. Covered' /\ Settled' /\ RequestKept'
    BY <1>7, <2>1, <2>5 DEF EndUpdateConfirm, Covered, Settled, RequestKept, Requested
  <2> QED
    BY <2>3, <2>4, <2>6
<1>8. CASE EndUpdateDropLow(l) \/ EndUpdateDropHigh(l)
  <2>1. PICK flags \in SUBSET Flags : flags = call[l].arg
    BY <1>1 DEF TypeOK
  <2>2. /\ call' \in [Threads -> [at : Labels, arg : SUBSET Flags]]
        /\ call'[l] \in {[at |-> "drophigh", arg |-> flags], Idle}
        /\ \A u \in Threads : u # l => call'[u] = call[u]
    <3>1. CASE EndUpdateDropLow(l)
      BY <1>1, <2>1, <3>1, CallTyped DEF EndUpdateDropLow, Labels
    <3>2. CASE EndUpdateDropHigh(l)
      <4>1. "idle" \in Labels /\ {} \in SUBSET Flags /\ Return(l)
        BY <3>2 DEF EndUpdateDropHigh, Labels
      <4> QED
        BY <1>1, <4>1, CallTyped DEF Idle
    <3> QED
      BY <1>8, <3>1, <3>2
  <2>3. TypeOK'
    <3>1. \A k \in Loaders : call'[k].at = "confirm" => call'[k].arg # {}
      BY <2>2 DEF TypeOK, At, Threads, Idle
    <3> QED
      BY <1>8, <2>2, <3>1 DEF EndUpdateDropLow, EndUpdateDropHigh, TypeOK, At, history
  <2>4. Backed' /\ Exclusive' /\ Served'
    BY <1>8, SameHolders DEF EndUpdateDropLow, EndUpdateDropHigh, history
  <2>5. flags \subseteq Dropping
    BY <1>8, <2>1 DEF EndUpdateDropLow, EndUpdateDropHigh, At, Dropping
  <2>6. Dropping' \subseteq Dropping
    <3>1. ASSUME NEW f \in Flags, NEW k \in Loaders,
                 call'[k].at \in {"droplow", "drophigh"}, f \in call'[k].arg
          PROVE  f \in Dropping
      <4>1. CASE k = l
        BY <2>2, <2>5, <3>1, <4>1 DEF Idle
      <4>2. CASE k # l
        BY <2>2, <3>1, <4>2 DEF Dropping, Threads
      <4> QED
        BY <4>1, <4>2
    <3> QED
      BY <3>1 DEF Dropping
  <2>7. Covered' /\ Settled' /\ RequestKept'
    BY <1>8, <2>1, <2>5, <2>6
       DEF EndUpdateDropLow, EndUpdateDropHigh, history, Covered, Settled, RequestKept,
           Requested
  <2> QED
    BY <2>3, <2>4, <2>7
<1> QED
  BY <1>2, <1>3, <1>4, <1>5, <1>6, <1>7, <1>8 DEF Load

(***************************************************************************)
(* Clients.                                                                *)
(***************************************************************************)

LEMMA UseInvariant ==
  ASSUME IInv, NEW c \in Clients, Use(c)
  PROVE  IInv'
<1> USE DEF IInv
<1>1. c \in Threads /\ c \notin Loaders
  BY DEF Threads
<1>2. ASSUME UNCHANGED call \/ \E label \in Labels, flags \in SUBSET Flags :
               \/ Goto(c, label, flags)
               \/ Return(c) /\ label = "idle" /\ flags = {}
      PROVE  /\ call' \in [Threads -> [at : Labels, arg : SUBSET Flags]]
             /\ Dropping' = Dropping
             /\ \A l \in Loaders : call'[l] = call[l]
  <2>1. /\ call' \in [Threads -> [at : Labels, arg : SUBSET Flags]]
        /\ \A u \in Threads : u # c => call'[u] = call[u]
    <3>1. CASE UNCHANGED call
      BY <3>1 DEF TypeOK
    <3>2. CASE ~ UNCHANGED call
      <4>1. PICK label \in Labels, flags \in SUBSET Flags :
              \/ Goto(c, label, flags)
              \/ Return(c) /\ label = "idle" /\ flags = {}
        BY <1>2, <3>2
      <4> QED
        BY <1>1, <4>1, CallTyped
    <3> QED
      BY <3>1, <3>2
  <2>2. \A l \in Loaders : call'[l] = call[l]
    BY <1>1, <2>1 DEF Threads
  <2> QED
    BY <2>1, <2>2, SameDropping
<1>3. call[c].arg \in SUBSET Flags
  BY <1>1 DEF TypeOK
<1>4. ASSUME NEW flags \in SUBSET Flags, RequestHigh(c, flags) PROVE IInv'
  <2>1. /\ Dropping' = Dropping /\ UNCHANGED call
    BY <1>2, <1>4 DEF RequestHigh
  <2>2. TypeOK'
    BY <1>4 DEF RequestHigh, Owe, TypeOK, At
  <2>3. Backed' /\ Exclusive' /\ Served'
    BY <1>4, SameHolders DEF RequestHigh
  <2>4. Covered' /\ Settled' /\ RequestKept'
    BY <1>4, <2>1 DEF RequestHigh, Owe, Covered, Settled, RequestKept, Requested
  <2> QED
    BY <2>2, <2>3, <2>4
<1>5. ASSUME NEW flags \in SUBSET Flags, RequestLow(c, flags) PROVE IInv'
  <2>1. /\ call' \in [Threads -> [at : Labels, arg : SUBSET Flags]]
        /\ Dropping' = Dropping
        /\ \A l \in Loaders : call'[l] = call[l]
    <3>1. PICK rest \in SUBSET Flags : rest = flags \ ReqHigh
      OBVIOUS
    <3> QED
      BY <1>2, <1>5, <3>1 DEF RequestLow, Labels
  <2>2. TypeOK'
    BY <1>5, <2>1 DEF RequestLow, Owe, TypeOK, words, At
  <2>3. Backed' /\ Exclusive' /\ Served'
    BY <1>5, SameHolders DEF RequestLow, words
  <2>4. Covered' /\ Settled' /\ RequestKept'
    BY <1>5, <2>1 DEF RequestLow, words, Owe, Covered, Settled, RequestKept, Requested
  <2> QED
    BY <2>2, <2>3, <2>4
<1>6. CASE RequestLowSet(c)
  <2>1. /\ call' \in [Threads -> [at : Labels, arg : SUBSET Flags]]
        /\ Dropping' = Dropping
        /\ \A l \in Loaders : call'[l] = call[l]
    BY <1>2, <1>6 DEF RequestLowSet, Labels
  <2>2. TypeOK'
    BY <1>3, <1>6, <2>1 DEF RequestLowSet, Owe, TypeOK, At
  <2>3. Backed' /\ Exclusive' /\ Served'
    BY <1>6, SameHolders DEF RequestLowSet
  <2>4. Covered' /\ Settled' /\ RequestKept'
    BY <1>6, <2>1 DEF RequestLowSet, Owe, Covered, Settled, RequestKept, Requested
  <2> QED
    BY <2>2, <2>3, <2>4
<1>7. ASSUME NEW flags \in SUBSET Flags, Invalidate(c, flags) PROVE IInv'
  <2>1. /\ call' \in [Threads -> [at : Labels, arg : SUBSET Flags]]
        /\ Dropping' = Dropping
        /\ \A l \in Loaders : call'[l] = call[l]
    BY <1>2, <1>7 DEF Invalidate, Labels
  <2>2. TypeOK'
    BY <1>7, <2>1 DEF Invalidate, TypeOK, At
  <2>3. Backed' /\ Exclusive' /\ Served'
    BY <1>7 DEF Invalidate, TypeOK, Backed, Exclusive, Served
  <2>4. Covered' /\ Settled' /\ RequestKept'
    BY <1>7, <2>1, SameRequests DEF Invalidate
  <2> QED
    BY <2>2, <2>3, <2>4
<1>8. CASE InvalidateReset(c)
  <2>1. PICK flags \in SUBSET Flags : flags = call[c].arg
    BY <1>3
  <2>2. /\ call' \in [Threads -> [at : Labels, arg : SUBSET Flags]]
        /\ Dropping' = Dropping
        /\ \A l \in Loaders : call'[l] = call[l]
    BY <1>2, <1>8, <2>1 DEF InvalidateReset, Labels
  <2>3. ResetValid(c) \/ ResetConfirmed(c)
    BY <1>8 DEF InvalidateReset
  <2>4. TypeOK'
    <3>1. \A l \in Loaders : call'[l].at = "confirm" => call'[l].arg # {}
      BY <2>2 DEF TypeOK, At
    <3>2. CASE ResetValid(c)
      BY <2>2, <3>1, <3>2 DEF ResetValid, TypeOK, history, At
    <3>3. CASE ResetConfirmed(c)
      <4>1. Confirmed' \in SUBSET Flags /\ spoiled' \in SUBSET Flags
        BY <1>3, <3>3 DEF ResetConfirmed, TypeOK
      <4> QED
        BY <2>2, <3>1, <3>3, <4>1 DEF ResetConfirmed, TypeOK, At
    <3> QED
      BY <2>3, <3>2, <3>3
  <2>5. Backed' /\ Exclusive' /\ Served'
    BY <2>3, SameHolders DEF ResetValid, ResetConfirmed, history
  <2>6. Covered' /\ Settled' /\ RequestKept'
    BY <2>2, <2>3
       DEF ResetValid, ResetConfirmed, history, Covered, Settled, RequestKept, Requested
  <2> QED
    BY <2>4, <2>5, <2>6
<1>9. ASSUME NEW flags \in SUBSET Flags, Cache(c, flags) PROVE IInv'
  <2>1. PICK rest \in SUBSET Flags : rest = flags \ Confirmed
    OBVIOUS
  <2>2. /\ call' \in [Threads -> [at : Labels, arg : SUBSET Flags]]
        /\ Dropping' = Dropping
        /\ \A l \in Loaders : call'[l] = call[l]
    BY <1>2, <1>9, <2>1 DEF Cache, Labels
  <2>3. TypeOK'
    BY <1>9, <2>2 DEF Cache, TypeOK, words, history, At
  <2> QED
    BY <1>9, <2>2, <2>3, SameHolders, SameRequests DEF Cache, words, history
<1>10. CASE CacheSet(c)
  <2>1. /\ call' \in [Threads -> [at : Labels, arg : SUBSET Flags]]
        /\ Dropping' = Dropping
        /\ \A l \in Loaders : call'[l] = call[l]
    BY <1>2, <1>10 DEF CacheSet, Labels
  <2>2. TypeOK'
    BY <1>3, <1>10, <2>1 DEF CacheSet, TypeOK, history, At
  <2> QED
    BY <1>10, <2>1, <2>2, SameHolders, SameRequests DEF CacheSet, history
<1> QED
  BY <1>4, <1>5, <1>6, <1>7, <1>8, <1>9, <1>10 DEF Use

(***************************************************************************)
(* Theorems.                                                               *)
(***************************************************************************)

LEMMA StepInvariant == IInv /\ [Next]_vars => IInv'
<1> SUFFICES ASSUME IInv, [Next]_vars PROVE IInv'
  OBVIOUS
<1>1. CASE UNCHANGED vars
  <2>1. TypeOK'
    BY <1>1 DEF IInv, vars, words, history, TypeOK, At
  <2>2. Dropping' = Dropping
    BY <1>1, SameDropping DEF vars
  <2> QED
    BY <1>1, <2>1, <2>2, SameHolders, SameRequests DEF IInv, vars, words, history
<1> QED
  BY <1>1, LoadInvariant, UseInvariant DEF Next

\* Types, and EndUpdate never goes on with nothing to confirm.
THEOREM TypeCorrect == Spec => []TypeOK
<1>1. IInv => TypeOK
  BY DEF IInv
<1> QED
  BY <1>1, InitInvariant, StepInvariant, PTL DEF Spec

\* BeginUpdate: nothing stays in service without a loader that may confirm it.
THEOREM ServiceBacked == Spec => []Backed
<1>1. IInv => Backed
  BY DEF IInv
<1> QED
  BY <1>1, InitInvariant, StepInvariant, PTL DEF Spec

\* BeginUpdate: one loader at a time has a flag that no Invalidate tore.
THEOREM LoadersExclusive == Spec => []Exclusive
<1>1. IInv => Exclusive
  BY DEF IInv
<1> QED
  BY <1>1, InitInvariant, StepInvariant, PTL DEF Spec

\* EndUpdate and CancelUpdate drop no request that is not fulfilled, unless an
\* Invalidate comes between the halves of EndUpdate.
THEOREM RequestsKept == Spec => []RequestKept
<1>1. IInv => RequestKept
  BY DEF IInv
<1> QED
  BY <1>1, InitInvariant, StepInvariant, PTL DEF Spec
=============================================================================
