------------------------------- MODULE IntPtr -------------------------------
(***************************************************************************)
(* utils/cpp/smartptr.h: a volatile int_ptr that threads read and exchange *)
(* without a lock.                                                         *)
(*                                                                         *)
(* The word Data holds the address of an object and in its low bits, which *)
(* are free because of the alignment, the outer count: reads that are not  *)
(* in the object's own count yet.  The own count has ALIGNMENT units for   *)
(* each reference.  Each access to Data or to a count is one step.  Every  *)
(* thread has one int_ptr of its own, ref, and may do all operations.      *)
(***************************************************************************)
EXTENDS Integers, FiniteSets, FiniteSetsExt

CONSTANTS
  Threads,
  Objects,
  ALIGNMENT,      (* INT_PTR_ALIGNMENT                                     *)
  MaxOuter,       (* bound of the outer count: reads that overlap          *)
  NULL

ASSUME NULLAssumption    == NULL \notin Objects
ASSUME ThreadsAssumption == IsFiniteSet(Threads)
ASSUME WidthAssumption   == ALIGNMENT \in Nat /\ MaxOuter \in 1 .. ALIGNMENT - 1

VARIABLES
  Data,           (* the shared pointer                                    *)
  Count,          (* Iref_count::Count, as a signed number                 *)
  live,           (* objects that have been created and not deleted        *)
  ref,            (* the local int_ptr of each thread                      *)
  at,             (* where each thread is                                  *)
  old             (* what a thread got from Data                           *)

counts == <<Count, live>>
vars   == <<Data, counts, ref, at, old>>

Word        == [ptr : Objects \cup {NULL}, outer : 0 .. ALIGNMENT - 1]
Plain(p)    == [ptr |-> p, outer |-> 0]
Goto(t, label) == at' = [at EXCEPT ![t] = label]
Add(p, n)      == Count' = IF p = NULL THEN Count ELSE [Count EXCEPT ![p] = @ + n]

(***************************************************************************)
(* Operators named ...Mutant are faulty variants of the operator that      *)
(* follows them.  No specification uses them: each shows that a property   *)
(* notices the fault.                                                      *)
(***************************************************************************)

(***************************************************************************)
(* acquire.                                                                *)
(***************************************************************************)

\* The fast path returns NULL; here the thread just stays idle.
NotNull(t) ==
  /\ at[t] = "idle" /\ ref[t] = NULL
  /\ Data # Plain(NULL)
  /\ Goto(t, "increment")
  /\ UNCHANGED <<Data, counts, ref, old>>

Increment(t) ==
  /\ at[t] = "increment" /\ Data.outer < MaxOuter
  /\ Data' = [Data EXCEPT !.outer = @ + 1]
  /\ old' = [old EXCEPT ![t] = Data']
  /\ Goto(t, "count")
  /\ UNCHANGED <<counts, ref>>

\* The reference of the pointer itself covers the reads before this one.
CountInMutant(t) ==
  /\ at[t] = "count"
  /\ Add(old[t].ptr, ALIGNMENT - old[t].outer)
  /\ Goto(t, "reset")
  /\ UNCHANGED <<Data, live, ref, old>>

\* The outer count is transferred, as this thread is about to reset it.
CountIn(t) ==
  /\ at[t] = "count"
  /\ Add(old[t].ptr, ALIGNMENT - old[t].outer + 1)
  /\ Goto(t, "reset")
  /\ UNCHANGED <<Data, live, ref, old>>

Acquired(t) ==
  /\ ref' = [ref EXCEPT ![t] = old[t].ptr]
  /\ old' = [old EXCEPT ![t] = Plain(NULL)]
  /\ Goto(t, "idle")

ResetOuter(t) ==
  /\ at[t] = "reset"
  /\ IF Data = old[t] THEN Data' = Plain(Data.ptr) /\ Acquired(t)
     ELSE /\ IF old[t].ptr # NULL THEN Goto(t, "undo") /\ UNCHANGED <<ref, old>> ELSE Acquired(t)
          /\ UNCHANGED Data
  /\ UNCHANGED counts

Undo(t) ==
  /\ at[t] = "undo"
  /\ Add(old[t].ptr, old[t].outer)
  /\ Acquired(t)
  /\ UNCHANGED <<Data, live>>

(***************************************************************************)
(* Exchange of the pointer: what is put in has an outer count of zero.     *)
(***************************************************************************)

Xch(t, p) == old' = [old EXCEPT ![t] = Data] /\ Data' = Plain(p)

\* operator= volatile makes a copy and swaps it with the pointer.
Copy(t) ==
  /\ at[t] = "idle" /\ ref[t] # NULL
  /\ Add(ref[t], ALIGNMENT)
  /\ Goto(t, "assign")
  /\ UNCHANGED <<Data, live, ref, old>>

Assign(t) ==
  /\ at[t] = "assign"
  /\ Xch(t, ref[t])
  /\ Goto(t, "transfer")
  /\ UNCHANGED <<counts, ref>>

\* The local pointer keeps its value until it gets the new one.
SwapMutant(t) ==
  /\ at[t] = "idle"
  /\ Xch(t, ref[t])
  /\ Goto(t, "keep")
  /\ UNCHANGED <<counts, ref>>

\* swap with the local int_ptr, and toCptr if that is NULL.
Swap(t) ==
  /\ at[t] = "idle"
  /\ Xch(t, ref[t])
  /\ ref' = [ref EXCEPT ![t] = NULL]
  /\ Goto(t, "keep")
  /\ UNCHANGED counts

\* reset volatile releases the old value with its outer count.
Reset(t) ==
  /\ at[t] = "idle"
  /\ Xch(t, NULL)
  /\ Goto(t, "release")
  /\ UNCHANGED <<counts, ref>>

\* The outer count is lost.
TransferMutant(t) ==
  /\ at[t] \in {"transfer", "keep"}
  /\ old' = [old EXCEPT ![t].outer = 0]
  /\ IF at[t] = "keep" THEN Acquired(t) ELSE Goto(t, "release") /\ UNCHANGED ref
  /\ UNCHANGED <<Data, counts>>

Transfer(t) ==
  /\ at[t] \in {"transfer", "keep"}
  /\ Add(old[t].ptr, - old[t].outer)
  /\ IF at[t] = "keep" THEN Acquired(t)
     ELSE Goto(t, "release") /\ old' = [old EXCEPT ![t].outer = 0] /\ UNCHANGED ref
  /\ UNCHANGED <<Data, live>>

(***************************************************************************)
(* Local pointers.                                                         *)
(***************************************************************************)

\* int_ptr(T*) of a new object, at an address nobody has any more.
Create(t) ==
  /\ at[t] = "idle" /\ ref[t] = NULL
  /\ \E o \in Objects \ live :
       /\ Data.ptr # o /\ \A u \in Threads : ref[u] # o /\ old[u].ptr # o
       /\ live' = live \cup {o}
       /\ Count' = [Count EXCEPT ![o] = ALIGNMENT]
       /\ ref' = [ref EXCEPT ![t] = o]
  /\ UNCHANGED <<Data, at, old>>

\* release: the last one deletes the object.
Discard(w) ==
  /\ Add(w.ptr, - (w.outer + ALIGNMENT))
  /\ live' = IF w.ptr # NULL /\ Count'[w.ptr] = 0 THEN live \ {w.ptr} ELSE live

Release(t) ==
  /\ at[t] = "release"
  /\ Discard(old[t])
  /\ old' = [old EXCEPT ![t] = Plain(NULL)]
  /\ Goto(t, "idle")
  /\ UNCHANGED <<Data, ref>>

Drop(t) ==
  /\ at[t] = "idle" /\ ref[t] # NULL
  /\ Discard(Plain(ref[t]))
  /\ ref' = [ref EXCEPT ![t] = NULL]
  /\ UNCHANGED <<Data, at, old>>

(***************************************************************************)
(* Specification.                                                          *)
(***************************************************************************)

Init ==
  /\ Data = Plain(NULL)
  /\ Count = [o \in Objects |-> 0] /\ live = {}
  /\ ref = [t \in Threads |-> NULL] /\ at = [t \in Threads |-> "idle"]
  /\ old = [t \in Threads |-> Plain(NULL)]

Acquire(t) == NotNull(t) \/ Increment(t) \/ CountIn(t) \/ ResetOuter(t) \/ Undo(t)

Next == \E t \in Threads :
  \/ Acquire(t)
  \/ Copy(t) \/ Assign(t) \/ Swap(t) \/ Reset(t) \/ Transfer(t)
  \/ Create(t) \/ Release(t) \/ Drop(t)

Spec == Init /\ [][Next]_vars

(***************************************************************************)
(* Properties.                                                             *)
(***************************************************************************)

Label == {"idle", "increment", "count", "reset", "undo", "assign", "transfer", "keep", "release"}

\* What a thread got from Data it forgets when it is through with it.
TypeOK ==
  /\ Data \in Word
  /\ Count \in [Objects -> Int] /\ live \subseteq Objects
  /\ ref \in [Threads -> Objects \cup {NULL}]
  /\ at \in [Threads -> Label]
  /\ old \in [Threads -> Word]
  /\ \A t \in Threads :
       /\ at[t] \in {"idle", "increment", "assign"} => old[t] = Plain(NULL)
       /\ at[t] \in {"increment", "count", "reset", "undo", "keep"} => ref[t] = NULL
       /\ at[t] \in {"count", "reset", "undo"} => old[t].outer > 0
       /\ at[t] = "assign" => ref[t] # NULL

\* The share a thread has in the count of o by what it got from Data: not yet
\* counted in, counted in for itself and in advance for others, or to be released.
Share(t, o) ==
  IF old[t].ptr # o THEN 0
  ELSE CASE at[t] = "count" -> -1
         [] at[t] \in {"reset", "undo"} -> ALIGNMENT - old[t].outer
         [] at[t] \in {"transfer", "keep", "release"} -> ALIGNMENT + old[t].outer
         [] OTHER -> 0

\* References t has by its own pointer, and by the copy it is about to assign.
Local(t, o) == IF ref[t] # o THEN 0 ELSE IF at[t] = "assign" THEN 2 * ALIGNMENT ELSE ALIGNMENT

\* acquire, transfer and release: whatever they overlap with, no unit of a count
\* gets lost and none is left over.
CountExact == \A o \in live :
  Count[o] = (IF Data.ptr = o THEN ALIGNMENT + Data.outer ELSE 0)
             + MapThenSumSet(LAMBDA t : Share(t, o) + Local(t, o), Threads)

InFlight(t) == {ref[t], old[t].ptr} \ {NULL}

\* smartptr.h: strongly thread-safe.  What somebody refers to has not been deleted.
InUseAlive == ({Data.ptr} \ {NULL}) \cup UNION {InFlight(t) : t \in Threads} \subseteq live

\* The counts implement references: the last one deletes the object.
Abstract == INSTANCE SharedPointer WITH
  value <- Data.ptr, held <- [t \in Threads |-> InFlight(t)]

ImplementsSharedPointer == Abstract!Spec
=============================================================================
