---------------------------- MODULE PriorityQueue ----------------------------
(***************************************************************************)
(* utils/cpp/priority_queue.cpp: the linked list behind priority_queue.    *)
(*                                                                         *)
(* One singly linked list holds the entries of all levels.  tail[p] points *)
(* at the last entry whose level is at most p, so an empty level shares    *)
(* the tail of the level before it, and evEmpty[p] is the event a reader   *)
(* of level p sleeps on.  Every operation runs under Mtx and is one action *)
(* here; only EvEmpty.Wait() of Read runs outside, so a reader has a step  *)
(* of its own between being woken and getting the mutex.                   *)
(***************************************************************************)
EXTENDS Naturals, FiniteSets, Sequences

CONSTANTS
  Entries,    (* the qentry objects the heap can hold                      *)
  NULL,       (* the null pointer                                          *)
  Levels,     (* Priorities: number of levels                              *)
  Readers,    (* threads that call Read                                    *)
  Bound       (* Bound[r]: the priority r passes to Read                   *)

Pri == 0 .. Levels - 1

ASSUME NullAssumption    == NULL \notin Entries
ASSUME EntriesAssumption == IsFiniteSet(Entries)
ASSUME LevelsAssumption  == Levels \in Nat \ {0}
ASSUME BoundAssumption   == Bound \in [Readers -> Pri]

VARIABLES
  head,       (* Head: first entry of the list                             *)
  next,       (* qentry::Next of every entry                               *)
  tail,       (* PriEntries[p].Tail                                        *)
  evEmpty,    (* PriEntries[p].EvEmpty is set                              *)
  pc,         (* where each reader is                                      *)
  held,       (* the entry a reader got from Read and has not deleted      *)
  free        (* entries that are not allocated                            *)

vars == <<head, next, tail, evEmpty, pc, held, free>>

Pointer == Entries \cup {NULL}

(***************************************************************************)
(* Operators named ...Mutant are faulty variants of the operator that      *)
(* follows them.  No specification uses them: each shows that a property   *)
(* notices the fault.                                                      *)
(***************************************************************************)

\* The loop stops after its first level.
SharingOneMutant(p, t) == {p}

\* The loop does not stop at the first level with another tail.
SharingAllMutant(p, t) == {q \in Pri : p <= q}

(***************************************************************************)
(* The levels from p upward whose tail is the same pointer t: the range    *)
(* each of the three do/while loops walks.                                 *)
(***************************************************************************)
Sharing(p, t) == {q \in Pri : p <= q /\ \A s \in p .. q : tail[s] = t}

(***************************************************************************)
(* Writers.                                                                *)
(***************************************************************************)

\* Only the event of the level written to is posted.
LinkMutant(e, p, t) ==
  /\ next' = IF t = NULL THEN [next EXCEPT ![e] = head]
                         ELSE [next EXCEPT ![e] = next[t], ![t] = e]
  /\ head' = IF t = NULL THEN e ELSE head
  /\ tail' = [q \in Pri |-> IF q \in Sharing(p, t) THEN e ELSE tail[q]]
  /\ evEmpty' = [evEmpty EXCEPT ![p] = TRUE]

\* Link e behind t, or at the head of the list when t is NULL, and make it
\* the tail of the levels from p on that had the tail t.
Link(e, p, t) ==
  /\ next' = IF t = NULL THEN [next EXCEPT ![e] = head]
                         ELSE [next EXCEPT ![e] = next[t], ![t] = e]
  /\ head' = IF t = NULL THEN e ELSE head
  /\ tail' = [q \in Pri |-> IF q \in Sharing(p, t) THEN e ELSE tail[q]]
  /\ evEmpty' = [q \in Pri |-> q \in Sharing(p, t) \/ evEmpty[q]]

\* Behind everything up to level p.
LinkBehind(e, p) == Link(e, p, tail[p])

\* The entry is put back behind its level.
LinkInFrontMutant(e, p) == Link(e, p, tail[p])

\* Behind everything before level p: in front of the entries of level p.
LinkInFront(e, p) == Link(e, p, IF p = 0 THEN NULL ELSE tail[p - 1])

Write(e, p) ==
  /\ e \in free
  /\ free' = free \ {e}
  /\ LinkBehind(e, p)
  /\ UNCHANGED <<pc, held>>

(***************************************************************************)
(* Readers.                                                                *)
(***************************************************************************)

\* EvEmpty.Wait() returns.
Wake(r) ==
  /\ pc[r] = "wait"
  /\ evEmpty[Bound[r]]
  /\ pc' = [pc EXCEPT ![r] = "awake"]
  /\ UNCHANGED <<head, next, tail, evEmpty, held, free>>

\* The most urgent level that is not empty.
Urgent == CHOOSE p \in Pri : tail[p] # NULL /\ \A q \in Pri : q < p => tail[q] = NULL

\* The reader has the mutex and something at its level or a better one is there.
Take(r) ==
  /\ pc[r] = "awake"
  /\ tail[Bound[r]] # NULL
  /\ held' = [held EXCEPT ![r] = head]
  /\ head' = next[head]
  /\ tail' = [q \in Pri |-> IF q \in Sharing(Urgent, head) THEN NULL ELSE tail[q]]
  /\ pc' = [pc EXCEPT ![r] = "busy"]
  /\ UNCHANGED <<next, evEmpty, free>>

\* The event is reset without another look at the list.
RearmMutant(r) ==
  /\ pc[r] = "awake"
  /\ evEmpty' = [evEmpty EXCEPT ![Bound[r]] = FALSE]
  /\ pc' = [pc EXCEPT ![r] = "wait"]
  /\ UNCHANGED <<head, next, tail, held, free>>

\* The event was not reliable: reset it and wait again.
Rearm(r) ==
  /\ pc[r] = "awake"
  /\ tail[Bound[r]] = NULL
  /\ evEmpty' = [evEmpty EXCEPT ![Bound[r]] = FALSE]
  /\ pc' = [pc EXCEPT ![r] = "wait"]
  /\ UNCHANGED <<head, next, tail, held, free>>

\* A spurious wake-up makes Read return without an entry.
DeleteMutant(r) ==
  /\ pc[r] \in {"awake", "busy"}
  /\ free' = free \cup {held[r]}
  /\ held' = [held EXCEPT ![r] = NULL]
  /\ pc' = [pc EXCEPT ![r] = "wait"]
  /\ UNCHANGED <<head, next, tail, evEmpty>>

\* The reader has done its work, deletes the entry and reads again.
Delete(r) ==
  /\ pc[r] = "busy"
  /\ free' = free \cup {held[r]}
  /\ held' = [held EXCEPT ![r] = NULL]
  /\ pc' = [pc EXCEPT ![r] = "wait"]
  /\ UNCHANGED <<head, next, tail, evEmpty>>

\* The reader puts its entry back in front of level p and reads again.
WriteFront(r, p) ==
  /\ pc[r] = "busy"
  /\ held' = [held EXCEPT ![r] = NULL]
  /\ pc' = [pc EXCEPT ![r] = "wait"]
  /\ LinkInFront(held[r], p)
  /\ UNCHANGED free

(***************************************************************************)
(* Purge unlinks the whole list under the mutex and deletes it.  The       *)
(* events stay as they are.                                                *)
(***************************************************************************)
Purge ==
  /\ head' = NULL
  /\ tail' = [q \in Pri |-> NULL]
  /\ free' = Entries \ {held[r] : r \in Readers}
  /\ UNCHANGED <<next, evEmpty, pc, held>>

(***************************************************************************)
(* Specification.                                                          *)
(***************************************************************************)

Init ==
  /\ head = NULL
  /\ next = [e \in Entries |-> NULL]
  /\ tail = [p \in Pri |-> NULL]
  /\ evEmpty = [p \in Pri |-> FALSE]
  /\ pc = [r \in Readers |-> "wait"]
  /\ held = [r \in Readers |-> NULL]
  /\ free = Entries

Step(r) ==
  \/ Wake(r)
  \/ Take(r)
  \/ Rearm(r)
  \/ Delete(r)

Next ==
  \/ \E e \in Entries, p \in Pri : Write(e, p)
  \/ \E r \in Readers : Step(r)
  \/ \E r \in Readers, p \in Pri : WriteFront(r, p)
  \/ Purge

Spec == Init /\ [][Next]_vars

\* A reader keeps running; nobody has to write.
FairSpec == Spec /\ \A r \in Readers : WF_vars(Step(r))

(***************************************************************************)
(* Traversals of the list.                                                 *)
(***************************************************************************)

Count == Cardinality(Entries)

\* The i-th entry of the list, NULL behind its end.
Nth[i \in 1 .. Count + 1] ==
  IF i = 1 THEN head ELSE IF Nth[i - 1] = NULL THEN NULL ELSE next[Nth[i - 1]]

Positions == {i \in 1 .. Count : Nth[i] # NULL}

\* The first level from p on whose tail is not t.  Behind the last entry the code goes on
\* to the Tail of a level that does not exist; it has enumerated all entries by then.
Skip(p, t) == CHOOSE q \in p .. Levels :
                 /\ q = Levels \/ tail[q] # t
                 /\ \A s \in p .. q - 1 : tail[s] = t

\* The level ForEach reports for the i-th entry.
LevelAt[i \in 1 .. Count] ==
  IF i = 1 THEN Skip(0, NULL) ELSE Skip(LevelAt[i - 1], Nth[i - 1])

\* What ForEach hands to its action, in this order.
ForEach == [i \in Positions |-> [item |-> Nth[i], level |-> LevelAt[i]]]

\* Check(), the consistency test of debug builds.
Check ==
  IF head = NULL
  THEN \A p \in Pri : tail[p] = NULL
  ELSE /\ \A i \in Positions : LevelAt[i] < Levels
       /\ LET last == CHOOSE i \in Positions : i + 1 \notin Positions
          IN  Skip(LevelAt[last], Nth[last]) = Levels

(***************************************************************************)
(* Properties.                                                             *)
(***************************************************************************)

TypeOK ==
  /\ head \in Pointer
  /\ next \in [Entries -> Pointer]
  /\ tail \in [Pri -> Pointer]
  /\ evEmpty \in [Pri -> BOOLEAN]
  /\ pc \in [Readers -> {"wait", "awake", "busy"}]
  /\ held \in [Readers -> Pointer]
  /\ free \in SUBSET Entries

\* Tails are cumulative: once a level has something at or before it, so has
\* every level behind it.  Read relies on it when it tests its own level only.
TailsCumulative ==
  \A p, q \in Pri : p <= q /\ tail[p] # NULL => tail[q] # NULL

\* A reader never sleeps on an event that is not set while there is something
\* for it: Write and WriteFront post the events of every level whose emptiness
\* they end, Read resets one only after it looked, under the mutex.
NoLostWakeup == \A p \in Pri : tail[p] # NULL => evEmpty[p]

\* Check() holds, and the list holds each allocated entry no reader has, once:
\* linking at a tail and unlinking at the head neither lose nor share an entry.
ListIntact ==
  /\ Check
  /\ {Nth[i] : i \in Positions} = Entries \ (free \cup {held[r] : r \in Readers})
  /\ \A i, j \in Positions : Nth[i] = Nth[j] => i = j
  /\ \A r, s \in Readers : held[r] = held[s] /\ held[r] # NULL => r = s

\* What ForEach enumerates behaves as the list the interface describes: order
\* by level, first in first out within one, put back in front of its level.
Abstract == INSTANCE PriorityList WITH
  queue <- ForEach,
  out   <- {held[r] : r \in Readers} \ {NULL}
ImplementsPriorityList == Abstract!Spec

\* A reader that asks for an entry while there is one for it gets one, or
\* another reader or a Purge leaves it nothing.
ReaderServed ==
  \A r \in Readers :
    pc[r] # "busy" /\ tail[Bound[r]] # NULL
      ~> pc[r] = "busy" \/ tail[Bound[r]] = NULL
=============================================================================
