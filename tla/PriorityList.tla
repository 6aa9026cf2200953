---------------------------- MODULE PriorityList ----------------------------
(***************************************************************************)
(* What utils/cpp/queue.h promises of a priority_queue: one list, ordered  *)
(* by level (level 0 is the most urgent), first in first out within a      *)
(* level.  Nothing is said here of pointers, tails or events, which module *)
(* PriorityQueue has; it is shown to implement this module.                *)
(***************************************************************************)
EXTENDS Naturals, Sequences, FiniteSets, SequencesExt

CONSTANTS
  Entries,    (* what can be queued                                        *)
  Levels      (* number of priority levels                                 *)

VARIABLES
  queue,      (* sequence of [item, level] records, levels ascending       *)
  out         (* entries read that their reader has not yet disposed of    *)

vars == <<queue, out>>

Level == 0 .. Levels - 1

Slot == [item : Entries, level : Level]

\* How many slots of q belong to a level below bound.
Before(q, bound) == Cardinality({i \in DOMAIN q : q[i].level < bound})

\* q with e behind, or in front of, everything of its own level.
Behind(q, e, p)  == InsertAt(q, Before(q, p + 1) + 1, [item |-> e, level |-> p])
InFront(q, e, p) == InsertAt(q, Before(q, p) + 1, [item |-> e, level |-> p])

(***************************************************************************)
(* Operations.                                                             *)
(***************************************************************************)

Queued == {queue[i].item : i \in DOMAIN queue}

\* Append a new entry at level p.
Write(e, p) ==
  /\ e \notin Queued \cup out
  /\ queue' = Behind(queue, e, p)
  /\ UNCHANGED out

\* Take the oldest entry of the most urgent level, if that is at most bound.
Readable(bound) == queue # <<>> /\ Head(queue).level <= bound
Read(bound) ==
  /\ Readable(bound)
  /\ queue' = Tail(queue)
  /\ out' = out \cup {Head(queue).item}

\* Put an entry that was read back at level p, ahead of everything of p.
WriteFront(e, p) ==
  /\ e \in out
  /\ queue' = InFront(queue, e, p)
  /\ out' = out \ {e}

\* Be done with an entry that was read.
Discard(e) ==
  /\ e \in out
  /\ out' = out \ {e}
  /\ UNCHANGED queue

\* Remove everything.
Purge == queue' = <<>> /\ UNCHANGED out

(***************************************************************************)
(* Specification.                                                          *)
(***************************************************************************)

Init == queue = <<>> /\ out = {}

Next ==
  \/ \E e \in Entries, p \in Level : Write(e, p) \/ WriteFront(e, p)
  \/ \E bound \in Level : Read(bound)
  \/ \E e \in Entries : Discard(e)
  \/ Purge

Spec == Init /\ [][Next]_vars
=============================================================================
