---------------------------- MODULE SharedPointer ----------------------------
(***************************************************************************)
(* What utils/cpp/smartptr.h promises of a volatile int_ptr: threads read  *)
(* and exchange one shared pointer at once, and an object is deleted by    *)
(* who gives up the last reference to it, neither earlier nor later.       *)
(***************************************************************************)
CONSTANTS Threads, Objects, NULL

VARIABLES
  value,          (* what the pointer refers to                            *)
  held,           (* held[t]: what t has references to                     *)
  live            (* objects that exist                                    *)

vars == <<value, held, live>>

TypeOK ==
  /\ value \in Objects \cup {NULL}
  /\ held \in [Threads -> SUBSET Objects]
  /\ live \subseteq Objects

Hold(t, o) == held' = [held EXCEPT ![t] = @ \cup ({o} \ {NULL})]

Referenced == ({value} \ {NULL}) \cup UNION {held[t] : t \in Threads}

\* A new object under control of a local int_ptr.
Create(t) == \E o \in Objects \ live : Hold(t, o) /\ live' = live \cup {o} /\ UNCHANGED value

Read(t) == Hold(t, value) /\ UNCHANGED <<value, live>>

\* The pointer keeps the reference to p; the one to its old value is with t now.
Exchange(t, p) == p \in held[t] \cup {NULL} /\ value' = p /\ Hold(t, value) /\ UNCHANGED live

\* Who moves its own reference into the pointer has no longer one.
Swap(t, o) ==
  /\ o \in held[t]
  /\ value' = o
  /\ held' = [held EXCEPT ![t] = (@ \ {o}) \cup ({value} \ {NULL})]
  /\ UNCHANGED live

Release(t, o) ==
  /\ o \in held[t]
  /\ held' = [held EXCEPT ![t] = @ \ {o}]
  /\ live' = live \ ({o} \ Referenced')
  /\ UNCHANGED value

Init == value = NULL /\ held = [t \in Threads |-> {}] /\ live = {}

Next == \E t \in Threads :
  \/ Create(t) \/ Read(t)
  \/ \E p \in Objects \cup {NULL} : Exchange(t, p)
  \/ \E o \in Objects : Swap(t, o) \/ Release(t, o)

Spec == Init /\ [][Next]_vars
=============================================================================
