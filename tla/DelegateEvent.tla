---------------------------- MODULE DelegateEvent ----------------------------
(***************************************************************************)
(* utils/cpp/event.cpp: delegates register at an event and deregister from *)
(* it while other threads raise it.                                        *)
(*                                                                         *)
(* Deleg is a singly linked list of delegates, Iter one of the iterators   *)
(* of the notifications that are running.  Both get a new head without a   *)
(* lock, by compare and exchange, and lose elements under the mutex.  The  *)
(* exchange loops are one step: the Link of an element that is not         *)
(* published yet is nobody else's.  A delegate shares its name with the    *)
(* thread that owns it; each thread raises one event at a time.            *)
(***************************************************************************)
EXTENDS Naturals, FiniteSets

CONSTANTS
  Delegates,      (* delegates, and the threads that own them              *)
  Notifiers,      (* threads that raise the event, and their iterators     *)
  NULL

Threads == Delegates \cup Notifiers

ASSUME RolesAssumption  == Delegates \cap Notifiers = {} /\ NULL \notin Threads
ASSUME FiniteAssumption == IsFiniteSet(Delegates) /\ IsFiniteSet(Notifiers)

VARIABLES
  Deleg, Link, Ev,      (* list of delegates; Ev[d]: d.Ev is this event    *)
  Iter, IterLink, Next, (* list of iterators                               *)
  Mtx,                  (* owner of event_base::Mtx                        *)
  at,                   (* where each thread is                            *)
  mp,                   (* the delegate each thread is at                  *)
  (* History variables, no step depends on them: *)
  due,                  (* due[n]: delegates n has to call yet             *)
  lost,                 (* delegates registered while the head was removed *)
  blind                 (* notifications that started or registered while  *)
                        (* a detach or another's removal was under way     *)

list    == <<Deleg, Link, Ev>>
iters   == <<Iter, IterLink, Next>>
history == <<due, lost, blind>>
vars    == <<list, iters, Mtx, at, mp, history>>

Goto(t, label) == at' = [at EXCEPT ![t] = label]
Look(t, d)     == mp' = [mp EXCEPT ![t] = d]

\* What a list that starts with x consists of.
Reached(link, x) ==
  LET path[k \in 1 .. Cardinality(DOMAIN link)] ==
        IF k = 1 THEN x ELSE IF path[k - 1] = NULL THEN NULL ELSE link[path[k - 1]]
  IN  {path[k] : k \in DOMAIN path} \ {NULL}

Running == {n \in Notifiers : at[n] # "idle"}

\* t detaches the delegate it is at, or waits for the mutex to do so.
Detaching(t) == at[t] \in {"lock", "find", "unlinkhead"}

(***************************************************************************)
(* Operators named ...Mutant are faulty variants of the operator that      *)
(* follows them.  No specification uses them: each shows that a property   *)
(* notices the fault.                                                      *)
(***************************************************************************)

(***************************************************************************)
(* operator+= and the life of a delegate.                                  *)
(***************************************************************************)

\* The name stands for a new object, so nothing refers to the last one.
Fresh(d) ==
  /\ Deleg # d /\ \A x \in Delegates : Link[x] # d
  /\ \A n \in Notifiers : Next[n] # d /\ mp[n] # d

Attach(d) ==
  /\ d \in Delegates /\ at[d] = "idle"
  /\ Fresh(d)
  /\ Ev' = [Ev EXCEPT ![d] = TRUE]
  /\ Goto(d, "attach")
  /\ UNCHANGED <<Deleg, Link, iters, Mtx, mp, history>>

Register(d) ==
  /\ at[d] = "attach"
  /\ Deleg' = d /\ Link' = [Link EXCEPT ![d] = Deleg]
  /\ lost' = IF \E t \in Threads : at[t] = "unlinkhead" THEN lost \cup {d} ELSE lost \ {d}
  /\ Goto(d, "live")
  /\ UNCHANGED <<Ev, iters, Mtx, mp, due, blind>>

(***************************************************************************)
(* detach and operator-=, by the owner or by the handler of d.             *)
(***************************************************************************)

\* Who detaches a delegate, and goes where after it.
After(t) == IF t \in Delegates THEN "idle" ELSE "fetch"

\* Ev is left until the delegate is unlinked.
DetachMutant(t, d) ==
  /\ \/ t = d /\ at[t] = "live"
     \/ t \in Notifiers /\ at[t] = "call" /\ mp[t] = d
  /\ Goto(t, IF Ev[d] THEN "lock" ELSE After(t))
  /\ Look(t, IF Ev[d] THEN d ELSE NULL)
  /\ due' = [n \in Notifiers |-> due[n] \ {d}]
  /\ UNCHANGED <<list, iters, Mtx, lost, blind>>

\* The exchange of Ev decides who detaches the delegate.  The test in detach reads Ev
\* once more than that; if another thread resets it in between then the program faults,
\* so there is no state after that.
Detach(t, d) ==
  /\ \/ t = d /\ at[t] = "live"
     \/ t \in Notifiers /\ at[t] = "call" /\ mp[t] = d
  /\ Ev' = [Ev EXCEPT ![d] = FALSE]
  /\ Goto(t, IF Ev[d] THEN "lock" ELSE After(t))
  /\ Look(t, IF Ev[d] THEN d ELSE NULL)
  /\ due' = [n \in Notifiers |-> due[n] \ {d}]
  /\ UNCHANGED <<Deleg, Link, iters, Mtx, lost, blind>>

\* Iterators stay where they are.
MoveIteratorsMutant(t) ==
  /\ at[t] = "lock"
  /\ Mtx = NULL /\ Mtx' = t
  /\ blind' = blind \cup {n \in Running : at[n] \in {"read", "set"} \/ n \notin Reached(IterLink, Iter)}
  /\ Goto(t, "find")
  /\ UNCHANGED <<list, iters, mp, due, lost>>

\* The lock ends with the loop over the iterators.
LockScopeMutant(t) ==
  /\ at[t] = "lock"
  /\ Mtx = NULL
  /\ Next' = [n \in Notifiers |->
       IF n \in Reached(IterLink, Iter) /\ Next[n] = mp[t] THEN Link[mp[t]] ELSE Next[n]]
  /\ Goto(t, "find")
  /\ UNCHANGED <<list, Iter, IterLink, Mtx, mp, history>>

\* Iterators that would come to the delegate next are moved behind it.
MoveIterators(t) ==
  /\ at[t] = "lock"
  /\ Mtx = NULL /\ Mtx' = t
  /\ Next' = [n \in Notifiers |->
       IF n \in Reached(IterLink, Iter) /\ Next[n] = mp[t] THEN Link[mp[t]] ELSE Next[n]]
  /\ blind' = blind \cup {n \in Running : at[n] \in {"read", "set"} \/ n \notin Reached(IterLink, Iter)}
  /\ Goto(t, "find")
  /\ UNCHANGED <<list, Iter, IterLink, mp, due, lost>>

Detached(t) == Goto(t, After(t)) /\ Look(t, NULL) /\ Mtx' = NULL

\* The head of the list is another step: it has been read, and is written then.
FindHead(t) ==
  /\ at[t] = "find"
  /\ Deleg = mp[t]
  /\ Goto(t, "unlinkhead")
  /\ UNCHANGED <<list, iters, Mtx, mp, history>>

\* The list ends with the delegate.
UnlinkMutant(t) ==
  /\ at[t] = "find"
  /\ Deleg # mp[t]
  /\ \E x \in Reached(Link, Deleg) :
       /\ Link[x] = mp[t]
       /\ Link' = [Link EXCEPT ![x] = NULL, ![mp[t]] = NULL]
  /\ Detached(t)
  /\ UNCHANGED <<Deleg, Ev, iters, history>>

Unlink(t) ==
  /\ at[t] = "find"
  /\ Deleg # mp[t]
  /\ \E x \in Reached(Link, Deleg) :
       /\ Link[x] = mp[t]
       /\ Link' = [Link EXCEPT ![x] = Link[mp[t]], ![mp[t]] = NULL]
  /\ Detached(t)
  /\ UNCHANGED <<Deleg, Ev, iters, history>>

UnlinkHead(t) ==
  /\ at[t] = "unlinkhead"
  /\ Deleg' = Link[mp[t]] /\ Link' = [Link EXCEPT ![mp[t]] = NULL]
  /\ Detached(t)
  /\ UNCHANGED <<Ev, iters, history>>

\* It is not in the list: an assertion fails, in release builds nothing happens.
NotFound(t) ==
  /\ at[t] = "find"
  /\ mp[t] \notin Reached(Link, Deleg)
  /\ Detached(t)
  /\ UNCHANGED <<list, iters, history>>

(***************************************************************************)
(* operator(): the constructor, next and the destructor of the iterator.   *)
(***************************************************************************)

RegisterIterator(n) ==
  /\ n \in Notifiers /\ at[n] = "idle"
  /\ Iter' = n /\ IterLink' = [IterLink EXCEPT ![n] = Iter]
  /\ Next' = [Next EXCEPT ![n] = NULL]
  /\ due' = [due EXCEPT ![n] = {d \in Delegates \ lost : at[d] = "live" /\ Ev[d]}]
  /\ blind' = IF \E t \in Threads : at[t] \in {"find", "unlinkhead", "leavehead"}
              THEN blind \cup {n} ELSE blind
  /\ Goto(n, "read")
  /\ UNCHANGED <<list, Mtx, mp, lost>>

\* Next = root.Deleg, without the mutex.
ReadDeleg(n) ==
  /\ at[n] = "read"
  /\ Look(n, Deleg)
  /\ Goto(n, "set")
  /\ UNCHANGED <<list, iters, Mtx, history>>

SetNext(n) ==
  /\ at[n] = "set"
  /\ Next' = [Next EXCEPT ![n] = mp[n]]
  /\ Look(n, NULL)
  /\ Goto(n, "fetch")
  /\ UNCHANGED <<list, Iter, IterLink, Mtx, history>>

\* The first delegate from Next on that is not detached.
Fetch(n) ==
  /\ at[n] = "fetch"
  /\ Mtx = NULL
  /\ LET here == {d \in Delegates : d \in Reached(Link, Next[n]) /\ Ev[d]}
     IN  \/ /\ here = {}
            /\ Next' = [Next EXCEPT ![n] = NULL]
            /\ Goto(n, "leave") /\ UNCHANGED mp
         \/ \E first \in here :
            /\ here \subseteq Reached(Link, first)
            /\ Next' = [Next EXCEPT ![n] = Link[first]]
            /\ Goto(n, "check") /\ Look(n, first)
  /\ UNCHANGED <<list, Iter, IterLink, Mtx, history>>

\* Ev is tested again without the mutex, then the handler is called.
Call(n) ==
  /\ at[n] = "check"
  /\ IF Ev[mp[n]]
     THEN /\ Goto(n, "call") /\ UNCHANGED mp
          /\ due' = [due EXCEPT ![n] = @ \ {mp[n]}]
     ELSE /\ Goto(n, "fetch") /\ Look(n, NULL) /\ UNCHANGED due
  /\ UNCHANGED <<list, iters, Mtx, lost, blind>>

\* The handler returns.
Return(n) ==
  /\ at[n] = "call"
  /\ Goto(n, "fetch") /\ Look(n, NULL)
  /\ UNCHANGED <<list, iters, Mtx, history>>

Left(n) ==
  /\ Goto(n, "idle")
  /\ blind' = blind \ {n}
  /\ due' = [due EXCEPT ![n] = {}]
  /\ UNCHANGED <<list, Next, mp, lost>>

LeaveHead(n) ==
  /\ at[n] = "leave"
  /\ Mtx = NULL /\ Iter = n
  /\ Mtx' = n
  /\ Goto(n, "leavehead")
  /\ UNCHANGED <<list, iters, mp, history>>

WriteIter(n) ==
  /\ at[n] = "leavehead"
  /\ Iter' = IterLink[n] /\ IterLink' = [IterLink EXCEPT ![n] = NULL]
  /\ Mtx' = NULL
  /\ Left(n)

\* The iterator is looked for at the head only.
LeaveMutant(n) ==
  /\ at[n] = "leave"
  /\ Mtx = NULL /\ Iter # n
  /\ UNCHANGED <<Iter, IterLink, Mtx>>
  /\ Left(n)

\* An iterator that is not in the list is left alone, after a failed assertion.
Leave(n) ==
  /\ at[n] = "leave"
  /\ Mtx = NULL /\ Iter # n
  /\ IterLink' = [k \in Notifiers |->
       IF k = n THEN NULL
       ELSE IF k \in Reached(IterLink, Iter) /\ IterLink[k] = n THEN IterLink[n] ELSE IterLink[k]]
  /\ UNCHANGED <<Iter, Mtx>>
  /\ Left(n)

(***************************************************************************)
(* Specification.                                                          *)
(***************************************************************************)

Init ==
  /\ Deleg = NULL /\ Link = [d \in Delegates |-> NULL] /\ Ev = [d \in Delegates |-> FALSE]
  /\ Iter = NULL /\ IterLink = [n \in Notifiers |-> NULL] /\ Next = [n \in Notifiers |-> NULL]
  /\ Mtx = NULL
  /\ at = [t \in Threads |-> "idle"] /\ mp = [t \in Threads |-> NULL]
  /\ due = [n \in Notifiers |-> {}] /\ lost = {} /\ blind = {}

Remove(t) == MoveIterators(t) \/ FindHead(t) \/ Unlink(t) \/ UnlinkHead(t) \/ NotFound(t)

Raise(n) ==
  \/ RegisterIterator(n) \/ ReadDeleg(n) \/ SetNext(n) \/ Fetch(n) \/ Call(n) \/ Return(n)
  \/ LeaveHead(n) \/ WriteIter(n) \/ Leave(n)

Step ==
  \/ \E d \in Delegates : Attach(d) \/ Register(d)
  \/ \E t \in Threads, d \in Delegates : Detach(t, d)
  \/ \E t \in Threads : Remove(t)
  \/ \E n \in Notifiers : Raise(n)

Spec == Init /\ [][Step]_vars

(***************************************************************************)
(* Properties.                                                             *)
(***************************************************************************)

\* The mutex is held where the code holds it, and by nobody else.
TypeOK ==
  /\ Deleg \in Delegates \cup {NULL} /\ Link \in [Delegates -> Delegates \cup {NULL}]
  /\ Ev \in [Delegates -> BOOLEAN]
  /\ Iter \in Notifiers \cup {NULL} /\ IterLink \in [Notifiers -> Notifiers \cup {NULL}]
  /\ Next \in [Notifiers -> Delegates \cup {NULL}] /\ mp \in [Threads -> Delegates \cup {NULL}]
  /\ due \in [Notifiers -> SUBSET Delegates]
  /\ lost \subseteq Delegates /\ blind \subseteq Notifiers
  /\ Mtx \in Threads \cup {NULL}
  /\ \A t \in Threads : Mtx = t <=> at[t] \in {"find", "unlinkhead", "leavehead"}

\* detach returns true for the thread that really removed the delegate and for
\* nobody else: DependencyInfoWorker goes on exactly once because of it.
OneDetaches ==
  \A t, u \in Threads : Detaching(t) /\ Detaching(u) /\ mp[t] = mp[u] => t = u

\* A delegate is in the list as long as it is registered, unless it registered
\* while another one was removed from the head, and no longer.
ListOfRegistered ==
  /\ \A d \in Delegates \ lost : at[d] = "live" /\ Ev[d] => d \in Reached(Link, Deleg)
  /\ \A d \in Reached(Link, Deleg) : Ev[d] \/ \E t \in Threads : Detaching(t) /\ mp[t] = d

\* Iterators live on the stack of their notification: when it has left, no list
\* leads to its iterator.
IteratorsRunning == Reached(IterLink, Iter) \subseteq Running

\* A notification calls every delegate that was registered when it began and has
\* not been detached since, though others come and go, unless it is blind.
AllCalled == \A n \in Notifiers \ blind : at[n] = "leave" => due[n] = {}
==============================================================================
