--------------------------- MODULE DependencyInfo ---------------------------
(***************************************************************************)
(* core/dependencyinfo.cpp: a job that lacks information of other objects  *)
(* waits until all its mandatory and one of its optional dependencies are  *)
(* there, and is completed then: rescheduled and deleted (RescheduleWorker *)
(* in aplayable.cpp) or reported to a window (PostMsgDIWorker), which may  *)
(* cancel the wait.                                                        *)
(*                                                                         *)
(* A DependencyInfoPath is a function from objects to the kinds wanted of  *)
(* them.  Entries are taken in the order of the addresses, which is any.   *)
(* The events of an object are raised under its lock, so one at a time:    *)
(* the thread that loads an object has the object's name.  Attaching,      *)
(* detaching and the visit of a delegate are one step each here, see       *)
(* DelegateEvent.  What is available stays available (REL_Cached).         *)
(***************************************************************************)
EXTENDS Naturals, FiniteSets, SequencesExt

CONSTANTS
  Objects,        (* what the job depends on, and the threads that load it *)
  Starter,        (* the thread that starts the wait                       *)
  Flags,          (* kinds of information                                  *)
  Alternatives,   (* sequences of plans, each of which would do for a job  *)
  NULL

Threads == Objects \cup {Starter}

\* JobSet::Commit leaves out a plan without dependencies.
Plan == UNION {[D -> (SUBSET Flags) \ {{}}] : D \in (SUBSET Objects) \ {{}}}

ASSUME ThreadsAssumption      == Starter \notin Objects /\ NULL \notin Threads
ASSUME AlternativesAssumption == Alternatives \subseteq Seq(Plan)

VARIABLES
  missing,        (* missing[o]: what is not available of the object       *)
  kind,           (* which class derives from DependencyInfoWorker         *)
  mandatory, optional,   (* Data                                           *)
  NowWaitingFor,
  Deleg,          (* the object Deleg is attached to                       *)
  DelegList,      (* the objects the delegates of DelegList are attached to*)
  Mtx,            (* owner of DependencyInfoWorker::Mtx                    *)
  at,             (* where each thread is                                  *)
  ep, what,       (* the entry looked at under the mutex                   *)
  loaded,         (* the flags of the event each object raises             *)
  completed,      (* calls of OnCompleted                                  *)
  (* History variables, no step depends on them: *)
  plans, wanted,  (* what the dependencies were joined from, and the result*)
  early,          (* a job was completed before its dependencies           *)
  split,          (* the double check found less than was waited for       *)
  stray           (* a handler ran whose delegate was detached already     *)

data    == <<mandatory, optional>>
waiting == <<NowWaitingFor, Deleg, DelegList>>
entry   == <<ep, what>>
history == <<plans, wanted, early, split, stray>>
vars    == <<missing, kind, data, waiting, Mtx, at, entry, loaded, completed, history>>

Goto(t, label) == at' = [at EXCEPT ![t] = label]

(***************************************************************************)
(* Operators named ...Mutant are faulty variants of the operator that      *)
(* follows them.  No specification uses them: each shows that a property   *)
(* notices the fault.                                                      *)
(***************************************************************************)

(***************************************************************************)
(* DependencyInfoPath and DependencyInfoSet.                               *)
(***************************************************************************)

NoEntries == [o \in {} |-> {}]

\* The entries of both, and what either wants of an object.
Merge(l, r) ==
  [o \in DOMAIN l \cup DOMAIN r |->
     (IF o \in DOMAIN l THEN l[o] ELSE {}) \cup (IF o \in DOMAIN r THEN r[o] ELSE {})]

Only(p, objects) == [o \in DOMAIN p \cap objects |-> p[o]]

\* Size() of a DependencyInfoSet is zero.
NothingIn(d) == DOMAIN d.mandatory \cup DOMAIN d.optional = {}

\* Optional entries are never dropped.
JoinMutant(l, r) ==
  IF DOMAIN r = {} THEN l
  ELSE IF NothingIn(l) THEN [l EXCEPT !.mandatory = r]
  ELSE LET both == DOMAIN l.mandatory \cap DOMAIN r IN
       [mandatory |-> Only(Merge(l.mandatory, r), both),
        optional  |-> Merge(Merge(l.optional, Only(r, DOMAIN r \ both)),
                            Only(l.mandatory, DOMAIN l.mandatory \ both))]

\* What both want is mandatory, the rest optional.  When one set contains the
\* other one only what both leave to choose remains optional.
Join(l, r) ==
  IF DOMAIN r = {} THEN l
  ELSE IF NothingIn(l) THEN [l EXCEPT !.mandatory = r]
  ELSE LET both  == DOMAIN l.mandatory \cap DOMAIN r
           left  == Merge(l.optional, Only(r, DOMAIN r \ both))
           right == Only(l.mandatory, DOMAIN l.mandatory \ both)
           all   == Merge(left, right)
       IN  [mandatory |-> Only(Merge(l.mandatory, r), both),
            optional  |-> IF (both = DOMAIN l.mandatory) # (both = DOMAIN r)
                          THEN Only(all, DOMAIN left \cap DOMAIN right) ELSE all]

\* JobSet::AllDepends after the commits of a job.
Joined(ps) == FoldLeft(Join, [mandatory |-> NoEntries, optional |-> NoEntries], ps)

Available(p, o)  == p[o] \cap missing[o] = {}
AllAvailable(p)  == \A o \in DOMAIN p : Available(p, o)
Fulfilled(d) ==
  /\ AllAvailable(d.mandatory)
  /\ DOMAIN d.optional # {} => \E o \in DOMAIN d.optional : Available(d.optional, o)

(***************************************************************************)
(* Start.                                                                  *)
(***************************************************************************)

Leave(t, label) == Mtx' = NULL /\ Goto(t, label)

\* Entry::Check of the last mandatory entry, which leaves the set.
CheckMandatory(t, o) ==
  /\ at[t] = "start" /\ Mtx = NULL
  /\ o \in DOMAIN mandatory
  /\ mandatory' = Only(mandatory, DOMAIN mandatory \ {o})
  /\ IF Available(mandatory, o)
     THEN UNCHANGED <<NowWaitingFor, Mtx, at, ep, what>>
     ELSE /\ what' = mandatory[o] \cap missing[o] /\ NowWaitingFor' = what'
          /\ Mtx' = t /\ ep' = o
          /\ Goto(t, "attach")
  /\ UNCHANGED <<missing, kind, optional, Deleg, DelegList, loaded, completed, history>>

\* There is no double check.
AttachMutant(t) ==
  /\ at[t] = "attach"
  /\ Deleg' = ep
  /\ Leave(t, "idle")
  /\ UNCHANGED <<missing, kind, data, NowWaitingFor, DelegList, entry, loaded, completed, history>>

Attach(t) ==
  /\ at[t] = "attach"
  /\ Deleg' = ep
  /\ Goto(t, "recheck")
  /\ UNCHANGED <<missing, kind, data, NowWaitingFor, DelegList, Mtx, entry, loaded, completed, history>>

\* The thread goes on only if it found nothing missing and detached the delegate.
Recheck(t) ==
  /\ at[t] = "recheck"
  /\ what' = what \cap missing[ep]
  /\ split' = (split \/ what' \notin {{}, what})
  /\ Deleg' = IF what' = {} THEN NULL ELSE Deleg
  /\ Leave(t, IF what' = {} /\ Deleg # NULL THEN "start" ELSE "idle")
  /\ UNCHANGED <<missing, kind, data, NowWaitingFor, DelegList, ep, loaded, completed, plans, wanted, early, stray>>

\* The job is completed under the mutex.
FinishedMutant(t) ==
  /\ at[t] = "start" /\ Mtx = NULL
  /\ mandatory = NoEntries /\ optional = NoEntries
  /\ Mtx' = t /\ Goto(t, "completed")
  /\ UNCHANGED <<missing, kind, data, waiting, entry, loaded, completed, history>>

Finished(t) ==
  /\ at[t] = "start" /\ Mtx = NULL
  /\ mandatory = NoEntries /\ optional = NoEntries
  /\ Goto(t, "completed")
  /\ UNCHANGED <<missing, kind, data, waiting, Mtx, entry, loaded, completed, history>>

\* An entry of the optional ones: first its delegate, then the check.
AttachOptional(t, o) ==
  /\ \/ at[t] = "start" /\ Mtx = NULL /\ mandatory = NoEntries
     \/ at[t] = "optional"
  /\ o \in DOMAIN optional \ DelegList
  /\ Mtx' = t /\ ep' = o
  /\ DelegList' = DelegList \cup {o}
  /\ Goto(t, "check")
  /\ UNCHANGED <<missing, kind, data, NowWaitingFor, Deleg, what, loaded, completed, history>>

CheckOptional(t) ==
  /\ at[t] = "check"
  /\ optional' = [optional EXCEPT ![ep] = @ \cap missing[ep]]
  /\ IF optional'[ep] = {} THEN DelegList' = {} /\ Leave(t, "completed")
     ELSE /\ IF DelegList = DOMAIN optional THEN Leave(t, "idle") ELSE Goto(t, "optional") /\ UNCHANGED Mtx
          /\ UNCHANGED DelegList
  /\ UNCHANGED <<missing, kind, mandatory, NowWaitingFor, Deleg, entry, loaded, completed, history>>

(***************************************************************************)
(* OnCompleted and Cancel.                                                 *)
(***************************************************************************)

\* RescheduleWorker schedules the request and deletes itself, with its delegates.
OnCompleted(t) ==
  /\ at[t] = "completed"
  /\ completed' = completed + 1
  /\ early' = (early \/ ~ Fulfilled(wanted))
  /\ IF kind = "reschedule" THEN Mtx = NULL /\ Deleg' = NULL /\ DelegList' = {}
     ELSE UNCHANGED <<Deleg, DelegList>>
  /\ Goto(t, "idle")
  /\ UNCHANGED <<missing, kind, data, NowWaitingFor, Mtx, entry, loaded, plans, wanted, split, stray>>

\* The window of the PostMsgDIWorker closes.
Cancel(t) ==
  /\ t = Starter /\ kind = "message"
  /\ at[t] = "idle" /\ Mtx = NULL
  /\ Deleg' = NULL /\ DelegList' = {}
  /\ Goto(t, "canceled")
  /\ UNCHANGED <<missing, kind, data, NowWaitingFor, Mtx, entry, loaded, completed, history>>

(***************************************************************************)
(* Information of the objects and their events.                            *)
(***************************************************************************)

Load(o) ==
  /\ at[o] = "idle"
  /\ \E L \in (SUBSET missing[o]) \ {{}} :
       /\ missing' = [missing EXCEPT ![o] = @ \ L]
       /\ loaded' = [loaded EXCEPT ![o] = L]
  /\ Goto(o, "raise")
  /\ UNCHANGED <<kind, data, waiting, Mtx, entry, completed, history>>

\* The notification comes to the delegate of the job, if one is attached.
Visit(o) ==
  /\ at[o] = "raise"
  /\ Goto(o, IF Deleg = o THEN "mandatory" ELSE IF o \in DelegList THEN "optional?" ELSE "idle")
  /\ UNCHANGED <<missing, kind, data, waiting, Mtx, entry, loaded, completed, history>>

\* Any event of the object will do.
ReduceMutant(o) ==
  /\ at[o] = "mandatory"
  /\ stray' = (stray \/ Deleg # o)
  /\ NowWaitingFor' = NowWaitingFor \ loaded[o]
  /\ Goto(o, "detach")
  /\ UNCHANGED <<missing, kind, data, Deleg, DelegList, Mtx, entry, loaded, completed, plans, wanted, early, split>>

\* MandatoryInfoChangeEvent does not take the mutex.
Reduce(o) ==
  /\ at[o] = "mandatory"
  /\ stray' = (stray \/ Deleg # o)
  /\ NowWaitingFor' = NowWaitingFor \ loaded[o]
  /\ Goto(o, IF NowWaitingFor' = {} THEN "detach" ELSE "idle")
  /\ UNCHANGED <<missing, kind, data, Deleg, DelegList, Mtx, entry, loaded, completed, plans, wanted, early, split>>

\* Who finds the delegate detached goes on nevertheless.
DetachMutant(o) ==
  /\ at[o] = "detach"
  /\ stray' = (stray \/ Deleg \notin {o, NULL})
  /\ Deleg' = NULL
  /\ Goto(o, "start")
  /\ UNCHANGED <<missing, kind, data, NowWaitingFor, DelegList, Mtx, entry, loaded, completed, plans, wanted, early, split>>

Detach(o) ==
  /\ at[o] = "detach"
  /\ stray' = (stray \/ Deleg \notin {o, NULL})
  /\ Deleg' = NULL
  /\ Goto(o, IF Deleg # NULL THEN "start" ELSE "idle")
  /\ UNCHANGED <<missing, kind, data, NowWaitingFor, DelegList, Mtx, entry, loaded, completed, plans, wanted, early, split>>

\* The set is not cleared.
OptionalInfoChangeMutant(o) ==
  /\ at[o] = "optional?" /\ Mtx = NULL
  /\ stray' = (stray \/ o \notin DelegList)
  /\ IF o \notin DOMAIN optional THEN Goto(o, "idle") /\ UNCHANGED optional
     ELSE /\ optional' = [optional EXCEPT ![o] = @ \ loaded[o]]
          /\ Goto(o, IF optional'[o] = {} THEN "completed" ELSE "idle")
  /\ UNCHANGED <<missing, kind, mandatory, waiting, Mtx, entry, loaded, completed, plans, wanted, early, split>>

\* OptionalInfoChangeEvent: the one that completes the entry clears the set.
OptionalInfoChange(o) ==
  /\ at[o] = "optional?" /\ Mtx = NULL
  /\ stray' = (stray \/ o \notin DelegList)
  /\ IF o \notin DOMAIN optional THEN Goto(o, "idle") /\ UNCHANGED optional
     ELSE IF optional[o] \subseteq loaded[o] THEN Goto(o, "completed") /\ optional' = NoEntries
     ELSE Goto(o, "idle") /\ optional' = [optional EXCEPT ![o] = @ \ loaded[o]]
  /\ UNCHANGED <<missing, kind, mandatory, waiting, Mtx, entry, loaded, completed, plans, wanted, early, split>>

(***************************************************************************)
(* Specification.                                                          *)
(***************************************************************************)

\* What the plans want of an object.
Wanted(ps, o) == UNION {ps[i][o] : i \in {j \in DOMAIN ps : o \in DOMAIN ps[j]}}

\* The job found all this missing, but some of it may be there by now.  It is not
\* waited for if the plans were joined to nothing.
Init ==
  /\ plans \in Alternatives
  /\ missing \in {f \in [Objects -> SUBSET Flags] : \A o \in Objects : f[o] \subseteq Wanted(plans, o)}
  /\ wanted = Joined(plans)
  /\ mandatory = wanted.mandatory /\ optional = wanted.optional
  /\ kind \in {"reschedule", "message"}
  /\ NowWaitingFor = {} /\ Deleg = NULL /\ DelegList = {}
  /\ Mtx = NULL /\ ep = NULL /\ what = {}
  /\ at = [t \in Threads |-> IF t = Starter /\ ~ NothingIn(wanted) THEN "start" ELSE "idle"]
  /\ loaded = [o \in Objects |-> {}]
  /\ completed = 0
  /\ early = FALSE /\ split = FALSE /\ stray = FALSE

Start(t) ==
  \/ \E o \in Objects : CheckMandatory(t, o) \/ AttachOptional(t, o)
  \/ Attach(t) \/ Recheck(t) \/ Finished(t) \/ CheckOptional(t)
  \/ OnCompleted(t)

Raise(o) == Visit(o) \/ Reduce(o) \/ Detach(o) \/ OptionalInfoChange(o)

Next ==
  \/ \E t \in Threads : Start(t) \/ Cancel(t)
  \/ \E o \in Objects : Load(o) \/ Raise(o)

Spec == Init /\ [][Next]_vars

\* Every thread goes on with what it has begun, and what is requested of an
\* object is loaded in the end.
Fairness ==
  /\ \A t \in Threads : WF_vars(Start(t))
  /\ \A o \in Objects : WF_vars(Raise(o)) /\ WF_vars(Load(o))

FairSpec == Spec /\ Fairness

(***************************************************************************)
(* Properties.                                                             *)
(***************************************************************************)

Label == {"idle", "start", "attach", "recheck", "optional", "check", "completed",
          "raise", "mandatory", "detach", "optional?", "canceled"}

TypeOK ==
  /\ missing \in [Objects -> SUBSET Flags]
  /\ kind \in {"reschedule", "message"}
  /\ DOMAIN mandatory \subseteq Objects /\ \A o \in DOMAIN mandatory : mandatory[o] \subseteq Flags
  /\ DOMAIN optional \subseteq Objects /\ \A o \in DOMAIN optional : optional[o] \subseteq Flags
  /\ NowWaitingFor \subseteq Flags /\ what \subseteq Flags
  /\ Deleg \in Objects \cup {NULL} /\ DelegList \subseteq Objects
  /\ Mtx \in Threads \cup {NULL} /\ ep \in Objects \cup {NULL}
  /\ at \in [Threads -> Label]
  /\ loaded \in [Objects -> SUBSET Flags]
  /\ completed \in Nat
  /\ \A t \in Threads : at[t] \in {"attach", "recheck", "optional", "check"} <=> Mtx = t

\* t works for a job that is over.
Inside(t) == at[t] \in {"start", "attach", "recheck", "optional", "check", "completed"}

\* RescheduleWorker deletes itself in OnCompleted: it is guaranteed that
\* DependencyInfoWorker does exactly nothing after this callback, and there is no
\* second one.  Holds unless a handler ran after its delegate was detached.
CompletedOnce ==
  ~ stray => completed <= 1 /\ (completed = 1 => \A t \in Threads : ~ Inside(t))

\* OnCompleted is called when the dependencies are fulfilled.
CompletedFulfilled == ~ stray => ~ early

\* dependencyinfo.h: one alternative plan is enough.  Holds if the plans want the
\* same of an object, and each adds something to a set that is not what those
\* before it have in common, and is not empty: Join leaves nothing of a third plan
\* that shares no object with the others, and starts again with the fourth.
AlternativeSuffices ==
  (/\ \A i, j \in DOMAIN plans : \A o \in DOMAIN plans[i] \cap DOMAIN plans[j] : plans[i][o] = plans[j][o]
   /\ \A i \in 2 .. Len(plans) :
        LET before == Joined(SubSeq(plans, 1, i - 1))
        IN  ~ NothingIn(before) /\ DOMAIN plans[i] # DOMAIN before.mandatory)
  => \A i \in DOMAIN plans : AllAvailable(plans[i]) => Fulfilled(wanted)

\* A job does not wait for ever, unless a second check or a late handler got it
\* off track, or its plans were joined to nothing and nobody waits for it.
CompletesUnlessSplit ==
  <>(completed > 0 \/ split \/ stray \/ at[Starter] = "canceled" \/ NothingIn(wanted))

\* dependencyinfo.h, DependencyInfoWorker: after that the abstract method is called.
Completes == <>(completed > 0 \/ at[Starter] = "canceled")
=============================================================================
