------------------------------ MODULE InfoLoad ------------------------------
(***************************************************************************)
(* How information about one object is requested, scheduled, loaded and    *)
(* waited for: APlayable::RequestInfo, ScheduleRequest, HandleRequest and  *)
(* PlayableWorker of core/aplayable.cpp; Playable::DoRequestInfo, the      *)
(* decoder part of DoLoadInfo and Invalidate of core/playable.cpp;         *)
(* WaitInfo of core/waitinfo.cpp.                                          *)
(*                                                                         *)
(* Each step touches one word of the state machine of module InfoState,    *)
(* but GetRequest reads, and EndUpdate clears, both request words at once: *)
(* their interleavings are InfoState's.  The worker queue is that of       *)
(* PriorityList: as all entries name the one object, what is left of it is *)
(* the number of entries at each level.                                    *)
(***************************************************************************)
EXTENDS Naturals, FiniteSets

CONSTANTS
  Flags,          (* the kinds of decoder information                      *)
  Workers,        (* threads that run PlayableWorker                       *)
  DlgWorkers,     (* those of them that num_dlg_workers counts             *)
  Askers,         (* threads that call RequestInfo with PRI_Sync           *)
  Clients,        (* threads that request asynchronously and wait for the  *)
                  (* InfoChange event                                      *)
  LowClients,     (* those of them that request with PRI_Low               *)
  Changers,       (* threads that change the source and call Invalidate    *)
  MaxVersion,     (* bound: each kind changes this many times              *)
  NULL            (* no thread                                             *)

Loaders == Workers \cup Askers
Threads == Loaders \cup Clients \cup Changers
Level   == {0, 1}
Version == 0 .. MaxVersion

ASSUME RolesAssumption ==
  /\ DlgWorkers \subseteq Workers /\ LowClients \subseteq Clients
  /\ NULL \notin Threads
  /\ MaxVersion \in Nat

(***************************************************************************)
(* Operators named ...Mutant are faulty variants of the operator that      *)
(* follows them, see module InfoState.                                     *)
(***************************************************************************)

VARIABLES
  version,        (* version[f]: what the source contains                  *)
  info,           (* info[f]: the version that Playable::Info shows        *)
  Confirmed, ReqLow, ReqHigh, InService,          (* Info.InfoStat         *)
  AsyncRequest,   (* levels with an entry on the way                       *)
  queued,         (* queued[p]: entries at level p of WQueue               *)
  Mtx,            (* holder of the object's mutex                          *)
  at,             (* where each thread is                                  *)
  what,           (* askers and clients: flags they want; changers: flags  *)
                  (* they invalidate                                       *)
  job,            (* loaders: the locals of DoLoadInfo                     *)
  tainted         (* history: flags begun while a loader still was at      *)
                  (* them, returned by the decoder without being in        *)
                  (* service for it, or invalidated inside an EndUpdate    *)

words == <<Confirmed, ReqLow, ReqHigh, InService>>
queue == <<AsyncRequest, queued>>
vars  == <<version, info, words, queue, Mtx, at, what, job, tainted>>

\* upd holds the flags of the InfoState::Update, what2 those the decoder is
\* asked for or returned, ret those an EndUpdate succeeded with; data is the
\* version the decoder read, loaded is args.Loaded.
NoJob == [level |-> 0, upd |-> {}, what2 |-> {}, ret |-> {}, loaded |-> {},
          data |-> [f \in Flags |-> 0]]

Goto(t, label) == at' = [at EXCEPT ![t] = label]
Want(t, flags) == what' = [what EXCEPT ![t] = flags]

ClientLevel(c) == IF c \in LowClients THEN 1 ELSE 0

\* Init gives the dialog workers PRI_Low and the others PRI_Normal.
WorkerLevel(w) == IF w \in DlgWorkers THEN 1 ELSE 0

Requested(p) == IF p = 1 THEN ReqLow \cup ReqHigh ELSE ReqHigh

(***************************************************************************)
(* RequestInfo.  DoRequestInfo looks what is missing and requests it.      *)
(***************************************************************************)

Check(t) ==
  /\ t \in Askers \cup Clients /\ at[t] = "idle"
  /\ \E flags \in (SUBSET Flags) \ {{}} :
       /\ flags \cap Confirmed = {}
       /\ Want(t, flags)
  /\ Goto(t, "request")
  /\ UNCHANGED <<version, info, words, queue, Mtx, job, tainted>>

Place(p, flags) ==
  IF p = 1 THEN ReqLow' = ReqLow \cup (flags \ ReqHigh) /\ UNCHANGED ReqHigh
           ELSE ReqHigh' = ReqHigh \cup flags /\ UNCHANGED ReqLow

\* A request that is not a no-op is scheduled.
RequestAsync(c) ==
  /\ c \in Clients /\ at[c] = "request"
  /\ Place(ClientLevel(c), what[c])
  /\ Goto(c, IF what[c] \subseteq Requested(ClientLevel(c)) THEN "await" ELSE "schedule")
  /\ UNCHANGED <<version, info, Confirmed, InService, queue, Mtx, what, job, tainted>>

\* ScheduleRequest: the first one to set the bit writes an entry.
Schedule(c) ==
  /\ at[c] = "schedule"
  /\ AsyncRequest' = AsyncRequest \cup {ClientLevel(c)}
  /\ Goto(c, IF ClientLevel(c) \in AsyncRequest THEN "await" ELSE "write")
  /\ UNCHANGED <<version, info, words, queued, Mtx, what, job, tainted>>

WriteEntry(c) ==
  /\ at[c] = "write"
  /\ queued' = [queued EXCEPT ![ClientLevel(c)] = @ + 1]
  /\ Goto(c, "await")
  /\ UNCHANGED <<version, info, words, AsyncRequest, Mtx, what, job, tainted>>

\* All that was requested has been the subject of an InfoChange event.
Answered(c) ==
  /\ c \in Clients /\ at[c] = "await"
  /\ what[c] = {}
  /\ Goto(c, "idle")
  /\ UNCHANGED <<version, info, words, queue, Mtx, what, job, tainted>>

\* With PRI_Sync the thread handles the request itself.
RequestSync(a) ==
  /\ a \in Askers /\ at[a] = "request"
  /\ Place(0, what[a])
  /\ Goto(a, "handle")
  /\ UNCHANGED <<version, info, Confirmed, InService, queue, Mtx, what, job, tainted>>

\* What is still missing then is waited for.
Recheck(a) ==
  /\ at[a] = "recheck"
  /\ Want(a, what[a] \ Confirmed)
  /\ Goto(a, IF what[a] \subseteq Confirmed THEN "idle" ELSE "register")
  /\ UNCHANGED <<version, info, words, queue, Mtx, job, tainted>>

\* WaitInfo::Wait registers for the event, then looks again.
Register(a) ==
  /\ at[a] = "register"
  /\ Goto(a, "registered")
  /\ UNCHANGED <<version, info, words, queue, Mtx, what, job, tainted>>

LookAgain(a) ==
  /\ at[a] = "registered"
  /\ Want(a, what[a] \ Confirmed)
  /\ Goto(a, "wait")
  /\ UNCHANGED <<version, info, words, queue, Mtx, job, tainted>>

Waited(a) ==
  /\ at[a] = "wait"
  /\ what[a] = {}
  /\ Goto(a, "idle")
  /\ UNCHANGED <<version, info, words, queue, Mtx, what, job, tainted>>

(***************************************************************************)
(* PlayableWorker reads the most urgent entry up to its level and calls    *)
(* HandleRequest.                                                          *)
(***************************************************************************)

ReadEntry(w) ==
  /\ w \in Workers /\ at[w] = "idle"
  /\ \E p \in 0 .. WorkerLevel(w) :
       /\ queued[p] > 0
       /\ \A q \in Level : q < p => queued[q] = 0
       /\ queued' = [queued EXCEPT ![p] = @ - 1]
       /\ job' = [job EXCEPT ![w].level = p]
  /\ Goto(w, "handle")
  /\ UNCHANGED <<version, info, words, AsyncRequest, Mtx, what, tainted>>

\* A request at normal priority leaves its bit set.
HandleRequestMutant(t) ==
  /\ at[t] = "handle"
  /\ AsyncRequest' = IF job[t].level = 1 THEN {} ELSE AsyncRequest
  /\ Goto(t, "begin")
  /\ UNCHANGED <<version, info, words, queued, Mtx, what, job, tainted>>

HandleRequest(t) ==
  /\ at[t] = "handle"
  /\ AsyncRequest' = IF job[t].level = 1 THEN {} ELSE AsyncRequest \ {0}
  /\ Goto(t, "begin")
  /\ UNCHANGED <<version, info, words, queued, Mtx, what, job, tainted>>

(***************************************************************************)
(* DoLoadInfo.                                                             *)
(***************************************************************************)

\* The flags of got go into service for a loader.  Those of late have been read
\* already, without being in service for it.
Obtain(got, late) ==
  /\ InService' = InService \cup got
  /\ tainted' = tainted \cup late \cup {f \in got : \E l \in Loaders : f \in job[l].upd}

Finish(t) ==
  /\ Goto(t, IF t \in Workers THEN "idle" ELSE "recheck")
  /\ job' = [job EXCEPT ![t] = NoJob]

\* The constructor of upd, or its Reset in a retry.
GetRequest(t) ==
  /\ at[t] = "begin"
  /\ job' = [job EXCEPT ![t].what2 = Requested(job[t].level)]
  /\ Goto(t, "obtain")
  /\ UNCHANGED <<version, info, words, queue, Mtx, what, tainted>>

\* The lock is still held when the next round begins.
BeginUpdateMutant(t) ==
  /\ at[t] = "obtain"
  /\ LET got == job[t].what2 \ InService
     IN  /\ Obtain(got, {})
         /\ IF got = {} /\ job[t].loaded = {}
            THEN Finish(t)
            ELSE /\ job' = [job EXCEPT ![t].upd = got, ![t].what2 = got]
                 /\ Goto(t, IF got = {} THEN "raise" ELSE "decode")
  /\ UNCHANGED <<version, info, Confirmed, ReqLow, ReqHigh, queue, Mtx, what>>

\* A retry leaves the scope of the lock.  Without anything to do the event of
\* earlier rounds is still raised.
BeginUpdate(t) ==
  /\ at[t] = "obtain"
  /\ LET got == job[t].what2 \ InService
     IN  /\ Obtain(got, {})
         /\ IF got = {} /\ job[t].loaded = {}
            THEN Finish(t)
            ELSE /\ job' = [job EXCEPT ![t].upd = got, ![t].what2 = got]
                 /\ Goto(t, IF got = {} THEN "raise" ELSE "decode")
  /\ Mtx' = IF Mtx = t THEN NULL ELSE Mtx
  /\ UNCHANGED <<version, info, Confirmed, ReqLow, ReqHigh, queue, what>>

\* DecoderFileInfo reads the source.  It may return more than it was asked for.
Decode(t) ==
  /\ at[t] = "decode"
  /\ \E flags \in SUBSET Flags :
       job' = [job EXCEPT ![t].data = version, ![t].what2 = job[t].upd \cup flags]
  /\ Goto(t, "extend")
  /\ UNCHANGED <<version, info, words, queue, Mtx, what, tainted>>

\* upd.Extend(what2), which asks for the flags of upd once more.
Extend(t) ==
  /\ at[t] = "extend"
  /\ Obtain(job[t].what2 \ InService, job[t].what2 \ (job[t].upd \cap InService))
  /\ job' = [job EXCEPT ![t].upd = @ \cup (job[t].what2 \ InService)]
  /\ Goto(t, "lock")
  /\ UNCHANGED <<version, info, Confirmed, ReqLow, ReqHigh, queue, Mtx, what>>

Lock(t) ==
  /\ at[t] = "lock"
  /\ Mtx = NULL /\ Mtx' = t
  /\ Goto(t, "update")
  /\ UNCHANGED <<version, info, words, queue, what, job, tainted>>

UpdateInfo(t) ==
  /\ at[t] = "update"
  /\ info' = [f \in Flags |-> IF f \in job[t].what2 THEN job[t].data[f] ELSE info[f]]
  /\ Goto(t, "commit")
  /\ UNCHANGED <<version, words, queue, Mtx, what, job, tainted>>

\* Commit, that is EndUpdate of what is held: what is still in service is taken
\* out of it.  If that is nothing, EndUpdate does no more.
Commit(t) ==
  /\ at[t] = "commit"
  /\ LET ret == InService \cap job[t].upd \cap job[t].what2
     IN  /\ InService' = InService \ ret
         /\ job' = [job EXCEPT ![t].ret = ret, ![t].loaded = @ \cup ret, ![t].upd = @ \ job[t].what2]
         /\ Goto(t, IF ret = {} THEN "decide" ELSE "confirm")
  /\ UNCHANGED <<version, info, Confirmed, ReqLow, ReqHigh, queue, Mtx, what, tainted>>

Confirm(t) ==
  /\ at[t] = "confirm"
  /\ Confirmed' = Confirmed \cup job[t].ret
  /\ Goto(t, "drop")
  /\ UNCHANGED <<version, info, ReqLow, ReqHigh, InService, queue, Mtx, what, job, tainted>>

Drop(t) ==
  /\ at[t] = "drop"
  /\ ReqLow' = ReqLow \ job[t].ret
  /\ ReqHigh' = ReqHigh \ job[t].ret
  /\ Goto(t, "decide")
  /\ UNCHANGED <<version, info, Confirmed, InService, queue, Mtx, what, job, tainted>>

\* What got invalidated meanwhile is left to others.
DecideMutant(t) ==
  /\ at[t] = "decide"
  /\ Goto(t, "raise")
  /\ UNCHANGED <<version, info, words, queue, Mtx, what, job, tainted>>

\* Something got invalidated meanwhile: retry.
Decide(t) ==
  /\ at[t] = "decide"
  /\ Goto(t, IF job[t].what2 \subseteq job[t].loaded THEN "raise" ELSE "begin")
  /\ UNCHANGED <<version, info, words, queue, Mtx, what, job, tainted>>

\* The InfoChange event, raised under the lock.  A client takes the loaded flags
\* for granted, WaitInfo looks whether they are confirmed.
Raise(t) ==
  /\ at[t] = "raise"
  /\ Mtx \in {t, NULL} /\ Mtx' = NULL
  /\ what' = [c \in Threads |->
       IF at[c] \in {"schedule", "write", "await"} THEN what[c] \ job[t].loaded ELSE
       IF at[c] \in {"registered", "wait"} THEN what[c] \ (job[t].loaded \cap Confirmed) ELSE what[c]]
  /\ Finish(t)
  /\ UNCHANGED <<version, info, words, queue, tainted>>

(***************************************************************************)
(* The source changes, then Invalidate is called.                          *)
(***************************************************************************)

Change(x) ==
  /\ x \in Changers /\ at[x] = "idle"
  /\ \E flags \in (SUBSET Flags) \ {{}} :
       /\ \A f \in flags : version[f] < MaxVersion
       /\ version' = [f \in Flags |-> IF f \in flags THEN version[f] + 1 ELSE version[f]]
       /\ Want(x, flags)
  /\ Goto(x, "invalidate")
  /\ UNCHANGED <<info, words, queue, Mtx, job, tainted>>

\* What is in service stays there.
InvalidateMutant(x) ==
  /\ at[x] = "invalidate"
  /\ Goto(x, "unconfirm")
  /\ UNCHANGED <<version, info, words, queue, Mtx, what, job, tainted>>

\* InfoState::Invalidate takes the flags out of service ...
Invalidate(x) ==
  /\ at[x] = "invalidate"
  /\ InService' = InService \ what[x]
  /\ Goto(x, "unconfirm")
  /\ UNCHANGED <<version, info, Confirmed, ReqLow, ReqHigh, queue, Mtx, what, job, tainted>>

\* ... and resets Confirmed.  If that changed something, an event is raised.
Unconfirm(x) ==
  /\ at[x] = "unconfirm"
  /\ Confirmed' = Confirmed \ what[x]
  /\ tainted' = tainted \cup {f \in what[x] : \E l \in Loaders : at[l] = "confirm" /\ f \in job[l].ret}
  /\ IF what[x] \cap Confirmed = {}
     THEN Goto(x, "idle") /\ Want(x, {})
     ELSE Goto(x, "report") /\ UNCHANGED what
  /\ UNCHANGED <<version, info, ReqLow, ReqHigh, InService, queue, Mtx, job>>

\* The event with the flags as Invalidated, raised under the lock.
Report(x) ==
  /\ at[x] = "report"
  /\ Mtx = NULL
  /\ Goto(x, "idle") /\ Want(x, {})
  /\ UNCHANGED <<version, info, words, queue, Mtx, job, tainted>>

(***************************************************************************)
(* Specification.                                                          *)
(***************************************************************************)

Init ==
  /\ version = [f \in Flags |-> 0] /\ info = [f \in Flags |-> 0]
  /\ Confirmed = {} /\ ReqLow = {} /\ ReqHigh = {} /\ InService = {}
  /\ AsyncRequest = {} /\ queued = [p \in Level |-> 0]
  /\ Mtx = NULL
  /\ at = [t \in Threads |-> "idle"] /\ what = [t \in Threads |-> {}]
  /\ job = [t \in Loaders |-> NoJob]
  /\ tainted = {}

Load(t) ==
  \/ ReadEntry(t) \/ HandleRequest(t) \/ GetRequest(t) \/ BeginUpdate(t)
  \/ Decode(t) \/ Extend(t) \/ Lock(t) \/ UpdateInfo(t)
  \/ Commit(t) \/ Confirm(t) \/ Drop(t) \/ Decide(t) \/ Raise(t)

Wait(a) == RequestSync(a) \/ Recheck(a) \/ Register(a) \/ LookAgain(a) \/ Waited(a)

Request(c) == RequestAsync(c) \/ Schedule(c) \/ WriteEntry(c) \/ Answered(c)

InvalidateAll(x) == Invalidate(x) \/ Unconfirm(x) \/ Report(x)

Next ==
  \/ \E t \in Askers \cup Clients : Check(t)
  \/ \E t \in Loaders : Load(t)
  \/ \E a \in Askers : Wait(a)
  \/ \E c \in Clients : Request(c)
  \/ \E x \in Changers : Change(x) \/ InvalidateAll(x)

Spec == Init /\ [][Next]_vars

\* Every thread takes a step it can take.  Nothing makes a thread request or
\* change anything.
Fairness ==
  /\ \A t \in Workers : WF_vars(Load(t))
  /\ \A a \in Askers : WF_vars(Load(a) \/ Wait(a))
  /\ \A c \in Clients : WF_vars(Request(c))
  /\ \A x \in Changers : WF_vars(InvalidateAll(x))

FairSpec == Spec /\ Fairness

(***************************************************************************)
(* Properties.                                                             *)
(***************************************************************************)

Critical == {"update", "commit", "confirm", "drop", "decide"}

\* The mutex is held where DoLoadInfo holds it.
TypeOK ==
  /\ version \in [Flags -> Version] /\ info \in [Flags -> Version]
  /\ Confirmed \subseteq Flags /\ ReqLow \subseteq Flags /\ ReqHigh \subseteq Flags
  /\ InService \subseteq Flags /\ tainted \subseteq Flags
  /\ AsyncRequest \subseteq Level /\ queued \in [Level -> Nat]
  /\ Mtx \in Loaders \cup {NULL}
  /\ what \in [Threads -> SUBSET Flags]
  /\ job \in [Loaders -> [level : Level, upd : SUBSET Flags, what2 : SUBSET Flags,
                          ret : SUBSET Flags, loaded : SUBSET Flags, data : [Flags -> Version]]]
  /\ \A t \in Loaders : at[t] \in Critical => Mtx = t
  /\ \A t \in Loaders : at[t] \in {"idle", "request", "handle", "decode", "extend", "lock"} => Mtx # t

\* A change of the source that Invalidate has not been through with.
Pending == UNION {what[x] : x \in {y \in Changers : at[y] \in {"invalidate", "unconfirm"}}}

\* What is confirmed is what the source contains, unless the flag was begun while
\* a loader was still at it, was read without being in service, or was
\* invalidated inside an EndUpdate.
FreshUnlessTainted == \A f \in Confirmed \ (Pending \cup tainted) : info[f] = version[f]

\* Somebody is going to look at the requests for f, or to drop them.
OnTheWay(f) ==
  \/ \E p \in Level : queued[p] > 0 /\ \E w \in Workers : p <= WorkerLevel(w)
  \/ \E c \in Clients : at[c] \in {"schedule", "write"}
  \/ \E t \in Loaders :
       \/ at[t] \in {"handle", "begin"}
       \/ at[t] = "obtain" /\ f \in job[t].what2
       \/ f \in job[t].upd
       \/ at[t] \in {"confirm", "drop"} /\ f \in job[t].ret
       \/ at[t] \in {"confirm", "drop", "decide"} /\ ~ job[t].what2 \subseteq job[t].loaded

\* DoLoadInfo, aplayable.h:268: what is requested is retrieved or on the way by
\* another thread.  So no request at normal priority is forgotten.  Holds for one kind:
\* of two, a flag loaded in an earlier round and invalidated in a later one is not
\* loaded again.
RequestsOnTheWay == \A f \in ReqHigh : OnTheWay(f)

\* RequestInfo, aplayable.h:164: the information is requested asynchronously, and
\* the InfoChange event comes sooner or later.
ClientsAnswered == \A c \in Clients \ LowClients : at[c] = "await" ~> at[c] = "idle"
=============================================================================
