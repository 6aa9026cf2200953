--------------------------- MODULE InfoLoadProofs ---------------------------
(***************************************************************************)
(* Proofs about InfoLoad for any kinds of information, any threads and any *)
(* number of changes of the source.                                        *)
(***************************************************************************)
EXTENDS InfoLoad, TLAPS

(***************************************************************************)
(* The inductive invariant.  For a flag that is not tainted a loader has   *)
(* the flag for itself from BeginUpdate to Commit.  As long as it is in    *)
(* service what the loader has read is up to date but for changes that are *)
(* only announced, since Invalidate takes it out of service first.  If it  *)
(* is not in service any more nobody confirms the stale data.              *)
(***************************************************************************)

JobRecord == [level : Level, upd : SUBSET Flags, what2 : SUBSET Flags, ret : SUBSET Flags,
              loaded : SUBSET Flags, data : [Flags -> Version]]

Typed ==
  /\ version \in [Flags -> Version] /\ info \in [Flags -> Version]
  /\ Confirmed \subseteq Flags /\ ReqLow \subseteq Flags /\ ReqHigh \subseteq Flags
  /\ InService \subseteq Flags /\ tainted \subseteq Flags
  /\ AsyncRequest \subseteq Level /\ queued \in [Level -> Nat]
  /\ at = [t \in Threads |-> at[t]]
  /\ what \in [Threads -> SUBSET Flags]
  /\ job \in [Loaders -> JobRecord]

MutexHeld ==
  /\ Mtx \in Loaders \cup {NULL}
  /\ \A t \in Loaders : at[t] \in Critical => Mtx = t
  /\ \A t \in Loaders : Mtx = t => at[t] \in Critical \cup {"begin", "obtain", "raise"}

HasData == {"extend", "lock", "update", "commit"}

Updaters == \A l \in Loaders :
  /\ job[l].upd # {} => at[l] \in {"decode"} \cup HasData
  /\ at[l] \in HasData => job[l].upd \subseteq job[l].what2

IsPending(f)   == \E x \in Changers : at[x] \in {"invalidate", "unconfirm"} /\ f \in what[x]
IsAnnounced(f) == \E x \in Changers : at[x] = "invalidate" /\ f \in what[x]

OneUpdater(f) == \A l, m \in Loaders : f \in job[l].upd /\ f \in job[m].upd => l = m

Writes(f) == \A l \in Loaders :
  at[l] \in {"lock", "update", "commit"} /\ f \in job[l].what2 => f \in job[l].upd

DataFresh(f) == \A l \in Loaders :
  f \in InService /\ ~ IsAnnounced(f) /\ f \in job[l].upd =>
    /\ at[l] \in HasData => job[l].data[f] = version[f]
    /\ at[l] = "commit" => info[f] = version[f]

LeftService(f) == \A l \in Loaders :
  f \in job[l].upd /\ f \notin InService /\ ~ IsPending(f) =>
    f \notin Confirmed /\ \A m \in Loaders : ~ (at[m] = "confirm" /\ f \in job[m].ret)

ToConfirm(f) == \A l \in Loaders :
  at[l] = "confirm" /\ f \in job[l].ret /\ ~ IsPending(f) => info[f] = version[f]

Fresh(f) == f \in Confirmed /\ ~ IsPending(f) => info[f] = version[f]

Good(f) == OneUpdater(f) /\ Writes(f) /\ DataFresh(f) /\ LeftService(f) /\ ToConfirm(f) /\ Fresh(f)

IInv == Typed /\ MutexHeld /\ Updaters /\ \A f \in Flags \ tainted : Good(f)

USE RolesAssumption

\* Initially nobody is at anything.
LEMMA InitIInv == Init => IInv
<1> SUFFICES ASSUME Init PROVE IInv
  OBVIOUS
<1>1. Typed
  BY DEF Init, Typed, JobRecord, NoJob, Level, Version
<1>2. MutexHeld /\ Updaters
  BY DEF Init, MutexHeld, Updaters, NoJob, HasData, Critical, Threads
<1>3. \A f \in Flags : Good(f)
  BY DEF Init, Good, OneUpdater, Writes, DataFresh, LeftService, ToConfirm, Fresh, NoJob, HasData,
     Threads
<1> QED BY <1>1, <1>2, <1>3 DEF IInv

\* The locals of a loader keep their types.
LEMMA LevelTyped ==
  ASSUME NEW j \in [Loaders -> JobRecord], NEW t \in Loaders,
         NEW p \in Level
  PROVE  [j EXCEPT ![t].level = p] \in [Loaders -> JobRecord]
  BY DEF JobRecord

LEMMA What2Typed ==
  ASSUME NEW j \in [Loaders -> JobRecord], NEW t \in Loaders,
         NEW a \in SUBSET Flags
  PROVE  [j EXCEPT ![t].what2 = a] \in [Loaders -> JobRecord]
  BY DEF JobRecord

LEMMA UpdTyped ==
  ASSUME NEW j \in [Loaders -> JobRecord], NEW t \in Loaders,
         NEW a \in SUBSET Flags
  PROVE  [j EXCEPT ![t].upd = a] \in [Loaders -> JobRecord]
  BY DEF JobRecord

LEMMA UpdWhat2Typed ==
  ASSUME NEW j \in [Loaders -> JobRecord], NEW t \in Loaders,
         NEW a \in SUBSET Flags
  PROVE  [j EXCEPT ![t].upd = a, ![t].what2 = a] \in [Loaders -> JobRecord]
  BY DEF JobRecord

LEMMA DataWhat2Typed ==
  ASSUME NEW j \in [Loaders -> JobRecord], NEW t \in Loaders,
         NEW d \in [Flags -> Version], NEW a \in SUBSET Flags
  PROVE  [j EXCEPT ![t].data = d, ![t].what2 = a] \in [Loaders -> JobRecord]
  BY DEF JobRecord

LEMMA RetTyped ==
  ASSUME NEW j \in [Loaders -> JobRecord], NEW t \in Loaders,
         NEW a \in SUBSET Flags, NEW b \in SUBSET Flags, NEW c \in SUBSET Flags
  PROVE  [j EXCEPT ![t].ret = a, ![t].loaded = b, ![t].upd = c] \in [Loaders -> JobRecord]
<1> DEFINE r == [j[t] EXCEPT !.ret = a, !.loaded = b, !.upd = c]
<1>1. r \in JobRecord
  BY DEF JobRecord
<1>2. [j EXCEPT ![t].ret = a, ![t].loaded = b, ![t].upd = c] = [j EXCEPT ![t] = r]
  OBVIOUS
<1> HIDE DEF r
<1> QED BY <1>1, <1>2

LEMMA NoJobTyped == NoJob \in JobRecord
  BY DEF NoJob, JobRecord, Level, Version

\* What a step does to at and what.
LEMMA GotoTyped ==
  ASSUME at = [u \in Threads |-> at[u]], what \in [Threads -> SUBSET Flags],
         NEW t \in Threads, NEW l, NEW w \in SUBSET Flags
  PROVE  /\ Goto(t, l) => /\ at' = [u \in Threads |-> at'[u]] /\ at'[t] = l
                          /\ \A u \in Threads : u # t => at'[u] = at[u]
         /\ Want(t, w) => /\ what' \in [Threads -> SUBSET Flags] /\ what'[t] = w
                          /\ \A u \in Threads : u # t => what'[u] = what[u]
  BY DEF Goto, Want

\* The types of what requests and events change.
LEMMA RequestTyped ==
  ASSUME Typed, NEW t \in Threads,
         \/ Check(t) \/ RequestAsync(t) \/ Schedule(t) \/ WriteEntry(t) \/ Answered(t) \/ RequestSync(t)
         \/ Recheck(t) \/ Register(t) \/ LookAgain(t) \/ Waited(t)
  PROVE  Typed'
<1>1. /\ at = [u \in Threads |-> at[u]] /\ what \in [Threads -> SUBSET Flags]
      /\ what[t] \in SUBSET Flags /\ what[t] \ Confirmed \in SUBSET Flags
      /\ ClientLevel(t) \in Level
  BY DEF Typed, ClientLevel, Level
<1>2. CASE Check(t)
  BY <1>1, <1>2, GotoTyped DEF Check, Typed, words, queue
<1>3. CASE RequestAsync(t)
  <2>1. at' = [u \in Threads |-> at'[u]]
    BY <1>1, <1>3, GotoTyped DEF RequestAsync
  <2>2. ReqLow' \subseteq Flags /\ ReqHigh' \subseteq Flags
    BY <1>1, <1>3 DEF RequestAsync, Place, Typed
  <2> QED BY <1>3, <2>1, <2>2 DEF RequestAsync, Typed, queue
<1>4. CASE Schedule(t)
  <2>1. at' = [u \in Threads |-> at'[u]]
    BY <1>1, <1>4, GotoTyped DEF Schedule
  <2> QED BY <1>1, <1>4, <2>1 DEF Schedule, Typed, words
<1>5. CASE WriteEntry(t)
  <2>1. at' = [u \in Threads |-> at'[u]]
    BY <1>1, <1>5, GotoTyped DEF WriteEntry
  <2> QED BY <1>1, <1>5, <2>1 DEF WriteEntry, Typed, words
<1>6. CASE Answered(t)
  BY <1>1, <1>6, GotoTyped DEF Answered, Typed, words, queue
<1>7. CASE RequestSync(t)
  <2>1. at' = [u \in Threads |-> at'[u]]
    BY <1>1, <1>7, GotoTyped DEF RequestSync
  <2>2. ReqLow' \subseteq Flags /\ ReqHigh' \subseteq Flags
    BY <1>1, <1>7 DEF RequestSync, Place, Typed
  <2> QED BY <1>7, <2>1, <2>2 DEF RequestSync, Typed, queue
<1>8. CASE Recheck(t) \/ LookAgain(t)
  BY <1>1, <1>8, GotoTyped DEF Recheck, LookAgain, Typed, words, queue
<1>9. CASE Register(t) \/ Waited(t)
  BY <1>1, <1>9, GotoTyped DEF Register, Waited, Typed, words, queue
<1> QED BY <1>2, <1>3, <1>4, <1>5, <1>6, <1>7, <1>8, <1>9

\* The types of what Invalidate and its callers change.
LEMMA InvalidateTyped ==
  ASSUME Typed, NEW x \in Changers, Change(x) \/ InvalidateAll(x)
  PROVE  Typed'
<1>1. /\ at = [u \in Threads |-> at[u]] /\ what \in [Threads -> SUBSET Flags]
      /\ x \in Threads /\ what[x] \in SUBSET Flags /\ {} \in SUBSET Flags
  BY DEF Typed, Threads
<1>2. CASE Change(x)
  <2>1. at' = [u \in Threads |-> at'[u]] /\ what' \in [Threads -> SUBSET Flags]
    BY <1>1, <1>2, GotoTyped DEF Change
  <2>2. version' \in [Flags -> Version]
    <3>1. PICK flags \in SUBSET Flags :
            /\ \A f \in flags : version[f] < MaxVersion
            /\ version' = [f \in Flags |-> IF f \in flags THEN version[f] + 1 ELSE version[f]]
      BY <1>2 DEF Change
    <3>2. \A f \in Flags : version[f] \in 0 .. MaxVersion
      BY DEF Typed, Version
    <3>3. \A f \in Flags : (IF f \in flags THEN version[f] + 1 ELSE version[f]) \in 0 .. MaxVersion
      BY <3>1, <3>2
    <3> QED BY <3>1, <3>3 DEF Version
  <2> QED BY <1>2, <2>1, <2>2 DEF Change, Typed, words, queue
<1>3. CASE Invalidate(x)
  <2>1. at' = [u \in Threads |-> at'[u]]
    BY <1>1, <1>3, GotoTyped DEF Invalidate
  <2> QED BY <1>3, <2>1 DEF Invalidate, Typed, queue
<1>4. CASE Unconfirm(x)
  <2>1. at' = [u \in Threads |-> at'[u]] /\ what' \in [Threads -> SUBSET Flags]
    BY <1>1, <1>4, GotoTyped DEF Unconfirm
  <2>2. tainted' \subseteq Flags
    BY <1>1, <1>4 DEF Unconfirm, Typed
  <2> QED BY <1>4, <2>1, <2>2 DEF Unconfirm, Typed, queue
<1>5. CASE Report(x)
  BY <1>1, <1>5, GotoTyped DEF Report, Typed, words, queue
<1> QED BY <1>2, <1>3, <1>4, <1>5 DEF InvalidateAll

\* The types of what loaders change.
LEMMA LoadTyped ==
  ASSUME Typed, NEW t \in Loaders, Load(t)
  PROVE  Typed'
<1>1. /\ at = [u \in Threads |-> at[u]] /\ what \in [Threads -> SUBSET Flags]
      /\ t \in Threads /\ job \in [Loaders -> JobRecord]
  BY DEF Typed, Threads
<1>2. /\ job[t] \in JobRecord /\ job[t].level \in Level /\ job[t].upd \subseteq Flags /\ job[t].what2 \subseteq Flags
      /\ job[t].ret \subseteq Flags /\ job[t].loaded \subseteq Flags /\ job[t].data \in [Flags -> Version]
  BY <1>1 DEF JobRecord
<1>3. CASE ReadEntry(t)
  <2>1. at' = [u \in Threads |-> at'[u]]
    BY <1>1, <1>3, GotoTyped DEF ReadEntry
  <2>2. PICK p \in 0 .. WorkerLevel(t) :
          queued[p] > 0 /\ queued' = [queued EXCEPT ![p] = @ - 1] /\ job' = [job EXCEPT ![t].level = p]
    BY <1>3 DEF ReadEntry
  <2>3. p \in Level
    BY <2>2 DEF WorkerLevel, Level
  <2>4. job' \in [Loaders -> JobRecord]
    BY <1>1, <2>2, <2>3, LevelTyped
  <2>5. queued' \in [Level -> Nat]
    BY <2>2, <2>3 DEF Typed
  <2> QED BY <1>3, <2>1, <2>4, <2>5 DEF ReadEntry, Typed, words
<1>4. CASE HandleRequest(t)
  <2>1. at' = [u \in Threads |-> at'[u]]
    BY <1>1, <1>4, GotoTyped DEF HandleRequest
  <2> QED BY <1>4, <2>1 DEF HandleRequest, Typed, words
<1>5. CASE GetRequest(t)
  <2>1. at' = [u \in Threads |-> at'[u]]
    BY <1>1, <1>5, GotoTyped DEF GetRequest
  <2>2. Requested(job[t].level) \in SUBSET Flags
    BY DEF Typed, Requested
  <2>3. job' \in [Loaders -> JobRecord]
    BY <1>1, <1>5, <2>2, What2Typed DEF GetRequest
  <2> QED BY <1>5, <2>1, <2>3 DEF GetRequest, Typed, words, queue
<1>6. CASE BeginUpdate(t)
  <2> DEFINE got == job[t].what2 \ InService
  <2>1. got \in SUBSET Flags
    BY <1>2
  <2>2. at' = [u \in Threads |-> at'[u]]
    BY <1>1, <1>6, GotoTyped DEF BeginUpdate, Finish
  <2>3. job' \in [Loaders -> JobRecord]
    <3>1. job' \in {[job EXCEPT ![t] = NoJob], [job EXCEPT ![t].upd = got, ![t].what2 = got]}
      BY <1>6 DEF BeginUpdate, Finish
    <3> HIDE DEF got
    <3> QED BY <1>1, <2>1, <3>1, UpdWhat2Typed, NoJobTyped
  <2>4. InService' \subseteq Flags /\ tainted' \subseteq Flags
    BY <1>6, <2>1 DEF BeginUpdate, Obtain, Typed
  <2> QED BY <1>6, <2>2, <2>3, <2>4 DEF BeginUpdate, Typed, queue
<1>7. CASE Decode(t)
  <2>1. at' = [u \in Threads |-> at'[u]]
    BY <1>1, <1>7, GotoTyped DEF Decode
  <2>2. PICK flags \in SUBSET Flags :
          job' = [job EXCEPT ![t].data = version, ![t].what2 = job[t].upd \cup flags]
    BY <1>7 DEF Decode
  <2>3. job[t].upd \cup flags \in SUBSET Flags /\ version \in [Flags -> Version]
    BY <1>2 DEF Typed
  <2>4. job' \in [Loaders -> JobRecord]
    BY <1>1, <2>2, <2>3, DataWhat2Typed
  <2> QED BY <1>7, <2>1, <2>4 DEF Decode, Typed, words, queue
<1>8. CASE Extend(t)
  <2>1. at' = [u \in Threads |-> at'[u]]
    BY <1>1, <1>8, GotoTyped DEF Extend
  <2>2. job' = [job EXCEPT ![t].upd = job[t].upd \cup (job[t].what2 \ InService)]
    BY <1>1, <1>8 DEF Extend
  <2>3. job[t].upd \cup (job[t].what2 \ InService) \in SUBSET Flags
    BY <1>2
  <2>4. job' \in [Loaders -> JobRecord]
    BY <1>1, <2>2, <2>3, UpdTyped
  <2>5. InService' \subseteq Flags /\ tainted' \subseteq Flags
    BY <1>2, <1>8 DEF Extend, Obtain, Typed
  <2> QED BY <1>8, <2>1, <2>4, <2>5 DEF Extend, Typed, queue
<1>9. CASE Lock(t) \/ Decide(t)
  BY <1>1, <1>9, GotoTyped DEF Lock, Decide, Typed, words, queue
<1>10. CASE UpdateInfo(t)
  <2>1. at' = [u \in Threads |-> at'[u]]
    BY <1>1, <1>10, GotoTyped DEF UpdateInfo
  <2>2. info' \in [Flags -> Version]
    BY <1>2, <1>10 DEF UpdateInfo, Typed
  <2> QED BY <1>10, <2>1, <2>2 DEF UpdateInfo, Typed, words, queue
<1>11. CASE Commit(t)
  <2> DEFINE ret == InService \cap job[t].upd \cap job[t].what2
  <2>1. at' = [u \in Threads |-> at'[u]]
    BY <1>1, <1>11, GotoTyped DEF Commit
  <2>2. job' = [job EXCEPT ![t].ret = ret, ![t].loaded = job[t].loaded \cup ret, ![t].upd = job[t].upd \ job[t].what2]
    BY <1>1, <1>11 DEF Commit
  <2>3. ret \in SUBSET Flags /\ job[t].loaded \cup ret \in SUBSET Flags /\ job[t].upd \ job[t].what2 \in SUBSET Flags
    BY <1>2
  <2>4. job' \in [Loaders -> JobRecord]
    <3> HIDE DEF ret
    <3> QED BY <1>1, <2>2, <2>3, RetTyped
  <2>5. InService' \subseteq Flags
    BY <1>11 DEF Commit, Typed
  <2> QED BY <1>11, <2>1, <2>4, <2>5 DEF Commit, Typed, queue
<1>12. CASE Confirm(t)
  <2>1. at' = [u \in Threads |-> at'[u]]
    BY <1>1, <1>12, GotoTyped DEF Confirm
  <2> QED BY <1>2, <1>12, <2>1 DEF Confirm, Typed, queue
<1>13. CASE Drop(t)
  <2>1. at' = [u \in Threads |-> at'[u]]
    BY <1>1, <1>13, GotoTyped DEF Drop
  <2> QED BY <1>13, <2>1 DEF Drop, Typed, queue
<1>14. CASE Raise(t)
  <2>1. at' = [u \in Threads |-> at'[u]]
    BY <1>1, <1>14, GotoTyped DEF Raise, Finish
  <2>2. what' \in [Threads -> SUBSET Flags]
    BY <1>1, <1>14 DEF Raise
  <2>3. job' \in [Loaders -> JobRecord]
    BY <1>1, <1>14, NoJobTyped DEF Raise, Finish
  <2> QED BY <1>14, <2>1, <2>2, <2>3 DEF Raise, Typed, words, queue
<1> QED BY <1>3, <1>4, <1>5, <1>6, <1>7, <1>8, <1>9, <1>10, <1>11, <1>12, <1>13, <1>14 DEF Load

\* No step of any thread breaks the types.
LEMMA TypedKeeps == Typed /\ [Next]_vars => Typed'
<1>1. CASE UNCHANGED vars
  BY <1>1 DEF vars, words, queue, Typed
<1>2. \A t \in Clients : t \in Threads
  BY DEF Threads
<1>3. \A t \in Loaders : t \in Threads
  BY DEF Threads
<1>4. \A t \in Askers : t \in Threads
  BY DEF Threads, Loaders
<1> QED BY <1>1, <1>2, <1>3, <1>4, RequestTyped, InvalidateTyped, LoadTyped DEF Next, Wait, Request

\* A step of thread t by which it keeps, takes or leaves the mutex as its labels say.
LEMMA MutexMove ==
  ASSUME Typed, MutexHeld, NEW t \in Threads, NEW l, Goto(t, l),
         \/ /\ Mtx' = Mtx
            /\ \/ l \in {"begin", "obtain"}
               \/ l \notin Critical /\ at[t] \notin Critical \cup {"begin", "obtain", "raise"}
               \/ at[t] \in Critical /\ l \in Critical \cup {"begin", "raise"}
         \/ t \in Loaders /\ Mtx = NULL /\ Mtx' = t /\ l \in Critical
         \/ t \in Loaders /\ l \notin Critical /\ Mtx' = IF Mtx = t THEN NULL ELSE Mtx
  PROVE  MutexHeld'
<1>1. at'[t] = l /\ \A u \in Threads : u # t => at'[u] = at[u]
  BY DEF Typed, Goto
<1>2. \A u \in Loaders : u \in Threads /\ u # NULL
  BY DEF Threads
<1> QED BY <1>1, <1>2 DEF MutexHeld, Critical

\* The mutex is held where DoLoadInfo holds it.
LEMMA MutexKeeps == Typed /\ MutexHeld /\ [Next]_vars => MutexHeld'
<1> SUFFICES ASSUME Typed, MutexHeld, [Next]_vars PROVE MutexHeld'
  OBVIOUS
<1>1. ASSUME NEW t \in Threads,
             \/ Check(t) \/ RequestAsync(t) \/ Schedule(t) \/ WriteEntry(t) \/ Answered(t)
             \/ RequestSync(t) \/ Recheck(t) \/ Register(t) \/ LookAgain(t) \/ Waited(t)
      PROVE  MutexHeld'
  <2>1. /\ Mtx' = Mtx
        /\ at[t] \notin Critical \cup {"begin", "obtain", "raise"}
        /\ \E l \in {"request", "await", "schedule", "write", "idle", "handle", "register",
                     "registered", "wait"} : Goto(t, l)
    BY <1>1 DEF Check, RequestAsync, Schedule, WriteEntry, Answered, RequestSync, Recheck,
       Register, LookAgain, Waited, Critical
  <2>2. PICK l : Goto(t, l) /\ l \notin Critical
    BY <2>1 DEF Critical
  <2> QED BY <2>1, <2>2, MutexMove
<1>2. ASSUME NEW t \in Changers, Change(t) \/ InvalidateAll(t) PROVE MutexHeld'
  <2>1. /\ Mtx' = Mtx
        /\ at[t] \notin Critical \cup {"begin", "obtain", "raise"}
        /\ \E l \in {"invalidate", "unconfirm", "report", "idle"} : Goto(t, l)
    BY <1>2 DEF Change, InvalidateAll, Invalidate, Unconfirm, Report, Critical
  <2>2. PICK l : Goto(t, l) /\ l \notin Critical
    BY <2>1 DEF Critical
  <2>3. t \in Threads
    BY DEF Threads
  <2> QED BY <2>1, <2>2, <2>3, MutexMove
<1>3. ASSUME NEW t \in Loaders,
             ReadEntry(t) \/ HandleRequest(t) \/ GetRequest(t) \/ Decode(t) \/ Extend(t)
      PROVE  MutexHeld'
  <2>1. CASE ReadEntry(t) \/ Decode(t) \/ Extend(t)
    <3>1. /\ Mtx' = Mtx
          /\ at[t] \notin Critical \cup {"begin", "obtain", "raise"}
          /\ \E l \in {"handle", "extend", "lock"} : Goto(t, l)
      BY <2>1 DEF ReadEntry, Decode, Extend, Critical
    <3>2. PICK l : Goto(t, l) /\ l \notin Critical
      BY <3>1 DEF Critical
    <3> QED BY <3>1, <3>2, MutexMove DEF Threads
  <2>2. CASE HandleRequest(t) \/ GetRequest(t)
    BY <2>2, MutexMove DEF HandleRequest, GetRequest, Threads
  <2> QED BY <1>3, <2>1, <2>2
<1>4. ASSUME NEW t \in Loaders,
             UpdateInfo(t) \/ Commit(t) \/ Confirm(t) \/ Drop(t) \/ Decide(t)
      PROVE  MutexHeld'
  <2>1. /\ Mtx' = Mtx /\ at[t] \in Critical
        /\ \E l \in Critical \cup {"begin", "raise"} : Goto(t, l)
    BY <1>4 DEF UpdateInfo, Commit, Confirm, Drop, Decide, Critical
  <2> QED BY <2>1, MutexMove DEF Threads
<1>5. ASSUME NEW t \in Loaders, Lock(t) PROVE MutexHeld'
  BY <1>5, MutexMove DEF Lock, Critical, Threads
<1>6. ASSUME NEW t \in Loaders, BeginUpdate(t) \/ Raise(t) PROVE MutexHeld'
  <2>1. /\ Mtx' = IF Mtx = t THEN NULL ELSE Mtx
        /\ \E l \in {"idle", "recheck", "raise", "decode"} : Goto(t, l)
    BY <1>6 DEF BeginUpdate, Raise, Finish
  <2>2. PICK l : Goto(t, l) /\ l \notin Critical
    BY <2>1 DEF Critical
  <2> QED BY <2>1, <2>2, MutexMove DEF Threads
<1>7. CASE UNCHANGED vars
  BY <1>7 DEF vars, MutexHeld
<1>8. \A t \in Clients \cup Askers \cup Loaders : t \in Threads
  BY DEF Threads, Loaders
<1> QED BY <1>1, <1>2, <1>3, <1>4, <1>5, <1>6, <1>7, <1>8 DEF Next, Load, Wait, Request

\* Steps of threads that are at no update, before and after, and at no Invalidate.
LEMMA Elsewhere ==
  ASSUME Typed, Updaters, NEW t \in Threads, NEW l, Goto(t, l),
         at[t] \notin {"decode", "invalidate", "unconfirm"} \cup HasData,
         l \notin {"decode", "confirm", "invalidate", "unconfirm"} \cup HasData,
         UNCHANGED <<version, info, InService, Confirmed>>,
         \A u \in Loaders : u # t => job'[u] = job[u],
         t \in Loaders => job'[t].upd = {},
         \A u \in Threads : at[u] \in {"invalidate", "unconfirm"} => what'[u] = what[u]
  PROVE  Updaters' /\ \A f \in Flags : Good(f) => Good(f)'
<1>1. /\ at'[t] = l /\ \A u \in Threads : u # t => at'[u] = at[u]
      /\ \A u \in Loaders : u \in Threads
      /\ \A u \in Changers : u \in Threads
  BY DEF Typed, Goto, Threads
<1>2. Updaters'
  BY <1>1 DEF Updaters, HasData
<1>3. \A f : (IsPending(f)' <=> IsPending(f)) /\ (IsAnnounced(f)' <=> IsAnnounced(f))
  BY <1>1 DEF IsPending, IsAnnounced
<1>4. ASSUME NEW f \in Flags, Good(f) PROVE Good(f)'
  <2>1. OneUpdater(f)' /\ Writes(f)'
    BY <1>1, <1>4 DEF Good, OneUpdater, Writes, HasData
  <2>2. DataFresh(f)'
    BY <1>1, <1>3, <1>4 DEF Good, DataFresh, HasData
  <2>3. LeftService(f)'
    BY <1>1, <1>3, <1>4 DEF Good, LeftService
  <2>4. ToConfirm(f)' /\ Fresh(f)'
    BY <1>1, <1>3, <1>4 DEF Good, ToConfirm, Fresh
  <2> QED BY <2>1, <2>2, <2>3, <2>4 DEF Good
<1> QED BY <1>2, <1>4

\* What a step of a loader leaves alone.
LEMMA LoaderMove ==
  ASSUME Typed, NEW t \in Loaders, NEW l, Goto(t, l),
         at[t] \notin {"invalidate", "unconfirm"}, l \notin {"invalidate", "unconfirm"},
         what' = what
  PROVE  /\ at'[t] = l
         /\ \A u \in Loaders : u # t => at'[u] = at[u]
         /\ \A f : (IsPending(f)' <=> IsPending(f)) /\ (IsAnnounced(f)' <=> IsAnnounced(f))
<1>1. at'[t] = l /\ \A u \in Threads : u # t => at'[u] = at[u]
  BY DEF Typed, Goto, Threads
<1>2. Loaders \subseteq Threads /\ Changers \subseteq Threads
  BY DEF Threads
<1> QED BY <1>1, <1>2 DEF IsPending, IsAnnounced

\* BeginUpdate: a flag that another loader is at becomes tainted.
LEMMA BeginFresh ==
  ASSUME Typed, Updaters, NEW t \in Loaders, BeginUpdate(t),
         ~ (job[t].what2 \subseteq InService)
  PROVE  Updaters' /\ \A f \in Flags \ tainted' : f \notin tainted /\ (Good(f) => Good(f)')
<1> DEFINE got == job[t].what2 \ InService
<1>1. /\ at[t] = "obtain" /\ Goto(t, "decode") /\ what' = what
      /\ job' = [job EXCEPT ![t].upd = got, ![t].what2 = got]
      /\ UNCHANGED <<version, info, Confirmed>>
      /\ InService' = InService \cup got
      /\ tainted' = tainted \cup {f \in got : \E u \in Loaders : f \in job[u].upd}
  BY DEF BeginUpdate, Obtain
<1>2. /\ job'[t].upd = got /\ job'[t].what2 = got
      /\ \A u \in Loaders : u # t => job'[u] = job[u]
      /\ job'[t].ret = job[t].ret
  BY <1>1 DEF Typed, JobRecord
<1>3. /\ at'[t] = "decode" /\ \A u \in Loaders : u # t => at'[u] = at[u]
      /\ \A f : (IsPending(f)' <=> IsPending(f)) /\ (IsAnnounced(f)' <=> IsAnnounced(f))
  BY <1>1, LoaderMove
<1>4. Updaters'
  BY <1>2, <1>3 DEF Updaters, HasData
<1>5. ASSUME NEW f \in Flags \ tainted', Good(f) PROVE Good(f)'
  <2>1. f \in got => \A u \in Loaders : f \notin job[u].upd
    BY <1>1, <1>5
  <2>2. f \in InService' <=> f \in InService \/ f \in got
    BY <1>1
  <2> HIDE DEF got
  <2>3. OneUpdater(f)' /\ Writes(f)'
    BY <1>2, <1>3, <1>5, <2>1 DEF Good, OneUpdater, Writes
  <2>4. DataFresh(f)'
    BY <1>1, <1>2, <1>3, <1>5, <2>1, <2>2 DEF Good, DataFresh, HasData
  <2>5. LeftService(f)'
    BY <1>1, <1>2, <1>3, <1>5, <2>1, <2>2 DEF Good, LeftService
  <2>6. ToConfirm(f)' /\ Fresh(f)'
    BY <1>1, <1>2, <1>3, <1>5 DEF Good, ToConfirm, Fresh
  <2> QED BY <2>3, <2>4, <2>5, <2>6 DEF Good
<1> QED BY <1>1, <1>4, <1>5

\* Decode: the data is up to date at the moment it is read.
LEMMA DecodeFresh ==
  ASSUME Typed, Updaters, NEW t \in Loaders, Decode(t)
  PROVE  Updaters' /\ \A f \in Flags : Good(f) => Good(f)'
<1>1. PICK flags \in SUBSET Flags :
        job' = [job EXCEPT ![t].data = version, ![t].what2 = job[t].upd \cup flags]
  BY DEF Decode
<1>2. /\ at[t] = "decode" /\ Goto(t, "extend")
      /\ UNCHANGED <<version, info, Confirmed, InService, what, tainted>>
  BY DEF Decode, words
<1>3. /\ job'[t].upd = job[t].upd /\ job'[t].what2 = job[t].upd \cup flags
      /\ job'[t].data = version /\ job'[t].ret = job[t].ret
      /\ \A u \in Loaders : u # t => job'[u] = job[u]
  BY <1>1 DEF Typed, JobRecord
<1>4. /\ at'[t] = "extend" /\ \A u \in Loaders : u # t => at'[u] = at[u]
      /\ \A f : (IsPending(f)' <=> IsPending(f)) /\ (IsAnnounced(f)' <=> IsAnnounced(f))
  BY <1>2, LoaderMove
<1>5. Updaters'
  BY <1>3, <1>4 DEF Updaters, HasData
<1>6. ASSUME NEW f \in Flags, Good(f) PROVE Good(f)'
  <2>1. OneUpdater(f)' /\ Writes(f)'
    BY <1>3, <1>4, <1>6 DEF Good, OneUpdater, Writes
  <2>2. DataFresh(f)'
    BY <1>2, <1>3, <1>4, <1>6 DEF Good, DataFresh, HasData
  <2>3. LeftService(f)'
    BY <1>2, <1>3, <1>4, <1>6 DEF Good, LeftService
  <2>4. ToConfirm(f)' /\ Fresh(f)'
    BY <1>2, <1>3, <1>4, <1>6 DEF Good, ToConfirm, Fresh
  <2> QED BY <2>1, <2>2, <2>3, <2>4 DEF Good
<1> QED BY <1>5, <1>6

\* Extend: what the decoder returned without being in service becomes tainted.
LEMMA ExtendFresh ==
  ASSUME Typed, Updaters, NEW t \in Loaders, Extend(t)
  PROVE  Updaters' /\ \A f \in Flags \ tainted' : f \notin tainted /\ (Good(f) => Good(f)')
<1> DEFINE got == job[t].what2 \ InService
<1>1. /\ at[t] = "extend" /\ Goto(t, "lock") /\ what' = what
      /\ UNCHANGED <<version, info, Confirmed>>
      /\ InService' = InService \cup got
      /\ tainted \subseteq tainted' /\ job[t].what2 \ (job[t].upd \cap InService) \subseteq tainted'
  BY DEF Extend, Obtain
<1>2. job' = [job EXCEPT ![t].upd = job[t].upd \cup got]
  BY DEF Extend, Typed
<1>3. /\ job'[t].upd = job[t].upd \cup got /\ job'[t].what2 = job[t].what2
      /\ job'[t].data = job[t].data /\ job'[t].ret = job[t].ret
      /\ \A u \in Loaders : u # t => job'[u] = job[u]
  BY <1>2 DEF Typed, JobRecord
<1>4. /\ at'[t] = "lock" /\ \A u \in Loaders : u # t => at'[u] = at[u]
      /\ \A f : (IsPending(f)' <=> IsPending(f)) /\ (IsAnnounced(f)' <=> IsAnnounced(f))
  BY <1>1, LoaderMove
<1>5. Updaters'
  BY <1>1, <1>3, <1>4 DEF Updaters, HasData
<1>6. ASSUME NEW f \in Flags \ tainted', Good(f) PROVE Good(f)'
  <2>1. f \in job[t].what2 => f \in job[t].upd /\ f \in InService
    BY <1>1
  <2>2. /\ f \in InService' <=> f \in InService
        /\ \A u \in Loaders : f \in job'[u].upd <=> f \in job[u].upd
        /\ \A u \in Loaders : /\ job'[u].what2 = job[u].what2
                              /\ job'[u].data = job[u].data /\ job'[u].ret = job[u].ret
    BY <1>1, <1>3, <2>1
  <2> HIDE DEF got
  <2>3. OneUpdater(f)' /\ Writes(f)'
    BY <1>4, <1>6, <2>1, <2>2 DEF Good, OneUpdater, Writes
  <2>4. DataFresh(f)'
    BY <1>1, <1>4, <1>6, <2>2 DEF Good, DataFresh, HasData
  <2>5. LeftService(f)'
    BY <1>1, <1>4, <1>6, <2>2 DEF Good, LeftService
  <2>6. ToConfirm(f)' /\ Fresh(f)'
    BY <1>1, <1>4, <1>6, <2>2 DEF Good, ToConfirm, Fresh
  <2> QED BY <2>3, <2>4, <2>5, <2>6 DEF Good
<1> QED BY <1>1, <1>5, <1>6

\* Lock gets the mutex.
LEMMA LockFresh ==
  ASSUME Typed, Updaters, NEW t \in Loaders, Lock(t)
  PROVE  Updaters' /\ \A f \in Flags : Good(f) => Good(f)'
<1>1. /\ at[t] = "lock" /\ Goto(t, "update")
      /\ UNCHANGED <<version, info, Confirmed, InService, what, job>>
  BY DEF Lock, words
<1>2. /\ at'[t] = "update" /\ \A u \in Loaders : u # t => at'[u] = at[u]
      /\ \A f : (IsPending(f)' <=> IsPending(f)) /\ (IsAnnounced(f)' <=> IsAnnounced(f))
  BY <1>1, LoaderMove
<1>3. Updaters'
  BY <1>1, <1>2 DEF Updaters, HasData
<1>4. ASSUME NEW f \in Flags, Good(f) PROVE Good(f)'
  BY <1>1, <1>2, <1>4 DEF Good, OneUpdater, Writes, DataFresh, LeftService, ToConfirm, Fresh, HasData
<1> QED BY <1>3, <1>4

\* UpdateInfo writes what is up to date, or what is not confirmed.
LEMMA UpdateInfoFresh ==
  ASSUME Typed, MutexHeld, Updaters, NEW t \in Loaders, UpdateInfo(t)
  PROVE  Updaters' /\ \A f \in Flags : Good(f) => Good(f)'
<1>1. /\ at[t] = "update" /\ Goto(t, "commit")
      /\ UNCHANGED <<version, Confirmed, InService, what, job>>
      /\ info' = [f \in Flags |-> IF f \in job[t].what2 THEN job[t].data[f] ELSE info[f]]
  BY DEF UpdateInfo, words
<1>2. /\ at'[t] = "commit" /\ \A u \in Loaders : u # t => at'[u] = at[u]
      /\ \A f : (IsPending(f)' <=> IsPending(f)) /\ (IsAnnounced(f)' <=> IsAnnounced(f))
  BY <1>1, LoaderMove
<1>3. \A u \in Loaders : u # t => at[u] \notin Critical
  BY <1>1 DEF MutexHeld, Critical
<1>4. Updaters'
  BY <1>1, <1>2 DEF Updaters, HasData
<1>5. ASSUME NEW f \in Flags, Good(f) PROVE Good(f)'
  <2>1. info'[f] = IF f \in job[t].what2 THEN job[t].data[f] ELSE info[f]
    BY <1>1
  <2>2. IsAnnounced(f) => IsPending(f)
    BY DEF IsAnnounced, IsPending
  <2>3. f \in job[t].upd <=> f \in job[t].what2
    BY <1>1, <1>5 DEF Good, Writes, Updaters, HasData
  <2>4. OneUpdater(f)' /\ Writes(f)'
    BY <1>1, <1>2, <1>5 DEF Good, OneUpdater, Writes
  <2>5. DataFresh(f)'
    BY <1>1, <1>2, <1>3, <1>5, <2>1, <2>3 DEF Good, DataFresh, HasData, Critical
  <2>6. LeftService(f)'
    BY <1>1, <1>2, <1>5 DEF Good, LeftService
  <2>7. ToConfirm(f)'
    BY <1>1, <1>2, <1>3, <1>5 DEF Good, ToConfirm, Critical
  <2>8. Fresh(f)'
    BY <1>1, <1>2, <1>5, <2>1, <2>2, <2>3 DEF Good, Fresh, DataFresh, LeftService, HasData
  <2> QED BY <2>4, <2>5, <2>6, <2>7, <2>8 DEF Good
<1> QED BY <1>4, <1>5

\* Commit: what still was in service is up to date.
LEMMA CommitFresh ==
  ASSUME Typed, Updaters, NEW t \in Loaders, Commit(t)
  PROVE  Updaters' /\ \A f \in Flags : Good(f) => Good(f)'
<1> DEFINE ret == InService \cap job[t].upd \cap job[t].what2
<1>1. /\ at[t] = "commit" /\ InService' = InService \ ret
      /\ UNCHANGED <<version, info, Confirmed, what>>
      /\ \E l \in {"decide", "confirm"} : Goto(t, l)
  BY DEF Commit
<1>2. PICK l \in {"decide", "confirm"} : Goto(t, l)
  BY <1>1
<1>3. job' = [job EXCEPT ![t].ret = ret, ![t].loaded = job[t].loaded \cup ret, ![t].upd = job[t].upd \ job[t].what2]
  BY DEF Commit, Typed
<1>4. /\ job'[t].upd = job[t].upd \ job[t].what2 /\ job'[t].ret = ret
      /\ \A u \in Loaders : u # t => job'[u] = job[u]
  BY <1>3 DEF Typed, JobRecord
<1>5. /\ at'[t] = l /\ \A u \in Loaders : u # t => at'[u] = at[u]
      /\ \A f : (IsPending(f)' <=> IsPending(f)) /\ (IsAnnounced(f)' <=> IsAnnounced(f))
  BY <1>1, <1>2, LoaderMove
<1>6. job'[t].upd = {}
  BY <1>1, <1>4 DEF Updaters, HasData
<1>7. Updaters'
  BY <1>2, <1>4, <1>5, <1>6 DEF Updaters, HasData
<1>8. ASSUME NEW f \in Flags, Good(f) PROVE Good(f)'
  <2>1. f \in ret => f \in InService /\ f \in job[t].upd /\ f \in job[t].what2
    OBVIOUS
  <2>2. f \in InService' <=> f \in InService /\ f \notin ret
    BY <1>1
  <2>3. IsAnnounced(f) => IsPending(f)
    BY DEF IsAnnounced, IsPending
  <2> HIDE DEF ret
  <2>4. OneUpdater(f)' /\ Writes(f)'
    BY <1>2, <1>4, <1>5, <1>6, <1>8 DEF Good, OneUpdater, Writes
  <2>5. DataFresh(f)'
    BY <1>1, <1>2, <1>4, <1>5, <1>6, <1>8, <2>2 DEF Good, DataFresh, HasData
  <2>6. LeftService(f)'
    <3>1. \A u \in Loaders : f \in job'[u].upd => u # t /\ f \in job[u].upd
      BY <1>4, <1>6
    <3>2. \A u \in Loaders : f \in job'[u].upd => f \notin ret
      BY <1>8, <2>1, <3>1 DEF Good, OneUpdater
    <3> QED BY <1>1, <1>4, <1>5, <1>8, <2>2, <3>1, <3>2 DEF Good, LeftService
  <2>7. ToConfirm(f)'
    BY <1>1, <1>4, <1>5, <1>8, <2>1, <2>3 DEF Good, ToConfirm, DataFresh
  <2>8. Fresh(f)'
    BY <1>1, <1>5, <1>8 DEF Good, Fresh
  <2> QED BY <2>4, <2>5, <2>6, <2>7, <2>8 DEF Good
<1> QED BY <1>7, <1>8

\* Confirm makes it visible.
LEMMA ConfirmFresh ==
  ASSUME Typed, Updaters, NEW t \in Loaders, Confirm(t)
  PROVE  Updaters' /\ \A f \in Flags : Good(f) => Good(f)'
<1>1. /\ at[t] = "confirm" /\ Goto(t, "drop")
      /\ UNCHANGED <<version, info, InService, what, job>>
      /\ Confirmed' = Confirmed \cup job[t].ret
  BY DEF Confirm
<1>2. /\ at'[t] = "drop" /\ \A u \in Loaders : u # t => at'[u] = at[u]
      /\ \A f : (IsPending(f)' <=> IsPending(f)) /\ (IsAnnounced(f)' <=> IsAnnounced(f))
  BY <1>1, LoaderMove
<1>3. Updaters'
  BY <1>1, <1>2 DEF Updaters, HasData
<1>4. ASSUME NEW f \in Flags, Good(f) PROVE Good(f)'
  <2>1. OneUpdater(f)' /\ Writes(f)' /\ DataFresh(f)'
    BY <1>1, <1>2, <1>4 DEF Good, OneUpdater, Writes, DataFresh, HasData
  <2>2. LeftService(f)'
    BY <1>1, <1>2, <1>4 DEF Good, LeftService
  <2>3. ToConfirm(f)' /\ Fresh(f)'
    BY <1>1, <1>2, <1>4 DEF Good, ToConfirm, Fresh
  <2> QED BY <2>1, <2>2, <2>3 DEF Good
<1> QED BY <1>3, <1>4

\* A change of the source is announced until Invalidate takes the flags out of service.
LEMMA ChangeFresh ==
  ASSUME Typed, Updaters, NEW x \in Changers, Change(x)
  PROVE  Updaters' /\ \A f \in Flags : Good(f) => Good(f)'
<1>1. PICK flags \in SUBSET Flags :
        /\ version' = [f \in Flags |-> IF f \in flags THEN version[f] + 1 ELSE version[f]]
        /\ Want(x, flags)
  BY DEF Change
<1>2. /\ at[x] = "idle" /\ Goto(x, "invalidate")
      /\ UNCHANGED <<info, Confirmed, InService, job>>
  BY DEF Change, words
<1>3. /\ at'[x] = "invalidate" /\ \A u \in Threads : u # x => at'[u] = at[u]
      /\ what'[x] = flags /\ \A u \in Threads : u # x => what'[u] = what[u]
      /\ \A u \in Loaders : u \in Threads
      /\ \A u \in Changers : u \in Threads
  BY <1>1, <1>2, GotoTyped DEF Typed, Threads
<1>4. Updaters'
  BY <1>2, <1>3 DEF Updaters, HasData
<1>5. ASSUME NEW f \in Flags, Good(f) PROVE Good(f)'
  <2>1. OneUpdater(f)' /\ Writes(f)'
    BY <1>2, <1>3, <1>5 DEF Good, OneUpdater, Writes
  <2>2. CASE f \in flags
    <3>1. IsAnnounced(f)' /\ IsPending(f)'
      BY <1>3, <2>2 DEF IsAnnounced, IsPending
    <3> QED BY <2>1, <3>1 DEF Good, DataFresh, LeftService, ToConfirm, Fresh
  <2>3. CASE f \notin flags
    <3>1. (IsPending(f)' <=> IsPending(f)) /\ (IsAnnounced(f)' <=> IsAnnounced(f))
      BY <1>2, <1>3, <2>3 DEF IsAnnounced, IsPending
    <3>2. version'[f] = version[f]
      BY <1>1, <2>3
    <3>3. DataFresh(f)'
      BY <1>2, <1>3, <1>5, <3>1, <3>2 DEF Good, DataFresh, HasData
    <3>4. LeftService(f)'
      BY <1>2, <1>3, <1>5, <3>1 DEF Good, LeftService
    <3>5. ToConfirm(f)' /\ Fresh(f)'
      BY <1>2, <1>3, <1>5, <3>1, <3>2 DEF Good, ToConfirm, Fresh
    <3> QED BY <2>1, <3>3, <3>4, <3>5 DEF Good
  <2> QED BY <2>2, <2>3
<1> QED BY <1>4, <1>5

\* Invalidate: loaders of the flags lose them.
LEMMA InvalidateFresh ==
  ASSUME Typed, Updaters, NEW x \in Changers, Invalidate(x)
  PROVE  Updaters' /\ \A f \in Flags : Good(f) => Good(f)'
<1>1. /\ at[x] = "invalidate" /\ Goto(x, "unconfirm")
      /\ UNCHANGED <<version, info, Confirmed, job, what>>
      /\ InService' = InService \ what[x]
  BY DEF Invalidate
<1>2. /\ at'[x] = "unconfirm" /\ \A u \in Threads : u # x => at'[u] = at[u]
      /\ \A u \in Loaders : u \in Threads
      /\ \A u \in Changers : u \in Threads
  BY <1>1, GotoTyped DEF Typed, Threads
<1>3. Updaters'
  BY <1>1, <1>2 DEF Updaters, HasData
<1>4. ASSUME NEW f \in Flags, Good(f) PROVE Good(f)'
  <2>1. /\ IsPending(f)' <=> IsPending(f)
        /\ f \notin what[x] => (IsAnnounced(f)' <=> IsAnnounced(f))
        /\ f \in what[x] => IsPending(f)
    BY <1>1, <1>2 DEF IsAnnounced, IsPending
  <2>2. OneUpdater(f)' /\ Writes(f)'
    BY <1>1, <1>2, <1>4 DEF Good, OneUpdater, Writes
  <2>3. DataFresh(f)'
    BY <1>1, <1>2, <1>4, <2>1 DEF Good, DataFresh, HasData
  <2>4. LeftService(f)'
    BY <1>1, <1>2, <1>4, <2>1 DEF Good, LeftService
  <2>5. ToConfirm(f)' /\ Fresh(f)'
    BY <1>1, <1>2, <1>4, <2>1 DEF Good, ToConfirm, Fresh
  <2> QED BY <2>2, <2>3, <2>4, <2>5 DEF Good
<1> QED BY <1>3, <1>4

\* ... and nobody shows them as confirmed any more, unless they become tainted.
LEMMA UnconfirmFresh ==
  ASSUME Typed, Updaters, NEW x \in Changers, Unconfirm(x)
  PROVE  Updaters' /\ \A f \in Flags \ tainted' : f \notin tainted /\ (Good(f) => Good(f)')
<1>1. /\ at[x] = "unconfirm"
      /\ UNCHANGED <<version, info, InService, job>>
      /\ Confirmed' = Confirmed \ what[x]
      /\ tainted' = tainted \cup {f \in what[x] : \E l \in Loaders : at[l] = "confirm" /\ f \in job[l].ret}
  BY DEF Unconfirm
<1>2. PICK l \in {"idle", "report"} :
        Goto(x, l) /\ (Want(x, {}) \/ what' = what)
  BY DEF Unconfirm
<1>3. /\ at'[x] = l /\ \A u \in Threads : u # x => at'[u] = at[u]
      /\ \A u \in Threads : u # x => what'[u] = what[u]
      /\ \A u \in Loaders : u \in Threads
      /\ \A u \in Changers : u \in Threads
  <2>1. x \in Threads /\ Loaders \subseteq Threads /\ Changers \subseteq Threads
    BY DEF Threads
  <2>2. at'[x] = l /\ \A u \in Threads : u # x => at'[u] = at[u]
    BY <1>2, <2>1 DEF Goto, Typed
  <2>3. \A u \in Threads : u # x => what'[u] = what[u]
    BY <1>2, <2>1 DEF Want, Typed
  <2> QED BY <2>1, <2>2, <2>3
<1>4. Updaters'
  BY <1>1, <1>2, <1>3 DEF Updaters, HasData
<1>5. ASSUME NEW f \in Flags \ tainted', Good(f) PROVE Good(f)'
  <2>1. /\ IsAnnounced(f)' <=> IsAnnounced(f)
        /\ f \notin what[x] => (IsPending(f)' <=> IsPending(f))
    BY <1>1, <1>2, <1>3 DEF IsAnnounced, IsPending
  <2>2. f \in what[x] => f \notin Confirmed' /\ \A m \in Loaders : ~ (at[m] = "confirm" /\ f \in job[m].ret)
    BY <1>1, <1>5
  <2>3. OneUpdater(f)' /\ Writes(f)'
    BY <1>1, <1>2, <1>3, <1>5 DEF Good, OneUpdater, Writes
  <2>4. DataFresh(f)'
    BY <1>1, <1>2, <1>3, <1>5, <2>1 DEF Good, DataFresh, HasData
  <2>5. LeftService(f)'
    BY <1>1, <1>2, <1>3, <1>5, <2>1, <2>2 DEF Good, LeftService
  <2>6. ToConfirm(f)' /\ Fresh(f)'
    BY <1>1, <1>2, <1>3, <1>5, <2>1, <2>2 DEF Good, ToConfirm, Fresh
  <2> QED BY <2>3, <2>4, <2>5, <2>6 DEF Good
<1> QED BY <1>1, <1>4, <1>5

\* What the steps of a loader outside an update leave behind.
LEMMA LoadElsewhere ==
  ASSUME Typed, Updaters, NEW t \in Loaders,
         \/ ReadEntry(t) \/ HandleRequest(t) \/ GetRequest(t) \/ Drop(t) \/ Decide(t) \/ Raise(t)
         \/ BeginUpdate(t) /\ job[t].what2 \subseteq InService
  PROVE  Updaters' /\ tainted \subseteq tainted' /\ \A f \in Flags : Good(f) => Good(f)'
<1>1. t \in Threads /\ job \in [Loaders -> JobRecord]
  BY DEF Typed, Threads
<1>2. job[t].upd = {}
  <2>1. at[t] \notin {"decode"} \cup HasData
    BY DEF ReadEntry, HandleRequest, GetRequest, Drop, Decide, Raise, BeginUpdate, HasData
  <2> QED BY <2>1 DEF Updaters
<1>3. CASE ReadEntry(t)
  <2>1. /\ at[t] = "idle" /\ Goto(t, "handle")
        /\ UNCHANGED <<version, info, InService, Confirmed, what, tainted>>
        /\ \E p \in 0 .. WorkerLevel(t) : job' = [job EXCEPT ![t].level = p]
    BY <1>3 DEF ReadEntry, words
  <2>2. job'[t].upd = {} /\ \A u \in Loaders : u # t => job'[u] = job[u]
    BY <1>1, <1>2, <2>1 DEF JobRecord
  <2> QED BY <1>1, <2>1, <2>2, Elsewhere DEF HasData
<1>4. CASE HandleRequest(t)
  <2>1. /\ at[t] = "handle" /\ Goto(t, "begin")
        /\ UNCHANGED <<version, info, InService, Confirmed, what, tainted, job>>
    BY <1>4 DEF HandleRequest, words
  <2> QED BY <1>1, <1>2, <2>1, Elsewhere DEF HasData
<1>5. CASE GetRequest(t)
  <2>1. /\ at[t] = "begin" /\ Goto(t, "obtain")
        /\ UNCHANGED <<version, info, InService, Confirmed, what, tainted>>
        /\ job' = [job EXCEPT ![t].what2 = Requested(job[t].level)]
    BY <1>5 DEF GetRequest, words
  <2>2. job'[t].upd = {} /\ \A u \in Loaders : u # t => job'[u] = job[u]
    BY <1>1, <1>2, <2>1 DEF JobRecord
  <2> QED BY <1>1, <2>1, <2>2, Elsewhere DEF HasData
<1>6. CASE Drop(t)
  <2>1. /\ at[t] = "drop" /\ Goto(t, "decide")
        /\ UNCHANGED <<version, info, InService, Confirmed, what, tainted, job>>
    BY <1>6 DEF Drop
  <2> QED BY <1>1, <1>2, <2>1, Elsewhere DEF HasData
<1>7. CASE Decide(t)
  <2>1. /\ at[t] = "decide"
        /\ UNCHANGED <<version, info, InService, Confirmed, what, tainted, job>>
        /\ \E l \in {"raise", "begin"} : Goto(t, l)
    BY <1>7 DEF Decide, words
  <2> QED BY <1>1, <1>2, <2>1, Elsewhere DEF HasData
<1>8. CASE Raise(t)
  <2>1. /\ at[t] = "raise"
        /\ UNCHANGED <<version, info, InService, Confirmed, tainted>>
        /\ \E l \in {"idle", "recheck"} : Goto(t, l)
        /\ job' = [job EXCEPT ![t] = NoJob]
        /\ \A u \in Threads : at[u] \in {"invalidate", "unconfirm"} => what'[u] = what[u]
    BY <1>8 DEF Raise, Finish, words
  <2>2. job'[t].upd = {} /\ \A u \in Loaders : u # t => job'[u] = job[u]
    BY <1>1, <2>1 DEF NoJob
  <2> QED BY <1>1, <2>1, <2>2, Elsewhere DEF HasData
<1>9. CASE BeginUpdate(t) /\ job[t].what2 \subseteq InService
  <2>1. job[t].what2 \ InService = {}
    BY <1>9
  <2>2. /\ at[t] = "obtain"
        /\ UNCHANGED <<version, info, InService, Confirmed, what>>
        /\ \E l \in {"idle", "recheck", "raise"} : Goto(t, l)
        /\ job' \in {[job EXCEPT ![t] = NoJob], [job EXCEPT ![t].upd = {}, ![t].what2 = {}]}
        /\ tainted \subseteq tainted'
    BY <1>9, <2>1 DEF BeginUpdate, Finish, Obtain
  <2>3. job'[t].upd = {} /\ \A u \in Loaders : u # t => job'[u] = job[u]
    BY <1>1, <2>2 DEF NoJob, JobRecord
  <2> QED BY <1>1, <2>2, <2>3, Elsewhere DEF HasData
<1> QED BY <1>3, <1>4, <1>5, <1>6, <1>7, <1>8, <1>9

\* No step breaks what is known of the flags that are not tainted.
LEMMA FreshKeeps ==
  ASSUME IInv, [Next]_vars
  PROVE  Updaters' /\ \A f \in Flags \ tainted' : Good(f)'
<1>1. Typed /\ MutexHeld /\ Updaters /\ \A f \in Flags \ tainted : Good(f)
  BY DEF IInv
<1>2. ASSUME NEW t \in Threads,
             \/ Check(t) \/ RequestAsync(t) \/ Schedule(t) \/ WriteEntry(t) \/ Answered(t)
             \/ RequestSync(t) \/ Recheck(t) \/ Register(t) \/ LookAgain(t) \/ Waited(t)
      PROVE  Updaters' /\ \A f \in Flags \ tainted' : Good(f)'
  <2>1. at[t] \notin {"decode", "invalidate", "unconfirm"} \cup HasData
    BY <1>2 DEF Check, RequestAsync, Schedule, WriteEntry, Answered, RequestSync, Recheck,
       Register, LookAgain, Waited, HasData
  <2>2. UNCHANGED <<version, info, InService, Confirmed, job, tainted>>
    BY <1>2 DEF Check, RequestAsync, Schedule, WriteEntry, Answered, RequestSync, Recheck,
       Register, LookAgain, Waited, words
  <2>3. \E l \in {"request", "await", "schedule", "write", "idle", "handle", "register",
                  "registered", "wait"} : Goto(t, l)
    BY <1>2 DEF Check, RequestAsync, Schedule, WriteEntry, Answered, RequestSync, Recheck,
       Register, LookAgain, Waited
  <2>4. PICK l : /\ Goto(t, l)
                 /\ l \notin {"decode", "confirm", "invalidate", "unconfirm"} \cup HasData
    BY <2>3 DEF HasData
  <2>5. what' = what \/ \E w : Want(t, w)
    BY <1>2 DEF Check, RequestAsync, Schedule, WriteEntry, Answered, RequestSync, Recheck,
       Register, LookAgain, Waited
  <2>6. \A u \in Threads : at[u] \in {"invalidate", "unconfirm"} => what'[u] = what[u]
    BY <1>1, <2>1, <2>5 DEF Want, Typed
  <2>7. t \in Loaders => job'[t].upd = {}
    BY <1>1, <2>1, <2>2 DEF Updaters
  <2> QED BY <1>1, <2>1, <2>2, <2>4, <2>6, <2>7, Elsewhere
<1>3. ASSUME NEW x \in Changers, Report(x)
      PROVE  Updaters' /\ \A f \in Flags \ tainted' : Good(f)'
  <2>1. /\ at[x] = "report" /\ Goto(x, "idle") /\ Want(x, {}) /\ x \in Threads
        /\ UNCHANGED <<version, info, InService, Confirmed, job, tainted>>
    BY <1>3 DEF Report, words, Threads
  <2>2. \A u \in Threads : at[u] \in {"invalidate", "unconfirm"} => what'[u] = what[u]
    BY <1>1, <2>1 DEF Want, Typed
  <2>3. x \in Loaders => job'[x].upd = {}
    BY <1>1, <2>1 DEF Updaters, HasData
  <2> QED BY <1>1, <2>1, <2>2, <2>3, Elsewhere DEF HasData
<1>4. ASSUME NEW x \in Changers, Change(x) \/ Invalidate(x)
      PROVE  Updaters' /\ \A f \in Flags \ tainted' : Good(f)'
  <2>1. tainted' = tainted
    BY <1>4 DEF Change, Invalidate
  <2> QED BY <1>1, <1>4, <2>1, ChangeFresh, InvalidateFresh
<1>5. ASSUME NEW x \in Changers, Unconfirm(x)
      PROVE  Updaters' /\ \A f \in Flags \ tainted' : Good(f)'
  BY <1>1, <1>5, UnconfirmFresh
<1>6. ASSUME NEW t \in Loaders, Load(t)
      PROVE  Updaters' /\ \A f \in Flags \ tainted' : Good(f)'
  <2>1. CASE \/ ReadEntry(t) \/ HandleRequest(t) \/ GetRequest(t) \/ Drop(t) \/ Decide(t) \/ Raise(t)
             \/ BeginUpdate(t) /\ job[t].what2 \subseteq InService
    BY <1>1, <2>1, LoadElsewhere
  <2>2. CASE BeginUpdate(t) /\ ~ (job[t].what2 \subseteq InService)
    BY <1>1, <2>2, BeginFresh
  <2>3. CASE Extend(t)
    BY <1>1, <2>3, ExtendFresh
  <2>4. CASE Decode(t) \/ Lock(t) \/ UpdateInfo(t)
    <3>1. tainted' = tainted
      BY <2>4 DEF Decode, Lock, UpdateInfo
    <3> QED BY <1>1, <2>4, <3>1, DecodeFresh, LockFresh, UpdateInfoFresh
  <2>5. CASE Commit(t) \/ Confirm(t)
    <3>1. tainted' = tainted
      BY <2>5 DEF Commit, Confirm
    <3> QED BY <1>1, <2>5, <3>1, CommitFresh, ConfirmFresh
  <2> QED BY <1>6, <2>1, <2>2, <2>3, <2>4, <2>5 DEF Load
<1>7. CASE UNCHANGED vars
  <2>1. UNCHANGED <<version, info, Confirmed, InService, at, what, job, tainted>>
    BY <1>7 DEF vars, words
  <2>2. Updaters'
    BY <1>1, <2>1 DEF Updaters, HasData
  <2>3. ASSUME NEW f \in Flags \ tainted PROVE Good(f)'
    <3>1. (IsPending(f)' <=> IsPending(f)) /\ (IsAnnounced(f)' <=> IsAnnounced(f))
      BY <2>1 DEF IsPending, IsAnnounced
    <3> QED BY <1>1, <2>1, <2>3, <3>1 DEF Good, OneUpdater, Writes, DataFresh, LeftService, ToConfirm, Fresh
  <2> QED BY <2>1, <2>2, <2>3
<1>8. \A t \in Clients \cup Askers \cup Loaders : t \in Threads
  BY DEF Threads, Loaders
<1> QED BY <1>2, <1>3, <1>4, <1>5, <1>6, <1>7, <1>8 DEF Next, Wait, Request, InvalidateAll

LEMMA StepIInv == IInv /\ [Next]_vars => IInv'
  BY TypedKeeps, MutexKeeps, FreshKeeps DEF IInv

\* The invariant holds in all states.
THEOREM Invariance == Spec => []IInv
  BY InitIInv, StepIInv, PTL DEF Spec

\* DoLoadInfo holds the object's mutex from UpdateInfo to its decision about a retry
\* and nowhere else, whatever loaders there are.
THEOREM TypeCorrect == Spec => []TypeOK
<1>1. IInv => TypeOK
  BY DEF IInv, Typed, MutexHeld, JobRecord, TypeOK, Critical
<1> QED BY <1>1, Invariance, PTL

\* Playable::DoLoadInfo and Invalidate: what is confirmed is what the source contains, for
\* any number of loaders, changers and changes, unless the flag is tainted.
THEOREM ConfirmedIsFresh == Spec => []FreshUnlessTainted
<1>1. ASSUME IInv PROVE FreshUnlessTainted
  <2>1. ASSUME NEW f \in Confirmed \ (Pending \cup tainted) PROVE info[f] = version[f]
    <3>1. f \in Flags /\ Good(f)
      BY <1>1, <2>1 DEF IInv, Typed
    <3>2. ~ IsPending(f)
      BY <2>1 DEF Pending, IsPending
    <3> QED BY <2>1, <3>1, <3>2 DEF Good, Fresh
  <2> QED BY <2>1 DEF FreshUnlessTainted
<1> QED BY <1>1, Invariance, PTL

(***************************************************************************)
(* Requests at normal priority are not forgotten.  What is requested has   *)
(* been scheduled, is among the flags a loader is about to ask for, or is  *)
(* in service; only a loader that has read it in an earlier round does not *)
(* ask for it again, and with one kind there is no such round.             *)
(***************************************************************************)

\* What is in service is held by a loader.
ServiceHeld == \A f \in InService : \E l \in Loaders : f \in job[l].upd

\* No loader begins a round with something loaded.
NothingLoaded ==
  \A l \in Loaders : at[l] \notin {"confirm", "drop", "decide", "raise"} => job[l].loaded = {}

\* The bit of the normal level is set as long as somebody is going to reset it.
BitServed == 0 \in AsyncRequest =>
  \/ queued[0] > 0
  \/ \E c \in Clients \ LowClients : at[c] = "write"
  \/ \E l \in Loaders : at[l] = "handle"

\* l is going to ask for f, has it, or drops the requests for it.
Serves(l, f) ==
  \/ at[l] \in {"handle", "begin"}
  \/ at[l] = "obtain" /\ f \in job[l].what2
  \/ f \in job[l].upd
  \/ at[l] \in {"confirm", "drop"} /\ f \in job[l].ret
  \/ at[l] \in {"confirm", "drop", "decide"} /\ ~ job[l].what2 \subseteq job[l].loaded

\* OnTheWay without the entries and the clients of the low level.
Served(f) ==
  \/ queued[0] > 0
  \/ \E c \in Clients \ LowClients : at[c] \in {"schedule", "write"}
  \/ \E l \in Loaders : Serves(l, f)

\* The invariant of the requests.
RequestInv == ServiceHeld /\ NothingLoaded /\ BitServed /\ \A f \in ReqHigh : Served(f)

\* Initially nothing is requested.
LEMMA InitRequestInv == Init => RequestInv
  BY DEF Init, RequestInv, ServiceHeld, NothingLoaded, BitServed, NoJob

\* What only others have done keeps what a loader does.
LEMMA ServesKept ==
  ASSUME NEW l \in Loaders, NEW f, at'[l] = at[l], job'[l] = job[l]
  PROVE  Serves(l, f)' <=> Serves(l, f)
  BY DEF Serves

\* A step of a thread that serves no request and changes neither the requests nor a job.
LEMMA ClientKeeps ==
  ASSUME IInv, RequestInv, NEW t \in Threads,
         UNCHANGED <<ReqHigh, InService, job>>,
         \A u \in Threads : u # t => at'[u] = at[u],
         queued'[0] = queued[0], 0 \in AsyncRequest' => 0 \in AsyncRequest,
         at[t] \notin {"handle", "begin", "obtain", "confirm", "drop", "decide", "raise"},
         at[t] \in {"schedule", "write"} => t \in LowClients,
         at'[t] \notin {"confirm", "drop", "decide", "raise"}
  PROVE  RequestInv'
<1>1. ServiceHeld'
  BY DEF RequestInv, ServiceHeld
<1>2. NothingLoaded'
  BY DEF RequestInv, NothingLoaded, Threads
<1>3. BitServed'
  BY DEF RequestInv, BitServed, Threads
<1>4. ASSUME NEW f \in ReqHigh PROVE Served(f)'
  <2>1. Served(f)
    BY <1>4 DEF RequestInv
  <2>2. ASSUME NEW l \in Loaders, Serves(l, f) PROVE Serves(l, f)'
    <3>1. l \in Threads
      BY DEF Threads
    <3>2. CASE l # t
      BY <2>2, <3>1, <3>2, ServesKept
    <3>3. CASE l = t
      BY <2>2, <3>3 DEF Serves
    <3> QED BY <3>2, <3>3
  <2> QED BY <2>1, <2>2 DEF Served, Threads
<1> QED BY <1>1, <1>2, <1>3, <1>4 DEF RequestInv

\* The steps of a request.
LEMMA RequestServed ==
  ASSUME IInv, RequestInv, NEW t \in Threads,
         \/ t \in Clients /\ (Schedule(t) \/ WriteEntry(t))
         \/ Check(t) \/ RequestAsync(t) \/ Answered(t) \/ RequestSync(t)
         \/ Recheck(t) \/ Register(t) \/ LookAgain(t) \/ Waited(t)
  PROVE  RequestInv'
<1>1. /\ at = [u \in Threads |-> at[u]] /\ what \in [Threads -> SUBSET Flags]
      /\ queued \in [Level -> Nat] /\ AsyncRequest \subseteq Level
  BY DEF IInv, Typed
<1>2. CASE Check(t) \/ Answered(t) \/ Recheck(t) \/ Register(t) \/ LookAgain(t) \/ Waited(t)
  <2>1. PICK l : l \notin {"confirm", "drop", "decide", "raise"} /\ Goto(t, l)
    BY <1>2 DEF Check, Answered, Recheck, Register, LookAgain, Waited
  <2>2. at'[t] = l /\ \A u \in Threads : u # t => at'[u] = at[u]
    BY <1>1, <2>1 DEF Goto
  <2>3. UNCHANGED <<ReqHigh, InService, queued, job, AsyncRequest>>
    BY <1>2 DEF Check, Answered, Recheck, Register, LookAgain, Waited, words, queue
  <2>4. at[t] \in {"idle", "await", "recheck", "register", "registered", "wait"}
    BY <1>2 DEF Check, Answered, Recheck, Register, LookAgain, Waited
  <2> QED BY <2>1, <2>2, <2>3, <2>4, ClientKeeps
<1>3. CASE RequestAsync(t)
  <2>1. /\ at[t] = "request" /\ at'[t] \in {"await", "schedule"}
        /\ \A u \in Threads : u # t => at'[u] = at[u]
        /\ UNCHANGED <<InService, queued, job, AsyncRequest>> /\ t \in Clients
    BY <1>1, <1>3 DEF RequestAsync, Goto, queue
  <2>2. CASE ReqHigh' = ReqHigh
    BY <2>1, <2>2, ClientKeeps
  <2>3. CASE ReqHigh' # ReqHigh
    <3>1. t \notin LowClients /\ at'[t] = "schedule"
      BY <1>1, <1>3, <2>3 DEF RequestAsync, Place, ClientLevel, Requested, Goto
    <3>2. \A f : Served(f)'
      BY <2>1, <3>1 DEF Served
    <3>3. ServiceHeld' /\ NothingLoaded' /\ BitServed'
      BY <2>1 DEF RequestInv, ServiceHeld, NothingLoaded, BitServed, Threads
    <3> QED BY <3>2, <3>3 DEF RequestInv
  <2> QED BY <2>2, <2>3
<1>4. CASE RequestSync(t)
  <2>1. /\ at[t] = "request" /\ at'[t] = "handle"
        /\ \A u \in Threads : u # t => at'[u] = at[u]
        /\ UNCHANGED <<InService, queued, job, AsyncRequest>> /\ t \in Loaders
    BY <1>1, <1>4 DEF RequestSync, Goto, queue, Loaders
  <2>2. \A f : Served(f)'
    BY <2>1 DEF Served, Serves
  <2>3. ServiceHeld' /\ NothingLoaded' /\ BitServed'
    BY <2>1 DEF RequestInv, ServiceHeld, NothingLoaded, BitServed, Threads
  <2> QED BY <2>2, <2>3 DEF RequestInv
<1>5. CASE t \in Clients /\ Schedule(t)
  <2>1. /\ at[t] = "schedule" /\ at'[t] \in {"await", "write"}
        /\ \A u \in Threads : u # t => at'[u] = at[u]
        /\ UNCHANGED <<ReqHigh, InService, queued, job>>
        /\ AsyncRequest' = AsyncRequest \cup {ClientLevel(t)}
        /\ ClientLevel(t) \notin AsyncRequest => at'[t] = "write"
    BY <1>1, <1>5 DEF Schedule, Goto, words
  <2>2. CASE t \in LowClients
    <3>1. 0 \in AsyncRequest' => 0 \in AsyncRequest
      BY <2>1, <2>2 DEF ClientLevel
    <3> QED BY <2>1, <2>2, <3>1, ClientKeeps
  <2>3. CASE t \notin LowClients
    <3>1. ServiceHeld' /\ NothingLoaded'
      BY <2>1 DEF RequestInv, ServiceHeld, NothingLoaded, Threads
    <3>2. t \in Clients \ LowClients /\ ClientLevel(t) = 0
      BY <1>5, <2>3 DEF ClientLevel
    <3>3. \/ queued'[0] > 0
          \/ \E c \in Clients \ LowClients : at'[c] = "write"
          \/ \E l \in Loaders : at'[l] = "handle"
      BY <2>1, <3>2 DEF RequestInv, BitServed, Threads
    <3>4. BitServed' /\ \A f : Served(f)'
      BY <3>3 DEF BitServed, Served, Serves
    <3> QED BY <3>1, <3>4 DEF RequestInv
  <2> QED BY <2>2, <2>3
<1>6. CASE t \in Clients /\ WriteEntry(t)
  <2>1. /\ at[t] = "write" /\ at'[t] = "await"
        /\ \A u \in Threads : u # t => at'[u] = at[u]
        /\ UNCHANGED <<ReqHigh, InService, AsyncRequest, job>>
        /\ queued' = [queued EXCEPT ![ClientLevel(t)] = @ + 1]
    BY <1>1, <1>6 DEF WriteEntry, Goto, words
  <2>2. CASE t \in LowClients
    <3>1. queued'[0] = queued[0]
      BY <1>1, <2>1, <2>2 DEF ClientLevel, Level
    <3> QED BY <2>1, <2>2, <3>1, ClientKeeps
  <2>3. CASE t \notin LowClients
    <3>1. ServiceHeld' /\ NothingLoaded'
      BY <2>1 DEF RequestInv, ServiceHeld, NothingLoaded, Threads
    <3>2. queued'[0] > 0
      BY <1>1, <2>1, <2>3 DEF ClientLevel, Level
    <3> QED BY <3>1, <3>2 DEF RequestInv, BitServed, Served
  <2> QED BY <2>2, <2>3
<1> QED BY <1>2, <1>3, <1>4, <1>5, <1>6

\* The steps of a change and of Invalidate.
LEMMA InvalidateServed ==
  ASSUME IInv, RequestInv, NEW x \in Changers, Change(x) \/ InvalidateAll(x)
  PROVE  RequestInv'
<1>0. at = [u \in Threads |-> at[u]] /\ x \in Threads
  BY DEF IInv, Typed, Threads
<1>1. /\ at[x] \in {"idle", "invalidate", "unconfirm", "report"}
      /\ at'[x] \in {"idle", "invalidate", "unconfirm", "report"}
      /\ \A u \in Threads : u # x => at'[u] = at[u]
  BY <1>0 DEF Change, InvalidateAll, Invalidate, Unconfirm, Report, Goto
<1>2. UNCHANGED <<ReqHigh, job, queued, AsyncRequest>> /\ InService' \subseteq InService
  BY DEF Change, InvalidateAll, Invalidate, Unconfirm, Report, words, queue
<1>3. ServiceHeld'
  BY <1>2 DEF RequestInv, ServiceHeld
<1>4. NothingLoaded' /\ BitServed'
  BY <1>1, <1>2 DEF RequestInv, NothingLoaded, BitServed, Threads
<1>5. ASSUME NEW f \in ReqHigh PROVE Served(f)'
  <2>1. Served(f)
    BY <1>5 DEF RequestInv
  <2>2. ASSUME NEW l \in Loaders, Serves(l, f) PROVE Serves(l, f)'
    <3>1. l \in Threads
      BY DEF Threads
    <3>2. CASE l # x
      BY <1>1, <1>2, <2>2, <3>1, <3>2, ServesKept
    <3>3. CASE l = x
      BY <1>1, <1>2, <2>2, <3>3 DEF Serves
    <3> QED BY <3>2, <3>3
  <2> QED BY <1>1, <1>2, <2>1, <2>2 DEF Served, Threads
<1> QED BY <1>2, <1>3, <1>4, <1>5 DEF RequestInv

\* A load step of t: what the others do stays as it is.  Then it is enough that t still
\* holds what it has in service, and that f is served if it was served by t.
LEMMA LoadKeeps ==
  ASSUME IInv, RequestInv, NEW t \in Loaders,
         \A u \in Threads : u # t => at'[u] = at[u],
         \A u \in Loaders : u # t => job'[u] = job[u],
         AsyncRequest' = AsyncRequest, queued' = queued,
         ReqHigh' \subseteq ReqHigh,
         at[t] # "handle", at[t] \notin {"schedule", "write"},
         \A f \in InService' : (f \in InService /\ f \notin job[t].upd) \/ f \in job'[t].upd,
         at'[t] \notin {"confirm", "drop", "decide", "raise"} => job'[t].loaded = {},
         \A f \in ReqHigh' : Serves(t, f) => Serves(t, f)' \/ f \in InService'
  PROVE  RequestInv'
<1>0. \A l \in Loaders : l \in Threads
  BY DEF Threads
<1>1. ServiceHeld'
  BY DEF RequestInv, ServiceHeld
<1>2. NothingLoaded'
  BY <1>0 DEF RequestInv, NothingLoaded
<1>3. BitServed'
  BY <1>0 DEF RequestInv, BitServed, Threads
<1>4. ASSUME NEW f \in ReqHigh' PROVE Served(f)'
  <2>1. Served(f)
    BY <1>4 DEF RequestInv
  <2>2. ASSUME NEW l \in Loaders, Serves(l, f) PROVE \E m \in Loaders : Serves(m, f)'
    <3>1. CASE l # t
      BY <1>0, <2>2, <3>1, ServesKept
    <3>2. CASE l = t
      BY <1>1, <1>4, <2>2, <3>2 DEF Serves, ServiceHeld
    <3> QED BY <3>1, <3>2
  <2> QED BY <2>1, <2>2 DEF Served, Threads
<1> QED BY <1>1, <1>2, <1>3, <1>4 DEF RequestInv

\* The steps of a load.  A retry loads what was not loaded before, and with one kind
\* nothing has been loaded then.
LEMMA LoadServed ==
  ASSUME NEW k, Flags = {k}, IInv, RequestInv, NEW t \in Loaders, Load(t)
  PROVE  RequestInv'
<1>1. /\ at = [u \in Threads |-> at[u]] /\ job \in [Loaders -> JobRecord]
      /\ queued \in [Level -> Nat] /\ t \in Threads /\ \A l \in Loaders : l \in Threads
  BY DEF IInv, Typed, Threads
<1>2. /\ job[t] \in JobRecord /\ job[t].upd \subseteq Flags /\ job[t].what2 \subseteq Flags
      /\ job[t].ret \subseteq Flags /\ job[t].loaded \subseteq Flags
  BY <1>1 DEF JobRecord
<1>3. /\ at[t] \notin {"decode"} \cup HasData => job[t].upd = {}
      /\ at[t] \in HasData => job[t].upd \subseteq job[t].what2
  BY DEF IInv, Updaters
<1>4. at[t] \notin {"confirm", "drop", "decide", "raise"} => job[t].loaded = {}
  BY DEF RequestInv, NothingLoaded
<1>5. ASSUME NEW l, Goto(t, l) PROVE at'[t] = l /\ \A u \in Threads : u # t => at'[u] = at[u]
  BY <1>1, <1>5 DEF Goto
<1>6. CASE ReadEntry(t)
  <2>1. at[t] = "idle" /\ at'[t] = "handle" /\ \A u \in Threads : u # t => at'[u] = at[u]
    BY <1>5, <1>6 DEF ReadEntry
  <2>2. /\ \A u \in Loaders : u # t => job'[u] = job[u]
        /\ job'[t].upd = job[t].upd /\ job'[t].loaded = job[t].loaded
    BY <1>1, <1>2, <1>6 DEF ReadEntry, JobRecord
  <2>3. UNCHANGED <<ReqHigh, InService>>
    BY <1>6 DEF ReadEntry, words
  <2>4. ServiceHeld'
    BY <2>2, <2>3 DEF RequestInv, ServiceHeld
  <2>5. NothingLoaded'
    BY <1>1, <1>4, <2>1, <2>2 DEF RequestInv, NothingLoaded
  <2>6. BitServed' /\ \A f : Served(f)'
    BY <2>1 DEF BitServed, Served, Serves
  <2> QED BY <2>4, <2>5, <2>6 DEF RequestInv
<1>7. CASE HandleRequest(t)
  <2>1. at[t] = "handle" /\ at'[t] = "begin" /\ \A u \in Threads : u # t => at'[u] = at[u]
    BY <1>5, <1>7 DEF HandleRequest
  <2>2. UNCHANGED <<ReqHigh, InService, job>> /\ 0 \notin AsyncRequest'
    BY <1>7 DEF HandleRequest, words
  <2>3. ServiceHeld'
    BY <2>2 DEF RequestInv, ServiceHeld
  <2>4. NothingLoaded'
    BY <1>1, <1>4, <2>1, <2>2 DEF RequestInv, NothingLoaded
  <2>5. BitServed' /\ \A f : Served(f)'
    BY <2>1, <2>2 DEF BitServed, Served, Serves
  <2> QED BY <2>3, <2>4, <2>5 DEF RequestInv
<1>8. CASE GetRequest(t)
  <2>1. at[t] = "begin" /\ at'[t] = "obtain" /\ \A u \in Threads : u # t => at'[u] = at[u]
    BY <1>5, <1>8 DEF GetRequest
  <2>2. /\ \A u \in Loaders : u # t => job'[u] = job[u]
        /\ job'[t].upd = job[t].upd /\ job'[t].loaded = job[t].loaded
        /\ ReqHigh \subseteq job'[t].what2
    BY <1>1, <1>2, <1>8 DEF GetRequest, JobRecord, Requested
  <2>3. UNCHANGED <<AsyncRequest, queued, ReqHigh, InService>>
    BY <1>8 DEF GetRequest, words, queue
  <2>4. \A f \in ReqHigh' : Serves(t, f)'
    BY <2>1, <2>2, <2>3 DEF Serves
  <2> QED BY <1>3, <1>4, <2>1, <2>2, <2>3, <2>4, LoadKeeps DEF HasData
<1>9. CASE BeginUpdate(t)
  <2> DEFINE got == job[t].what2 \ InService
  <2>1. /\ at[t] = "obtain" /\ job[t].upd = {} /\ job[t].loaded = {}
        /\ InService' = InService \cup got
        /\ UNCHANGED <<AsyncRequest, queued, ReqHigh>>
    BY <1>3, <1>4, <1>9 DEF BeginUpdate, Obtain, HasData, queue
  <2>2. \A f : Serves(t, f) => f \in job[t].what2
    BY <2>1 DEF Serves
  <2>3. CASE got = {}
    <3>1. Finish(t)
      BY <1>9, <2>1, <2>3 DEF BeginUpdate
    <3>2. PICK l \in {"idle", "recheck"} : Goto(t, l)
      BY <3>1 DEF Finish
    <3>3. /\ \A u \in Loaders : u # t => job'[u] = job[u]
          /\ job'[t].loaded = {}
      BY <1>1, <3>1 DEF Finish, NoJob
    <3> QED BY <1>5, <2>1, <2>2, <2>3, <3>2, <3>3, LoadKeeps
  <2>4. CASE got # {}
    <3>1. Goto(t, "decode") /\ job' = [job EXCEPT ![t].upd = got, ![t].what2 = got]
      BY <1>9, <2>4 DEF BeginUpdate
    <3>2. /\ \A u \in Loaders : u # t => job'[u] = job[u]
          /\ job'[t].upd = got /\ job'[t].loaded = {}
      BY <1>1, <1>2, <2>1, <3>1 DEF JobRecord
    <3> QED BY <1>5, <2>1, <2>2, <3>1, <3>2, LoadKeeps
  <2> QED BY <2>3, <2>4
<1>10. CASE Decode(t)
  <2>1. at[t] = "decode" /\ at'[t] = "extend" /\ \A u \in Threads : u # t => at'[u] = at[u]
    BY <1>5, <1>10 DEF Decode
  <2>2. /\ \A u \in Loaders : u # t => job'[u] = job[u]
        /\ job'[t].upd = job[t].upd /\ job'[t].loaded = job[t].loaded
    BY <1>1, <1>2, <1>10 DEF Decode, JobRecord
  <2>3. UNCHANGED <<AsyncRequest, queued, ReqHigh, InService>>
    BY <1>10 DEF Decode, words, queue
  <2>4. \A f \in ReqHigh' : Serves(t, f) => Serves(t, f)'
    BY <2>1, <2>2 DEF Serves
  <2> QED BY <1>4, <2>1, <2>2, <2>3, <2>4, LoadKeeps
<1>11. CASE Extend(t)
  <2>1. at[t] = "extend" /\ at'[t] = "lock" /\ \A u \in Threads : u # t => at'[u] = at[u]
    BY <1>5, <1>11 DEF Extend
  <2>2. /\ \A u \in Loaders : u # t => job'[u] = job[u]
        /\ job'[t].upd = job[t].upd \cup (job[t].what2 \ InService) /\ job'[t].loaded = job[t].loaded
    BY <1>1, <1>2, <1>11 DEF Extend, JobRecord
  <2>3. /\ UNCHANGED <<AsyncRequest, queued, ReqHigh>>
        /\ InService' = InService \cup (job[t].what2 \ InService)
    BY <1>11 DEF Extend, Obtain, queue
  <2>4. \A f \in ReqHigh' : Serves(t, f) => Serves(t, f)'
    BY <2>1, <2>2 DEF Serves
  <2> QED BY <1>4, <2>1, <2>2, <2>3, <2>4, LoadKeeps
<1>12. CASE Lock(t) \/ UpdateInfo(t)
  <2>1. /\ at[t] \in {"lock", "update"} /\ at'[t] \in {"update", "commit"}
        /\ \A u \in Threads : u # t => at'[u] = at[u]
    BY <1>5, <1>12 DEF Lock, UpdateInfo
  <2>2. UNCHANGED <<AsyncRequest, queued, ReqHigh, InService, job>>
    BY <1>12 DEF Lock, UpdateInfo, words, queue
  <2>3. \A f \in ReqHigh' : Serves(t, f) => Serves(t, f)'
    BY <2>1, <2>2 DEF Serves
  <2> QED BY <1>4, <2>1, <2>2, <2>3, LoadKeeps
<1>13. CASE Commit(t)
  <2> DEFINE ret == InService \cap job[t].upd \cap job[t].what2
  <2>1. /\ at[t] = "commit" /\ job[t].upd \subseteq job[t].what2 /\ job[t].loaded = {}
        /\ at'[t] = IF ret = {} THEN "decide" ELSE "confirm"
        /\ \A u \in Threads : u # t => at'[u] = at[u]
        /\ InService' = InService \ ret
    BY <1>3, <1>4, <1>5, <1>13 DEF Commit, HasData
  <2>2. /\ \A u \in Loaders : u # t => job'[u] = job[u]
        /\ job'[t].ret = ret /\ job'[t].loaded = ret /\ job'[t].what2 = job[t].what2
    BY <1>1, <1>2, <1>13, <2>1 DEF Commit, JobRecord
  <2>3. UNCHANGED <<AsyncRequest, queued, ReqHigh>>
    BY <1>13 DEF Commit, queue
  <2>4. ASSUME NEW f \in ReqHigh', Serves(t, f) PROVE Serves(t, f)'
    <3>1. f \in job[t].upd
      BY <2>1, <2>4 DEF Serves
    <3>2. CASE f \in InService
      BY <2>1, <2>2, <3>1, <3>2 DEF Serves
    <3>3. CASE f \notin InService
      <4>1. f \in job'[t].what2 /\ f \notin job'[t].loaded /\ at'[t] \in {"confirm", "drop", "decide"}
        BY <2>1, <2>2, <3>1, <3>3
      <4> QED BY <4>1 DEF Serves
    <3> QED BY <3>2, <3>3
  <2>5. \A f \in InService' : f \in InService /\ f \notin job[t].upd
    BY <2>1
  <2>6. at'[t] \in {"confirm", "drop", "decide", "raise"}
    BY <2>1
  <2> QED BY <2>1, <2>2, <2>3, <2>4, <2>5, <2>6, LoadKeeps
<1>14. CASE Confirm(t)
  <2>1. at[t] = "confirm" /\ at'[t] = "drop" /\ \A u \in Threads : u # t => at'[u] = at[u]
    BY <1>5, <1>14 DEF Confirm
  <2>2. UNCHANGED <<AsyncRequest, queued, ReqHigh, InService, job>>
    BY <1>14 DEF Confirm, queue
  <2>3. \A f \in ReqHigh' : Serves(t, f) => Serves(t, f)'
    BY <2>1, <2>2 DEF Serves
  <2> QED BY <2>1, <2>2, <2>3, LoadKeeps
<1>15. CASE Drop(t)
  <2>1. at[t] = "drop" /\ at'[t] = "decide" /\ \A u \in Threads : u # t => at'[u] = at[u]
    BY <1>5, <1>15 DEF Drop
  <2>2. UNCHANGED <<AsyncRequest, queued, InService, job>> /\ ReqHigh' = ReqHigh \ job[t].ret
    BY <1>15 DEF Drop, queue
  <2>3. \A f \in ReqHigh' : Serves(t, f) => Serves(t, f)'
    BY <2>1, <2>2 DEF Serves
  <2> QED BY <2>1, <2>2, <2>3, LoadKeeps
<1>16. CASE Decide(t)
  <2>1. /\ at[t] = "decide" /\ job[t].upd = {}
        /\ at'[t] = IF job[t].what2 \subseteq job[t].loaded THEN "raise" ELSE "begin"
        /\ \A u \in Threads : u # t => at'[u] = at[u]
    BY <1>3, <1>5, <1>16 DEF Decide, HasData
  <2>2. UNCHANGED <<AsyncRequest, queued, ReqHigh, InService, job>>
    BY <1>16 DEF Decide, words, queue
  <2>3. \A f \in ReqHigh' : Serves(t, f) => Serves(t, f)'
    BY <2>1, <2>2 DEF Serves
  <2>4. at'[t] = "begin" => job[t].loaded = {}
    BY <1>2, <2>1
  <2> QED BY <2>1, <2>2, <2>3, <2>4, LoadKeeps
<1>17. CASE Raise(t)
  <2>1. at[t] = "raise" /\ job[t].upd = {} /\ Finish(t)
    BY <1>3, <1>17 DEF Raise, HasData
  <2>2. PICK l \in {"idle", "recheck"} : Goto(t, l)
    BY <2>1 DEF Finish
  <2>3. (\A u \in Loaders : u # t => job'[u] = job[u]) /\ job'[t].loaded = {}
    BY <1>1, <2>1 DEF Finish, NoJob
  <2>4. UNCHANGED <<AsyncRequest, queued, ReqHigh, InService>>
    BY <1>17 DEF Raise, words, queue
  <2>5. \A f : ~ Serves(t, f)
    BY <2>1 DEF Serves
  <2> QED BY <1>5, <2>1, <2>2, <2>3, <2>4, <2>5, LoadKeeps
<1> QED BY <1>6, <1>7, <1>8, <1>9, <1>10, <1>11, <1>12, <1>13, <1>14, <1>15, <1>16, <1>17 DEF Load

\* The invariant of the requests is kept.
LEMMA StepRequestInv ==
  ASSUME NEW k, Flags = {k}
  PROVE  IInv /\ RequestInv /\ [Next]_vars => RequestInv'
<1> SUFFICES ASSUME IInv, RequestInv, [Next]_vars PROVE RequestInv'
  OBVIOUS
<1>1. \A t \in Clients \cup Askers : t \in Threads
  BY DEF Threads, Loaders
<1>2. CASE Next
  <2>1. ASSUME NEW t \in Askers \cup Clients, Check(t) PROVE RequestInv'
    <3>1. t \in Threads
      BY <1>1
    <3> QED BY <2>1, <3>1, RequestServed
  <2>2. ASSUME NEW t \in Loaders, Load(t) PROVE RequestInv'
    BY <2>2, LoadServed
  <2>3. ASSUME NEW a \in Askers, Wait(a) PROVE RequestInv'
    <3>1. a \in Threads
      BY <1>1
    <3> QED BY <2>3, <3>1, RequestServed DEF Wait
  <2>4. ASSUME NEW c \in Clients, Request(c) PROVE RequestInv'
    BY <1>1, <2>4, RequestServed DEF Request
  <2>5. ASSUME NEW x \in Changers, Change(x) \/ InvalidateAll(x) PROVE RequestInv'
    BY <2>5, InvalidateServed
  <2> QED BY <1>2, <2>1, <2>2, <2>3, <2>4, <2>5 DEF Next
<1>3. CASE UNCHANGED vars
  <2>1. UNCHANGED <<ReqHigh, InService, AsyncRequest, queued, at, job>>
    BY <1>3 DEF vars, words, queue
  <2>2. \A f : Served(f)' <=> Served(f)
    BY <2>1 DEF Served, Serves
  <2> QED BY <2>1, <2>2 DEF RequestInv, ServiceHeld, NothingLoaded, BitServed
<1> QED BY <1>2, <1>3

\* DoLoadInfo, aplayable.h:268: with one kind of information and at least one worker
\* (num_workers is not zero, configuration.h:151) no request at normal priority is
\* forgotten, for any number of loaders, clients, changers and changes.
THEOREM NoRequestForgotten ==
  ASSUME NEW k, Flags = {k}, Workers # {}
  PROVE  Spec => []RequestsOnTheWay
<1>1. IInv /\ RequestInv /\ [Next]_vars => RequestInv'
  BY StepRequestInv
<1>2. RequestInv => RequestsOnTheWay
  <2>1. ASSUME NEW f, Served(f) PROVE OnTheWay(f)
    <3>1. CASE queued[0] > 0
      <4>1. PICK w \in Workers : TRUE
        OBVIOUS
      <4>2. 0 \in Level /\ 0 <= WorkerLevel(w)
        BY DEF Level, WorkerLevel
      <4> QED BY <3>1, <4>1, <4>2 DEF OnTheWay
    <3>2. CASE \E c \in Clients \ LowClients : at[c] \in {"schedule", "write"}
      BY <3>2 DEF OnTheWay
    <3>3. CASE \E l \in Loaders : Serves(l, f)
      BY <3>3 DEF OnTheWay, Serves
    <3> QED BY <2>1, <3>1, <3>2, <3>3 DEF Served
  <2> QED BY <2>1 DEF RequestInv, RequestsOnTheWay
<1> QED BY <1>1, <1>2, InitRequestInv, Invariance, PTL DEF Spec
=============================================================================
