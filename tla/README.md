# A TLA+ model of PM123's core

PM123 is a media player for OS/2. This directory holds TLA+ modules that model
the concurrent core of its player program (`src/pm123`), TLC configurations that
check them on small instances, and TLAPS proofs of what matters most for every
value of the constants. `PROJECT.json` maps each definition to the lines it models
(paths start at the directory that contains the repository, so the repository's
own `src/` is `src/src/`).

## The system

PM123 shows and plays *playable objects*: songs and playlists, addressed by URL.
What is known of an object (physical and technical information, meta tags,
children, aggregates over children, ...) is expensive to get and changes. So the
program requests it by *kind* and *priority*, loads it in worker threads, and
raises an `InfoChange` event when it is there. That is the core of the program:
the windows, the remote control and the playback engine are all its clients.

| component | state | operations | interacts with |
|---|---|---|---|
| Worker queue (`utils/cpp/priority_queue.cpp`) | linked list, one tail pointer and one event per level | Write, WriteFront, Read, Purge, ForEach | read by the workers, written by requests and by rescheduled jobs |
| State of information (`core/infostate.*`) | bit vectors Valid, Confirmed, ReqLow, ReqHigh, InService, each changed atomically, never together | Request, GetRequest, BeginUpdate, EndUpdate, CancelUpdate, Invalidate | one per object and per aggregate; no lock |
| Information requests (`core/aplayable.cpp`, `core/playable.cpp`, `core/waitinfo.cpp`) | AsyncRequest bits of the object, the object's mutex, `Info`, the workers' current object | RequestInfo, ScheduleRequest, HandleRequest, DoLoadInfo, Invalidate, WaitInfo | queue, state, decoder plug-ins, events |
| Dependencies (`core/dependencyinfo.*`, `core/job.*`) | mandatory and optional sets of objects a job waits for, delegates attached to them, what is waited for now | Join, Start, the two handlers of the events, OnCompleted, Cancel | events of other objects, queue |
| Events and delegates (`utils/cpp/event.*`) | list of delegates, list of running iterations | add, remove, raise, sync | everything |
| Reference counting (`utils/cpp/smartptr.h`) | counter in the object and in the low bits of shared pointers | acquire, assign, swap, reset, release | everything |
| Playlist editing (`core/playable.cpp`) | list of children with their indexes, number of items, mark as modified | InsertItem, MoveItem, RemoveItem, Clear, Sort, Shuffle, UpdateCollection, GetNext, Save | state of information, mutex of the object, decoder plug-ins |
| Playable repository (`core/playable.cpp`) | sorted list of objects by URL | GetByURL, Cleanup, SetMetaInfo, SaveMetaInfo | reference counting |
| Aggregate information (`core/collectioninfocache.*`) | entries by exclusion set, with a state each | lookup, invalidate | as above |
| Locations, song iterators | path through nested playlists | next, previous, navigate | playlists |
| Playback controller (`engine/controller.cpp`) | command queue, prefetch list, flags for seeking and the last start | Play, Stop, Load, Navigate, Skip, Location, DecStop, SeekStop, OutStop, Uninit | plug-in engine, song iterator |
| Plug-in engine (`engine/glue.cpp` and others) | current decoder and output, stop position, `FLG_PlaystopSent` | open, play, jump, commit a buffer, trash, flush, close, with timeouts | plug-ins |
| XIO streams (`xio123`) | ring buffer between owner and read-ahead thread, seek request, two events | read, seek, close, read ahead | decoders |
| Windows, remote control, configuration | | | clients of the above |
| Plug-ins, bundled libraries | | | |

What is hard here: state that consists of several words changed one by one without
a lock; a queue whose levels share tails and whose events are not reliable; work
that is invalidated while it is done; entries that are merged by a flag; a
waiter that looks at a state which may have moved on; handlers that run after their
delegate was detached; notifications of a decoder or an output that the controller has
left behind meanwhile; a seek that overlaps with a read of the underlying stream; timeouts at shutdown after
which threads are killed or their data is freed. `PROJECT.json` lists these hazards
at their lines.

What makes the components correct: the queue behaves as one list ordered by
level and wakes whom it has to; each kind of information is loaded by one
thread at a time; what is confirmed is what the source contains; a request is
never forgotten and its event comes; a waiter is released; an event reaches no
delegate that was removed; a pointer's count never reaches zero while it is
used; a notification of the decoder acts on the stream it came from.

## Modules

| module | what it is |
|---|---|
| `PriorityList` | what `queue.h` promises of a priority queue: a sequence ordered by level |
| `PriorityQueue`, `PriorityQueueProofs` | the linked list, tails and events of `priority_queue.cpp`; implements `PriorityList` |
| `InfoState`, `InfoStateProofs` | `infostate.cpp`, one access to a word per step |
| `InfoLoad`, `InfoLoadProofs` | request, schedule, load, invalidate and wait for one object |
| `DelegateEvent`, `DelegateEventProofs` | `event.cpp`: delegates that come and go while the event is raised |
| `DependencyInfo`, `DependencyInfoProofs` | `dependencyinfo.cpp`: a job that waits for information of other objects |
| `SharedPointer` | what `smartptr.h` promises: an object lives as long as it is referenced |
| `IntPtr`, `IntPtrProofs` | the split reference counter of `smartptr.h`; implements `SharedPointer` unless crowded with readers |
| `AsyncBuffer` | `xio_asyncbuffer.cpp`: read-ahead thread, ring buffer, owner |
| `Controller` | `controller.cpp` and `glue.cpp` with a decoder, an output, a user |
| `PlaybackProofs` | the proofs about `Controller` and about `AsyncBuffer`, which decoders read from |
| `Playlist`, `PlaylistProofs` | the children of an object in `playable.cpp`: edits, loads, iterators, Save |
| `MC...` | the same modules with the bounds and sets that TLC uses |

How they fit together: `InfoLoad` composes the queue (as `PriorityList`, reduced to the number of
entries, since all name one object), the words of `InfoState` and an event.
`DependencyInfo` uses delegates as `DelegateEvent` has them. What the detailed module of a
component allows beyond its idealisation is named where the idealisation is used
(history variables `tainted`, `stray`).

Operators named `...Mutant` are faulty variants of the operator that follows them.
No specification uses them; they record which mistake a property would notice.

### PriorityQueue

`head`, `next`, `tail` and `evEmpty` are `Head`, `qentry::Next`, `PriEntry::Tail` and
`PriEntry::EvEmpty`. `Sharing(p, t)` is the range of the three `do ... while` loops:
the levels from `p` upward with the tail `t`. Every operation runs under the
queue's mutex and is one action. `Read` is three: `Wake` (the event is waited for
outside the mutex), then `Take` or, because the event is not reliable,
`Rearm`. A reader deletes its entry or puts it back (`WriteFront`).
`ForEach` and `Check` are operators over a state; the refinement mapping to
`PriorityList` is what `ForEach` enumerates.

### InfoState

The words are sets of flags. A call that makes one access to a word is one
action; one that makes several keeps its place and its argument in `call`, so that
all interleavings occur: a low request (`RequestLow`, `RequestLowSet`), `GetRequest`
at low priority (two reads, in either order), `EndUpdate` (`Commit`,
`EndUpdateConfirm`, `EndUpdateDropLow`, `EndUpdateDropHigh`) and `Invalidate`
(`Invalidate`, then the two words of `InvalidateReset` in either order).
`What` is the member of `InfoState::Update`.
Four history variables serve the properties: `lost` (invalidated since the loader
began), `torn` (taken from a loader that is still at it), `owed` (requested, not
confirmed since) and `spoiled` (invalidated between the halves of an `EndUpdate`).

### InfoLoad

One object, with workers of two levels, threads that load synchronously
(`Askers`), threads that request asynchronously and wait for the event
(`Clients`, some at low priority), and threads that change the source and call
`Invalidate` (`Changers`). `version` is what the source contains, `info` what the object
shows; `tainted` is a history variable. `at` is the program counter of a thread, and
the labels follow the code:

- `RequestInfo`: `Check` (`DoRequestInfo`), `RequestAsync`, `Schedule`, `WriteEntry`; or
  `RequestSync`, the load, `Recheck`, `Register`, `LookAgain`, `Waited`.
- `PlayableWorker`: `ReadEntry`, `HandleRequest`.
- `DoLoadInfo`: `GetRequest`, `BeginUpdate`, `Decode`, `Extend`, `Lock`, `UpdateInfo`,
  `Commit`, `Confirm`, `Drop`, `Decide` (which may go back to `GetRequest`), `Raise`.
- `Playable::Invalidate`: `Invalidate`, `Unconfirm`, `Report`.

Where `InfoState` splits a word access further (`GetRequest`, the two request words of
`EndUpdate`), `InfoLoad` takes one step: these interleavings are `InfoState`'s. An event is
delivered in one step under the object's lock.

### DelegateEvent

One event with its list of delegates (`Deleg`, `Link`, `Ev`) and its list of iterators
(`Iter`, `IterLink`, `Next`; an iterator has the name of the thread on whose stack it
lives). `Delegates` are also the threads that own them, `Notifiers` raise the event.
A push is one step (the exchange loop publishes an element that
nobody else can reach before). What runs under the mutex is one step except where
an unlocked access can interfere: the removal of the head, of either list, reads
it in one step (`FindHead`, `LeaveHead`) and overwrites it in another
(`UnlinkHead`, `WriteIter`), as a push needs no mutex. The notification is
`RegisterIterator`, `ReadDeleg`, `SetNext` (the constructor, unlocked), `Fetch`
(`next`), `Call` (the second test of `Ev`), `Return`, and the destructor. A
handler may detach its own delegate, as `DependencyInfoWorker` and the windows do.

History variables: `due[n]` holds the delegates notification `n` has still to call. `lost`
holds delegates that registered between the two halves of the removal of a head, which
overwrites them. `blind` holds notifications that a deregistration cannot know: they are not
registered yet, were lost like a delegate, or are between `ReadDeleg` and `SetNext`; they
may go on at an unlinked delegate and miss the rest. `ListOfRegistered` and
`AllCalled` are stated for the others, so the two sets are exactly the windows in
which the code gives no guarantee.

### DependencyInfo

A job lacks information of other objects. `plans` are the alternatives it was given,
`Joined(plans)` what `DependencyInfoSet::Join` makes of them: a mandatory and an optional set. A plan without dependencies is not
committed (`Plan`), and a job whose plans are joined to nothing is not waited for (`NothingIn`).
`Start` takes a mandatory entry (`CheckMandatory`), attaches the one delegate (`Attach`), looks
again (`Recheck`) and either leaves or goes on; when no mandatory entry is left it attaches
one delegate to each optional one (`AttachOptional`, `CheckOptional`). The event of an object calls
`MandatoryInfoChangeEvent` (`Reduce`, then `Detach`, both without the mutex) or
`OptionalInfoChangeEvent`; whoever detaches the delegate goes on with `Start`. `OnCompleted`
deletes a `RescheduleWorker` and leaves a `PostMsgDIWorker` to its window, which may cancel.
The thread that loads an object and raises its event has the object's name.
Attaching, detaching and visiting a delegate are one step each; a notification decides to call in
one step and the handler begins in another, so a handler may find its delegate detached (`stray`).

### SharedPointer and IntPtr

`SharedPointer` is a pointer that threads read and exchange atomically; an object is deleted
with the last reference. `IntPtr` has what the code has: `Data` is a pointer with an outer count in its low
bits, `Count` the object's own count with `ALIGNMENT` units per reference. `acquire` is `NotNull`,
`Increment`, `CountIn`, `ResetOuter`, `Undo`; assignment, `swap`, `reset` and the hand-over to C code
exchange `Data` and then release the old value with its outer count, or transfer it. `MaxOuter` bounds
the reads that overlap without a reset of the outer count; the refinement mapping ignores the counts.

### AsyncBuffer

A byte of the file is its position, so "the right bytes" can be stated. All that happens under `mtx_access` is one
step, but copying, which is one step per chunk with the mutex held. Reads and seeks of the underlying
stream begin in one step (the stream writes into the ring there and then) and are
counted in in another (`BeginRead`, `EndRead`; `BeginSeek`, `EndSeek`); they return short, at the end of
the file, or fail. The owner's calls are serialized by the handle, `xio.cpp`. History variables: `lost`
(`evt_read_data` was reset with a seek pending), `slipped` (a read failed after copying), `brim`
(a seek that arrived during a read ended behind the last byte of a full buffer). A stream may tell its end together with its last bytes
(`xio_http.cpp:389`) or with none.

### Controller

One record `p` is the state of the player, and a handler is an operator from a state to the set of states it
may end in, so that handlers call each other as in the code (`MsgNavigate` → `NavigateCore` → `DecoderStart`
→ `DecPlay` ...); a failure of decoder or output adds a result. Each
message is one action of the worker. The decoder commits one block per song (`Commit`), ends it by its stop position, by
`PLAYSTOP` or by an error; the output plays blocks and tells the end of its data; all these
post to the queue of the controller, so they may be handled after a command that made them
obsolete. `CheckPrefetch` shortens the list by `OutPlayingPos`.

A handler is one step unless the decoder or the output may do something on its way that they could not do before it. Then it is cut, and `todo` says what is
left of it:

- `MsgNavigate` and `MsgSkip` to another song (`controller.cpp:509` to `:542`): `NavigateOther` tells the decoder to stop (which does not wait, `glue.cpp:337`)
  and trashes the buffers; `ResumeNavigate` clears the list and stores the next entry, which begins at `MaxPos`; `ResumeStart` waits for the decoder that was left and
  starts the next one. In between that decoder may still commit, since `GlueCommitBuffer` looks at `Initialized` only and a decoder at its own pace.
- a seek while the decoder has quit: the decoder is started again, and may commit before `ResumeTrash`.
- `OutClose`: the output is closed, then the decoder is waited for (`ResumeClose`); it gets no buffer any more and may post that.

While `todo` is `navigate`, `start` or `close`, `dec` is the decoder that is being waited for. `MsgDecStop` waits before it does anything else, so nothing can come in
between that could not come before it.

History of the playback, which no step depends on: `late` (a song has ended while the list had more entries) and
`wrong` (another entry than the last one was started) are two ways in which the
code breaks its own rule that the last entry is the one that is decoded. `stale` says that the block being played is of a song that had been left: it was committed behind
the trash and has no entry. `astray` says that such a block also was behind the begin of the next song, which had been computed before the block was committed. `ListCovers` and
`SongsInOrder` leave out a stale block itself, and what follows `late`, `wrong` and `astray`; see the divergences below.

### Playlist

`Items` is the linked list, `RefTo` and `Index` are members of its entries, `after` is the `Next` that an entry keeps
when it was removed while a thread holds it. An edit holds `Playable::Mtx` from its test of `IF_Child` to its end and is one step.
`Renumber`, `Settle` (removal, and what reference counting does) and `UpdateCollection` are operators that the edits share
as in the code. A load is `LoadBegin`, `DecoderFileInfo` and `LoadCommit` (the part of `DoLoadInfo` under the mutex); it may lose flags to
`Invalidate` in between. `GetNext` has no mutex and is two steps, reading `Next` and taking the reference (`Take`). `Save` is an iteration
(`Iterate`, `GetNext`, `Take`), then `SaveFile` and `SaveDone` (`SetModified`). History variables: `saved` (the content of the last load or Save),
`touched` (the list has been changed since Save began), `lost` (such a change is not marked as modified), `skewed` (the number of items has been
counted in different ways).

## Runs

| run | instance | question |
|---|---|---|
| `queue` | 3 entries, 3 levels, 2 readers of different level | does the pointer structure implement the list, lose no wakeup, serve its readers? |
| `infostate` | 1 flag, 3 loaders, 2 clients | is a kind loaded by one loader at a time, is a flag in service backed by a loader, is a request kept? |
| `infoload` | 1 kind, a normal and a dialog worker, a normal and a low client, 1 changer, 1 change | is a request at normal priority ever forgotten, and does its event come? |
| `infoload_kinds` | 2 kinds, 2 askers, 1 changer, 1 change per kind | when can confirmed information be outdated? |
| `events` | 3 delegates, 2 notifiers | does one thread remove a delegate, are both lists right, is every delegate called? |
| `dependencies` | 3 objects, 2 kinds, 7 sets of alternative plans | do the joined plans ask for no more than each alternative, is a job completed once, not too early, and in the end? |
| `dependency_lost` | 1 object, 2 kinds | is a job completed without exception? It is not (violation) |
| `intptr` | 3 threads, 2 objects, at most 2 overlapping reads | are all counts exact, is `SharedPointer` implemented? |
| `intptr_freed` | 3 threads, 1 object, 3 overlapping reads | does an object live as long as a reader is about to count it in? It does not (violation) |
| `buffer` | file of 5, ring of 3, blocks of 2, reads of up to 2, 1 failure | right bytes, right end of file, pointers that agree, calls that return? |
| `controller` | 2 songs, the second with a stop position, with and without Repeat, up to 2 commands and failures | does the list fit what is decoded and played, is the order right, does playback end? |
| `playlist` | 2 songs, edits of up to 4 entries; with a loader and Save up to 2 entries | are indexes and number right, are lists built as intended, is Save faithful, is what is unsaved marked? |

The two violations are findings in `PROJECT.json`, with the sentence of the documentation or comment that each
contradicts:

- `dependency_lost`: the second check in `Start` (`dependencyinfo.cpp:299`) updates the entry only, not
  `NowWaitingFor`. Of two kinds of an object, one that arrives between the two checks is waited for although its event is over; the
  job is never rescheduled, and with it the request that depends on it.
- `intptr_freed`: with an outer count of three, which two low bits hold, the own count reaches zero while readers are on their way,
  and the object is deleted under them (`smartptr.h:273` to `:279`). With two overlapping reads the counts are exact.

### Bounds

- `queue`: three entries fill three levels in every distribution, and put two into one
  level with another beside it; the cases of the tail loops (own tail, shared tail, empty
  list) need no more. Two readers are enough for one to take what woke the other.
- `infostate`: the flags are independent bits, and no operation relates two of
  them, so one flag shows what a word does. Three loaders allow a second and a
  third one to follow one whose flag was invalidated.
- `infoload`, `infoload_kinds`: `MaxVersion` bounds the changes of the source. Kinds are not independent here, since
  a round commits some and loses others; the run with two kinds has
  only loaders that need no queue, as the queue multiplies the states. The proofs cover any number of both.
- `events`: three delegates give a head, a middle and an end of the list, two notifications a head
  and another one of the iterators. Delegates can be registered and raised any
  number of times; no counter is bounded.
- `dependencies`: the sets of plans are one plan, plans that overlap, plans that are alike, plans that exclude or contain each
  other, with one or two kinds per object, and three plans. The theorems cover any number of objects, kinds and plans.
- `intptr`: `MaxOuter` is the bound that matters, as `intptr_freed` shows; three threads and two objects let a reader, a writer and a
  releaser meet while the pointer is exchanged for another object and back.
- `buffer`: the data wraps around in a ring of three, blocks of two end short at the end of the memory, a file of
  five does not fit into the ring, and one failure is in any place. The proofs cover all sizes and any number of failures.
- `controller`: two songs have a first and a last one, Repeat closes the circle; two commands are a navigation during another
  one's consequences, but of two songs each one follows the other, whatever the
  user navigates to. Three songs with the same bounds were checked as well (liveness without Repeat), and three interventions without Repeat for the safety properties;
  that instance reaches the play after a failure of the output named below. The proofs have no bound, and any number of songs. `Capacity` 1 has two songs in the output at once, the
  least that makes the prefetch list matter. `MaxTime` and `MaxList` bound a playlist that repeats for ever.
- `playlist`: four entries are the two ends of a range to be renumbered and one on either side; two songs give lists with a song twice or
  more, which the search for entries to recycle has to tell apart. Edits are sequential (they hold the mutex), so that size is checked
  without other threads (`MaxLen`); with a loader and Save the list has up to two entries (`MaxShared`), and five
  addresses leave room for a load that replaces both while a reader holds a third. `MaxText` ends an iteration that
  moves keep going. A load begins with the children and extends to the rest, and the children may be invalidated.
- Symmetry is used in runs without liveness only.

### Fairness

Weak fairness always means that a thread goes on with what it has begun, as the
scheduler of OS/2 serves all threads of the process. Nobody has to request, change, seek, press a button
or fail.

- `queue`: each reader. `InfoLoad`: workers, askers while they load or wait, clients until their request is scheduled, and `Invalidate`. Strong
  fairness for the mutex is not needed: the changes are bounded, so the contention ends.
- `DependencyInfo`: each thread for `Start` and its handlers, and the loading of each object: what a job depends on has been requested, and
  `ClientsAnswered` is that such a request is answered.
- `AsyncBuffer`: the read-ahead thread and the owner inside a call; the stream answers a read or a seek.
- `Controller`: the controller's thread, the decoder, the output, the timer that polls the position while something plays, and `Uninit` once it has
  begun.
- `InfoState`, `DelegateEvent`, `IntPtr` and `Playlist` state safety only.

Deadlock is checked in `queue`, `infostate`, `events`, `intptr`, `playlist`, which never stop. The others really may
stop: all information is there and no changes are left, the job is completed, the stream is closed, the program has ended.

## Proofs

All results are for any values of the constants (any number of entries, levels, readers, flags, loaders,
clients, delegates, objects, any sizes), under the assumptions the modules name. `PROJECT.json` lists the theorems with the properties they state.
None of the properties is inductive; each proof module defines the invariant that is.

`PriorityQueueProofs`: `TypeCorrect`, `ListWellFormed`, `TailsAreCumulative`,
`WakeupsReliable`, `ListStaysIntact`, `PriorityListImplemented`. `Take` stores `next[head]`, so
even its type depends on the whole list. `WellFormed` therefore says that the pointers
represent some sequence `s` of `n` different entries, and that `tail[p]` is the
entry `c[p]` of it, where `c` does not decrease from level to level and ends with `n`; it
needs no recursion along `next`. Each operation preserves it because the new `s`, `n`
and `c` can be named: `Write` and `WriteFront` insert at one place and
lengthen the counts from their level on (`LinkRepresents`), `Take` shifts `s` and
decrements the counts (`TakeRepresents`). The lemma `SharingIsEqualCount` ties the loops
over equal tails to the levels of equal count. `Held` keeps the entries of readers out of
the list. Cumulative tails follow from it, and that no wakeup is lost needs it too.
What `ForEach` and `Check` make of such a list is a lemma about the functions along `next`; with it each operation on the pointers is the
insertion, removal or purge of `PriorityList`, at the place where that has to be (the refinement), for a finite number of entries.

`InfoStateProofs`: `TypeCorrect`, `ServiceBacked`, `LoadersExclusive`, `RequestsKept`.
`Exclusive` is not inductive: `BeginUpdate` has to know that a flag which is not in
service has no holder unless it was torn (`Served`). `RequestKept` is not either: the
steps of `EndUpdate` that drop a request are right because the flags they drop are
confirmed or spoiled (`Covered`), and a confirmed flag is not owed (`Settled`).

`InfoLoadProofs`: `TypeCorrect`, which includes where the object's mutex is held, `ConfirmedIsFresh` and `NoRequestForgotten`. The invariant of the second is stated flag by flag, for those
that are not tainted (`Good`): one loader has the flag for itself until `Commit` (`OneUpdater`), only it writes it (`Writes`); what
it has read is up to date while the flag is in service, except for changes that are announced but not
through with `Invalidate` (`DataFresh`), because `Invalidate` takes a flag out of service before anything else; once it is out of
service nobody confirms the stale data (`LeftService`, `ToConfirm`).
The third is stated for one kind, as the property needs it, and at least one worker (`configuration.h:151`). Its invariant `RequestInv` says that a request is served without
regard to the entries of the low level (`Served`), that the bit of the normal level is set only while somebody is going to reset it
(`BitServed`), that what is in service is held by a loader (`ServiceHeld`), so that a loader which finds a kind in service may leave it, and that no
loader begins a round with something loaded (`NothingLoaded`). Only the last needs that there is one kind.

`DelegateEventProofs`: `TypeCorrect`, `DetachExclusive`, that one thread removes a delegate, and what the two lists are good for:
`IteratorsOfRunning`, `ListIsOfRegistered`, `AllAreCalled`. The second needs that
`Ev` stays reset while the removal is under way (`Claimed`): only the owner attaches the
delegate again, who is at no other delegate (`OwnerAtOwn`), and only when no
handler is still at the last registration (`Fresh`). The lists are handled as the least set that contains the head and that no
link leads out of (`ReachedLeast`), which needs finitely many delegates and notifications (`FiniteAssumption`); what a push, the removal of
the head and the unlinking of a later element make of an acyclic list are three lemmas (`Pushed`, `Popped`, `Bypassed`).
`IterInv` is about the iterators, `ListInv` about the delegates: with what the definition of `ListOfRegistered` says it contains that there is no
cycle, that a delegate to be registered is referred to by nobody, and that in front of a head that is being
removed are only delegates which are lost (`HeadLost`). `CallInv` says where a notification may be while others remove elements: what it has
to call is ahead of it (`Covered`), it is never at an element that is being removed, and never in front of a head that is.

`DependencyInfoProofs`: `TypeCorrect`, `CompletesOnceOnly`, `NeverTooEarly` and `OneAlternativeIsEnough`. The right to go on with a job is a token (`Token`): one thread that is active has it, or the
one delegate while it is attached, or the delegates of the optional entries together. Whoever detaches the delegate gets
the token, and `OnCompleted` takes it away for good. A handler whose delegate is detached already would make a second token: both theorems
exclude such jobs (`stray`). That no job is completed too early (`Progress`) holds while somebody has the token: of a mandatory entry that has left the
set nothing is missing but what `NowWaitingFor` still has of the one whose delegate is attached (`Checked`), and an optional entry keeps
all that is missing of it until one of them completes the job (`ToChoose`).
`OneAlternativeIsEnough` is about `Join` and holds for any number of plans: the fold is a recursive function (`JoinedIs`), and its
invariant `Serves` says for each plan taken so far that it contains the mandatory set and, if there are
optional entries, one of them (`JoinServes`). This is where the three conditions of `AlternativeSuffices` come from.

`PlaybackProofs`, about `Controller`: `DecoderAtLast`, `ListAlwaysCovers`, `SongsFollow`. The invariant has two parts. `Consistent` holds whatever has
happened: a closed output has nothing to play, a block that waits needs one that is played, an open output has a list, and the decoder works
on the last entry unless `wrong`. It is what lets a handler find the output, the decoder and the list in any
combination that the failures leave. `Music` is about the blocks that the output has (`Heard`, which leaves out a stale one), and none of its parts is inductive alone:
the list covers them; they end before the decoder's next block (`Below`), so that an appended entry begins behind all of them;
their positions do not decrease, so that `CheckPrefetch`, which drops what begins no later than the block that is played, keeps the entries of the others;
each song is the one that follows (`InOrder`), and so is the one that the decoder has begun but not delivered (`Goes`). A stale block begins no later than
what follows it (`Leads`), or the playback is `astray`. `Music` holds while no handler is interrupted; what the rest of one relies on is part of `Consistent` (between a
navigation and the start of the next decoder there is no block but a stale one, of a decoder that has no other) or is `Trashing` (after a restart by a seek the
list has one entry, which covers all blocks). That the next song is
taken from `Current()` is right only when that is the last entry, which is where `late` comes from (`NextCovered`). Each handler has a lemma that all
its results are `Good`, in the order in which handlers call each other: those of `DecoderStart` (`DecoderStartIs`, from what `Ready` demands of its callers) serve
play, navigation, skip and the end of a song. `After` adds that a handler never changes what is played but to nothing, so that only
`PlayBlock` remains for `SongsFollow`.

`PlaybackProofs`, about `AsyncBuffer`: `RingAlwaysConsistent`, `BytesAtPosition`, `EofAtEnd`. The first rests on `Numbers`, `Ring` and `Ahead` (what is being read has room), and on one
lemma of ring arithmetic, `MoveTwice`. The content needs more. `Base` is the position in the file of the first byte in the ring, counted
back from where the owner is; the ring holds the file from `Base` on (`Content`), what the stream delivers continues it
(`Fetched`), and the position of the stream is behind it (`Linked`), unless the stream has been moved for a seek or the ring
was emptied for one (`Moved`, `Stale`). The hard part is `Pending`: a seek that is answered by an event meant for something else
finds no old data in the ring, since whoever posts the event has emptied it before, unless a seek was lost.

`IntPtrProofs`: `TypeCorrect`, `CountsAreExact`, `NothingLeaks` and `ReferencesKeepAlive` (of `SharedPointer`: an object exists exactly as long as it is referenced), for any
number of threads, objects and overlapping reads, and `OperationsAreAtomic`. The invariant is `TypeOK`, `CountExact` and `NothingLeft` (what exists is referenced). The own count of an object
is a sum over all threads (`CountExact`), of which a step changes the part of one thread; the lemmas about sums over a finite set come first,
by induction over its subsets. The counts are exact whatever overlaps, and nothing leaks: without a reference the sum is zero. The converse is the hard part: may
a thread that sees the count at zero conclude that nobody refers to the object? A
reader between `Increment` and `CountIn` contributes -1 (`Uncounted`), and a read that has not been undone `ALIGNMENT` less what it has counted in advance for others (`Ahead`). Enough
of the former make up for one of the latter (`Crowded`), and nothing in the code prevents it: `intptr_freed` gets there. `OperationsAreAtomic` therefore says of each step that it is one of
`SharedPointer`, or leads to a crowded state; it constrains the states, not the number of threads. In the run `intptr`, two overlapping reads cannot crowd an object of alignment
four, so there `ImplementsSharedPointer` holds as it stands.

`PlaylistProofs`: `TypeCorrect`, `IndexIsPlace`, `RearrangesAsOrdered`, `LoadsAsRead`, `UnmodifiedWasSaved`, all the properties of `playlist`, for any songs,
files, loaders and readers and lists of any length. Two hypotheses: `Entries` is infinite, since the code allocates a new entry whenever it needs one and running out of memory is no matter of
this model, and `Readers`, the threads, are finitely many; so there is always a free address (`FreeIs`). `PlaylistAssumption` says that a song is no entry, which the type system of the code guarantees.
The first invariant, `TypeInv`, adds to `TypeOK` that an entry exists only if it is in the list or held, otherwise a new entry could be one that a list still has.
From it follows for each edit what the list is afterwards (`InsertEdits`, `MoveEdits`, ...); these rest on what the operators on lists return
(`WithoutIs`, `InsertIs`, `MoveIs`, `RenumberIs`). `IndexConsistent` is inductive with it: the three ways in which the edits renumber come to the same
as numbering from the beginning. `UpdateCollection` is a fold, which is known as a function on the numbers of the items taken so far (`FoldExists`); its
invariants are `FromOrder`, for Sort and Shuffle, and `FromSongs`, for a load, with `Thrifty`: while the old list has entries of a song left, no new
one is made for it. The second invariant, `SaveInv`, is what `UnmodifiedIsSaved` needs: unless the list was touched, the text Save has
written is the songs of the list up to the entry it holds, what it has found is the successor of that one (`Writes`), and between writing
the file and resetting the mark the list is what was written (`SaveEnds`).

Only model-checked is liveness, which is out of the prover's reach: `ReaderServed`, `ClientsAnswered`, `CompletesUnlessSplit`, `CallsReturn`, `PlaybackEnds`. Every
invariant and every action property of a passing run has a theorem, but for `ImplementsSharedPointer`: that holds under the bound of its run, and `OperationsAreAtomic` is what
holds without one.

## Known divergences without a run

Behaviours that the models have, beyond the two findings. The properties leave them out by a history variable or a bound, as
named.

- `event.cpp:119` to `:124`: `operator-=` reads the head of the list and later overwrites it while a push needs no mutex. A delegate that
  registers in between is never called (`lost`). The same holds for the list of iterators (`blind`).
- `event.cpp:236`: `detach` reads `Ev` for its test and again for the call. If owner and handler detach at once the second read may be NULL; `operator-=` then
  finds the exchanged value equal to `this` and locks a mutex at NULL. The model has one exchange, and nothing after the fault.
- `detach` does not wait for a handler that is running or about to run. `DependencyInfoWorker` then reduces what it waits for by an event of
  an object it no longer waits for, and may go on too early (`stray`).
- `infostate.cpp`: an `Invalidate` between the two halves of an `EndUpdate` takes the confirmation away after the requests
  were looked at, so a request made meanwhile may be dropped unfulfilled (`spoiled`).
- `playable.cpp:442`: `Extend` takes a flag into service after the decoder has read the source; a change in between is
  overwritten and confirmed (`tainted`).
- `playable.cpp:464`: `args.Loaded` collects the flags of all rounds of the retry loop. A flag that was committed in the first round and lost in a
  later one is not retried and stays in `ReqHigh`, which turns later requests for it into no-ops. `RequestsOnTheWay` needs one kind because of it.
- `waitinfo.cpp:98`: the waiter looks at the state when the event arrives. If that was invalidated meanwhile it waits for a load nobody has
  requested.
- `DependencyInfoSet::Join` with a third plan keeps optional entries although the mandatory ones are a plan on their own ({a,b}, {a,c}, {a}), and merges the
  kinds that two plans want of one object. `AlternativeSuffices` excludes both.
- `dependencyinfo.cpp:207`: of three plans without a common object, as {a}, {b}, {c}, nothing remains. The first two leave an empty mandatory set; that is
  taken for a subset of the third plan (`outer` is 1), and the optional entries are intersected with the empty set. `aplayable.cpp:392` then
  makes no `RescheduleWorker`, and the request is never looked at again; a fourth plan would start anew. `dependencyinfo.h:130` says: "Dependencies that occur only in one of the
  operands (optional or mandatory) are optional." `NothingIn` excludes these jobs from `AlternativeSuffices` and `CompletesUnlessSplit`.
- `xio_asyncbuffer.cpp:160`: the event of the read-ahead thread is reset at the end of the file though a seek is pending (`lost`); `:292`: a read
  that fails after copying has taken the data but not moved the position (`slipped`); `:285`: the owner takes the end from `data_end` and from the state of the stream, which
  is not under the mutex. After a failure of the stream `data_end` stays set, so a read of it which is under way and meets the end together with its last bytes (`xio_http.cpp:389`) makes
  the owner report the end before it got them (`EofRight` leaves out streams that have failed and not been sought since); `:141`: after a seek to
  the end of a full buffer the owner waits for data and the other thread for room, in a loop (`brim`).
- `controller.cpp:1101` (a TODO there): a `DecStop` in the queue is taken for the end of whatever is decoded when it is handled. A song with a stop position posts
  one and the error that follows another one.
- `controller.cpp:525`: `NavigateCore` trashes the buffers while the decoder that is left still runs; `DecClose` waits for it only at `:542` (`glue.cpp:277`). `DecStop`
  does not wait, as `doc/pdk/decoder_command.html` asks, `OUTPUT_TRASH_BUFFERS` releases a decoder that waits for a buffer, and `GlueCommitBuffer` tests `Initialized` only
  (`glue.cpp:606` passes the block on; `oggdecoder.cpp:320` and `flac123/decoder.cpp:459` commit without a look at the stop flag). A block of the old song is then played after the trash, without an entry
  of its own, and before a song that need not be its successor (`stale`). It also changes `MaxPos`, so the next entry begins behind it or, if it comes between the computation of the entry and the wait,
  in front of its end (`astray`).
- `controller.cpp:1135`: the next song is taken from `Current()`, which is right only if the position has been polled since the last change
  of songs (`late`); `gui.cpp:711` knows of this dependence. `controller.cpp:509`: seeking while the decoder has quit restarts `Current()` in place of the
  song that was compared with, and sets `Scan` (`wrong`).
- `controller.cpp:1160`: a failure of the output between two songs is ignored by `MsgDecStop`. The decoder runs without one until it gets no buffer
  (`DecodesLast` is stated for an open output, or without failures), and the list keeps the entries of both songs though playback has ended. A
  later play starts the first of them and leaves the other one behind it (`wrong`).
- `controller.cpp:1326` to `:1328`: `Uninit` empties the prefetch list before it detaches the events. The end of the data in between makes
  `MsgOutStop` call `Current()`, "@pre an object must have been loaded" (`controller.cpp:106`), with nothing loaded; the model ignores the message then.
- `playable.cpp:951`: `InsertItem` into a list that is no playlist sets the number of items to one though entries of the time when it was one
  may be left in the list (a loader clears the attribute, not the entries); an edit needs only that no load has the children, so it may count up or down what a
  load has just overwritten (`skewed`). In such a list `RenumberEntries` (`:845`) may be called with NULL for the first entry and another end, and follows NULL; the model leaves the
  indexes as they are. `:447`: what a decoder returned is stored although its flags may not be in service any more.
- `playable.cpp:894`: reloading a list of two or more entries that has not changed reports a change, since only the last entry not recycled yet is compared.
- `playable.cpp:1197`: `Save` resets the mark as modified after it has written the file, so an edit meanwhile stays unsaved and
  unmarked (`lost`). The list may also be written in a state it never had (`touched`).
- `playable.cpp:240`: `GetNext` takes its reference after it has read the pointer, without the mutex; the entry may be removed and deleted in between. The model
  ends the iteration there.
- Outside the models: a bad line of a playlist is skipped but counted (`playable.cpp:749`); `RemoveItem` returns NULL when it fails, `playable.h:311` says the
  item; the semicolon in `collectioninfocache.cpp:119`.
- Outside the models: `MsgPlayStop`'s reset of retain-on-stop is overwritten by the reply of `SetFlag`; `CheckPrefetch` in queue mode removes the item of the
  first entry only; `cmpassign` (`smartptr.h:382`) passes the value of `Data` for its address, but nothing instantiates it.

## Not modelled

- In `InfoState`: the cached reliability level (`Valid`, `Cache`), and `Available` and `Outdate`, which nothing uses.
- In `InfoLoad`: cached information and `REL_Reload`; aggregate
  requests and the second half of `DoLoadInfo` that computes them; the scheduling of
  `PRI_TrySync`; the unlocked `Filter &= ~what` of two notifications at once; start and end of the workers.
- In `DelegateEvent`: `reset` (the destruction of the event), which unlinks the iterators
  without resetting their `Next`; `sync`, whose slow loop waits
  until a notification runs instead of until none does; a handler that detaches
  another delegate than its own. A recycled delegate is a new object: the name is
  reused only when nothing refers to it, so what a dangling pointer does is not shown.
- In `PriorityQueue`: what `ForEach` reads behind the last level (`priority_queue.cpp:210` has no bound); the model stops there.
- In `DependencyInfo`: exclusion lists and entries of aggregates, `QueueTraverse`, the second start of a `PostMsgDIWorker`. What is available
  stays so.
- In `IntPtr`: more threads than three; counts wrap around only in `unsigned` arithmetic that the signed numbers represent.
- In `AsyncBuffer`: bytes that `xio_http.cpp:386` drops when a read of a stream with titles fails behind them; size queries and `chsize`, thread priorities, observers of meta data, a failing `Init`. The bound of
  the obsolete data, 512 bytes in the code, is a constant.
- In `Controller`: nested playlists and a song as root, scan and reverse, volume, pause, save, shuffle, queue mode, positions within a song, the events of the
  controller, threads that wait for a command, the 30 s after which a decoder is killed or given up, a commit between the failure of `OUTPUT_OPEN` and
  the reset of `Initialized`. Decoders and outputs are external: they do
  what `glue.cpp` and the plug-in interface ask of them.
- In `Playlist`: properties that an entry overrides, events and the requests that lead to a load (which are `InfoLoad`'s), bad lines of a file, several
  loaders at once, Save under another name, SetMetaInfo and SaveMetaInfo, the repository. The entry of a song that shares a name with another one is chosen
  by the least free address.
- Components marked `not_modelled` in `PROJECT.json`, with the reason there: mostly sequential containers, windows, parsing, device I/O and signal
  processing, and third party code, which is the bulk of the repository's lines.

## What is left

In order of interest: the repository (`playable.cpp`: `GetByURL` against `Cleanup`); aggregate information
(`collectioninfocache.cpp`); start and end of the worker pool with its pills and timeouts; `reset` and `sync` of events; nested playlists and scan in
`Controller`. To be proved remains the liveness, with another prover.
