------------------------------ MODULE Playlist ------------------------------
(***************************************************************************)
(* The children of a Playable (core/playable.cpp): a list of entries that  *)
(* clients edit, loaders replace by the content of the file, Save writes    *)
(* back to it, and anybody iterates over without the mutex.                *)
(*                                                                         *)
(* An edit holds Playable::Mtx from begin to end and is one step; one that *)
(* finds IF_Child in service changes nothing.  A decoder of playlists      *)
(* (plist123) always delivers children, number of items and attributes     *)
(* together.  The object is no song.  The properties an entry overrides,   *)
(* events and the requests are left out: a load may begin at any time.     *)
(***************************************************************************)
EXTENDS Integers, FiniteSets, SequencesExt, FiniteSetsExt

CONSTANTS
  Songs,          (* what an entry may refer to                            *)
  Entries,        (* addresses of entries                                  *)
  Files,          (* contents of the file, NULL if there is no playlist     *)
  Requests,       (* the sets of kinds a load may begin with                *)
  Invalidations,  (* and those that are invalidated together               *)
  Loaders,        (* workers in DoLoadInfo of this object                  *)
  Readers,        (* threads that iterate                                  *)
  Saver,          (* the one of them that is in Save                       *)
  MaxLen,         (* bound of the list if nobody loads or saves it,        *)
  MaxShared,      (* and if somebody does                                  *)
  MaxText,        (* and of what Save writes: moves can keep it going      *)
  NULL

ASSUME PlaylistAssumption ==
  /\ Requests \cup Invalidations \subseteq SUBSET {"Child", "Obj", "Tech"}
  /\ Entries \subseteq Nat /\ NULL \notin Entries \cup Songs /\ Songs \cap Entries = {}
  /\ Files \subseteq Seq(Songs) \cup {NULL}

VARIABLES
  Items,          (* PlaylistData::Items                                   *)
  RefTo, Index,   (* of each entry; NULL and 0 if it does not exist        *)
  after,          (* Next of an entry that has been removed but is held    *)
  num_items, playlist, Modified,   (* Info.Obj, TATTR_PLAYLIST             *)
  InService,
  saved,          (* the songs of the last load or Save; history           *)
  at, upd, read,  (* per loader: where it is, its Update, what it has read *)
  cur, found,     (* per reader: the entry it holds, what GetNext found    *)
  text,           (* what Save has written                                 *)
  touched,        (* Save cannot see the list as it was; history           *)
  (* History variables, no step depends on them: *)
  skewed,         (* the number of items has been counted differently      *)
  lost            (* Save has written the list as it was at no time        *)

list    == <<Items, RefTo, Index, after, touched>>
info    == <<num_items, playlist, Modified>>
loading == <<upd, read>>
reading == <<cur, found, text>>
history == <<skewed, lost>>
vars    == <<list, info, InService, saved, at, loading, reading, history>>

Flags == {"Child", "Obj", "Tech"}

Goto(t, label) == at' = [at EXCEPT ![t] = label]

(***************************************************************************)
(* Operators named ...Mutant are faulty variants of the operator that      *)
(* follows them.  No specification uses them: each shows that a property   *)
(* notices the fault.                                                      *)
(***************************************************************************)

(***************************************************************************)
(* The list.                                                               *)
(***************************************************************************)

Pos(s, e) == CHOOSE i \in DOMAIN s : s[i] = e

NextOf(s, e) == IF e = NULL THEN (IF s = <<>> THEN NULL ELSE Head(s))
                ELSE IF e = Last(s) THEN NULL ELSE s[Pos(s, e) + 1]

Insert(s, e, before) ==
  IF before = NULL THEN Append(s, e) ELSE InsertAt(s, Pos(s, before), e)

Without(s, e) == RemoveAt(s, Pos(s, e))

Move(s, e, before) == Insert(Without(s, e), e, before)

\* The last entry in front of to is left out.
RenumberMutant(s, from, to, n) ==
  IF from = NULL THEN Index
  ELSE LET p == Pos(s, from)
           q == IF to = NULL THEN Len(s) ELSE Pos(s, to) - 2
       IN  [e \in Entries |-> IF \E i \in p .. q : s[i] = e THEN n + Pos(s, e) - p ELSE Index[e]]

\* The range [from, to[ of s is counted from n.  Nothing if from is NULL: where to is
\* not, which only a list that has been counted differently leads to, the code follows
\* NULL and faults, so there is no state after that.
Renumber(s, from, to, n) ==
  IF from = NULL THEN Index
  ELSE LET p == Pos(s, from)
           q == IF to = NULL THEN Len(s) ELSE Pos(s, to) - 1
       IN  [e \in Entries |-> IF \E i \in p .. q : s[i] = e THEN n + Pos(s, e) - p ELSE Index[e]]

Free == {e \in Entries : RefTo[e] = NULL}

\* Only the list keeps an entry alive.
SettleMutant(items, s, refTo, index, holders) ==
  LET in   == ToSet(items)
      held == {holders[r] : r \in Readers} \ {NULL}
  IN  /\ Items' = items /\ touched' = (touched \/ items # Items)
      /\ RefTo' = [e \in Entries |-> IF e \in in THEN refTo[e] ELSE NULL]
      /\ Index' = [e \in Entries |-> IF e \in in THEN index[e] ELSE 0]
      /\ after' = [e \in Entries |-> IF e \notin held \ in THEN NULL
                                     ELSE IF e \in ToSet(s) THEN NextOf(s, e) ELSE after[e]]

\* The list becomes items.  Who is in it no more, the last list that had it was s,
\* has no index; it exists, and points to what followed it, as long as it is held.
Settle(items, s, refTo, index, holders) ==
  LET in   == ToSet(items)
      held == {holders[r] : r \in Readers} \ {NULL}
  IN  /\ Items' = items /\ touched' = (touched \/ items # Items)
      /\ RefTo' = [e \in Entries |-> IF e \in in \cup held THEN refTo[e] ELSE NULL]
      /\ Index' = [e \in Entries |-> IF e \in in THEN index[e] ELSE 0]
      /\ after' = [e \in Entries |-> IF e \notin held \ in THEN NULL
                                     ELSE IF e \in ToSet(s) THEN NextOf(s, e) ELSE after[e]]

(***************************************************************************)
(* UpdateCollection.  The content consists of songs, when it was read from *)
(* the file, or of the entries themselves.                                 *)
(***************************************************************************)

GetPlayable(x) == IF x \in Entries THEN RefTo[x] ELSE x

\* Any entry that refers to the same object will do.
RecycleMutant(c, x) ==
  LET same  == {i \in DOMAIN c.old : c.refTo[c.old[i]] = GetPlayable(x)}
      match == IF same = {} THEN NULL ELSE c.old[Max(same)]
      e     == Min({i \in Entries : c.refTo[i] = NULL})
  IN  IF match = NULL
      THEN [c EXCEPT !.new = Append(@, e), !.refTo[e] = GetPlayable(x), !.changed = TRUE]
      ELSE [c EXCEPT !.old = Without(@, match), !.new = Append(@, match),
                     !.changed = @ \/ c.new # <<>> \/ match # Last(c.old)]

\* c.old are the entries not recycled so far, c.new the new content.
Recycle(c, x) ==
  LET same  == {i \in DOMAIN c.old : c.refTo[c.old[i]] = GetPlayable(x)}
      match == IF Contains(c.old, x) THEN x ELSE IF same = {} THEN NULL ELSE c.old[Max(same)]
      e     == Min({i \in Entries : c.refTo[i] = NULL})
  IN  IF match = NULL
      THEN [c EXCEPT !.new = Append(@, e), !.refTo[e] = GetPlayable(x), !.changed = TRUE]
      ELSE [c EXCEPT !.old = Without(@, match), !.new = Append(@, match),
                     !.changed = @ \/ c.new # <<>> \/ match # Last(c.old)]

UpdateCollection(content) ==
  FoldLeft(Recycle, [old |-> Items, new |-> <<>>, refTo |-> RefTo, changed |-> FALSE], content)

Numbered(s) == [e \in Entries |-> IF Contains(s, e) THEN Pos(s, e) ELSE 0]

\* What UpdateCollection returns.
Changes(c) == c.changed \/ c.old # <<>>

\* What was not recycled remains.
ReplaceByMutant(c) == Settle(c.old \o c.new, c.old \o c.new, c.refTo, Numbered(c.old \o c.new), cur)

\* What was not recycled is removed.
ReplaceBy(c) == Settle(c.new, c.old \o c.new, c.refTo, Numbered(c.new), cur)

(***************************************************************************)
(* Editor functions.                                                       *)
(***************************************************************************)

\* What was saved last does not matter any more, unless Save still has to end.
MarkModified(changed) ==
  IF changed
  THEN /\ Modified' = TRUE /\ lost' = FALSE
       /\ saved' = IF Saver \in Readers /\ at[Saver] = "saved" THEN saved ELSE <<>>
  ELSE UNCHANGED <<Modified, saved, lost>>

Alone == \A t \in Loaders \cup Readers : at[t] = "off"

Editable == "Child" \notin InService

\* What is no playlist becomes one, unless its attributes are in service.
InsertItem(song, before) ==
  /\ Editable /\ Len(Items) < IF Alone THEN MaxLen ELSE MaxShared
  /\ LET e     == Min(Free)
         items == Insert(Items, e, before)
         new   == ~ playlist /\ "Tech" \notin InService
     IN  /\ num_items' = IF new THEN 1 ELSE num_items + 1
         /\ playlist' = (playlist \/ new)
         /\ skewed' = IF new THEN Items # <<>> ELSE skewed \/ ~ playlist
         /\ Settle(items, Items, [RefTo EXCEPT ![e] = song],
                   Renumber(items, e, NULL, IF before = NULL THEN num_items' ELSE Index[before]), cur)
  /\ MarkModified(TRUE)
  /\ UNCHANGED <<InService, at, loading, reading>>

\* The playlist is not marked as modified.
MoveItemMutant(e, before) ==
  /\ Editable
  /\ before # e /\ NextOf(Items, e) # before
  /\ LET items == Move(Items, e, before)
         next  == NextOf(Items, e)
     IN  Settle(items, Items, RefTo,
                IF before = NULL \/ (before # NULL /\ Index[e] < Index[before])
                THEN Renumber(items, next, before, Index[e])
                ELSE Renumber(items, e, next, Index[before]), cur)
  /\ UNCHANGED <<info, InService, saved, at, loading, reading, history>>

MoveItem(e, before) ==
  /\ Editable
  /\ before # e /\ NextOf(Items, e) # before
  /\ LET items == Move(Items, e, before)
         next  == NextOf(Items, e)
     IN  Settle(items, Items, RefTo,
                IF before = NULL \/ (before # NULL /\ Index[e] < Index[before])
                THEN Renumber(items, next, before, Index[e])
                ELSE Renumber(items, e, next, Index[before]), cur)
  /\ MarkModified(TRUE)
  /\ UNCHANGED <<num_items, playlist, InService, at, loading, reading, skewed>>

RemoveItem(e) ==
  /\ Editable
  /\ Settle(Without(Items, e), Items, RefTo,
            Renumber(Items, NextOf(Items, e), NULL, Index[e]), cur)
  /\ num_items' = num_items - 1
  /\ MarkModified(TRUE)
  /\ UNCHANGED <<playlist, InService, at, loading, reading, skewed>>

Clear ==
  /\ Editable
  /\ Settle(<<>>, Items, RefTo, Index, cur)
  /\ num_items' = 0
  /\ MarkModified(Items # <<>>)
  /\ skewed' = FALSE
  /\ UNCHANGED <<playlist, InService, at, loading, reading>>

\* Sort and Shuffle.
Rearrange(order) ==
  /\ Editable /\ Len(Items) > 1
  /\ LET c == UpdateCollection(order)
     IN  ReplaceBy(c) /\ MarkModified(Changes(c))
  /\ UNCHANGED <<num_items, playlist, InService, at, loading, reading, skewed>>

\* A child has been changed by its user.
ChildChangeNotification ==
  /\ Items # <<>>
  /\ MarkModified(TRUE)
  /\ UNCHANGED <<list, num_items, playlist, InService, at, loading, reading, skewed>>

Invalidate(what) ==
  /\ InService \cap what # {}
  /\ InService' = InService \ what
  /\ UNCHANGED <<list, info, saved, at, loading, reading, history>>

(***************************************************************************)
(* DoLoadInfo.                                                             *)
(***************************************************************************)

BeginUpdate(l, what) ==
  /\ InService' = InService \cup what
  /\ upd' = [upd EXCEPT ![l] = @ \cup (what \ InService)]

LoadBegin(l) ==
  /\ at[l] = "idle"
  /\ \E what \in Requests : what \ InService # {} /\ BeginUpdate(l, what)
  /\ Goto(l, "decode")
  /\ UNCHANGED <<list, info, saved, read, reading, history>>

\* Somebody else may have written the file.  That the flags go into service after
\* the file has been read is the matter of InfoLoad, here it is one step.
DecoderFileInfo(l) ==
  /\ at[l] = "decode"
  /\ \E content \in Files : read' = [read EXCEPT ![l] = content]
  /\ BeginUpdate(l, Flags)
  /\ Goto(l, "update")
  /\ UNCHANGED <<list, info, saved, reading, history>>

\* Under the mutex.  All that was read is stored, but the children only if the
\* loader has them in service.  A loader that has lost a flag begins anew.
LoadCommit(l) ==
  /\ at[l] = "update"
  /\ playlist' = (read[l] # NULL)
  /\ num_items' = IF read[l] = NULL THEN -1 ELSE Len(read[l])
  /\ IF read[l] # NULL /\ "Child" \in upd[l]
     THEN /\ ReplaceBy(UpdateCollection(read[l])) /\ Modified' = FALSE
          /\ saved' = read[l] /\ lost' = FALSE
     ELSE UNCHANGED <<list, Modified, saved, lost>>
  /\ skewed' = (upd[l] # Flags)
  /\ InService' = InService \ upd[l]
  /\ upd' = [upd EXCEPT ![l] = {}] /\ read' = [read EXCEPT ![l] = NULL]
  /\ Goto(l, "idle")
  /\ UNCHANGED reading

(***************************************************************************)
(* Iteration with GetNext, and Save.                                       *)
(***************************************************************************)

Iterate(r) ==
  /\ at[r] = "idle"
  /\ Goto(r, "next")
  /\ text' = (IF r = Saver THEN <<>> ELSE text) /\ touched' = (r # Saver /\ touched)
  /\ UNCHANGED <<Items, RefTo, Index, after, info, InService, saved, loading, cur, found, history>>

\* Next is read without a lock.
GetNext(r) ==
  /\ at[r] = "next"
  /\ found' = [found EXCEPT ![r] = IF ~ playlist THEN NULL
                                   ELSE IF cur[r] = NULL \/ Contains(Items, cur[r]) THEN NextOf(Items, cur[r])
                                   ELSE after[cur[r]]]
  /\ Goto(r, "take")
  /\ touched' = (touched \/ ~ playlist)
  /\ UNCHANGED <<Items, RefTo, Index, after, info, InService, saved, loading, cur, text, history>>

\* The entry gets a reference, the one before loses it.
Take(r) ==
  /\ at[r] = "take"
  /\ r = Saver /\ found[r] # NULL => Len(text) < MaxText
  /\ LET e == found[r]
         gone == e # NULL /\ e \in Free
     IN  /\ cur' = [cur EXCEPT ![r] = IF gone THEN NULL ELSE e]
         /\ text' = IF r = Saver /\ e # NULL /\ ~ gone THEN Append(text, RefTo[e]) ELSE text
         /\ Goto(r, IF gone THEN "idle" ELSE IF e # NULL THEN "next" ELSE IF r = Saver THEN "write" ELSE "idle")
  /\ found' = [found EXCEPT ![r] = NULL]
  /\ Settle(Items, Items, RefTo, Index, cur')
  /\ UNCHANGED <<info, InService, saved, loading, history>>

SaveFile ==
  /\ at[Saver] = "write"
  /\ saved' = (IF touched THEN <<>> ELSE text) /\ text' = <<>>
  /\ lost' = (~ Modified /\ (lost \/ touched))
  /\ Goto(Saver, "saved")
  /\ UNCHANGED <<list, info, InService, loading, cur, found, skewed>>

SaveDone ==
  /\ at[Saver] = "saved"
  /\ Modified' = FALSE /\ lost' = touched /\ touched' = TRUE
  /\ Goto(Saver, "idle")
  /\ UNCHANGED <<Items, RefTo, Index, after, num_items, playlist, InService, saved, loading, reading, skewed>>

(***************************************************************************)
(* Specification.                                                          *)
(***************************************************************************)

\* An object nobody has loaded.  A thread that is off does nothing with it.
Init ==
  /\ Items = <<>>
  /\ RefTo = [e \in Entries |-> NULL] /\ Index = [e \in Entries |-> 0]
  /\ after = [e \in Entries |-> NULL]
  /\ num_items = -1 /\ playlist = FALSE /\ Modified = FALSE
  /\ InService = {}
  /\ saved = <<>>
  /\ at \in {[t \in Loaders \cup Readers |-> "idle"], [t \in Loaders \cup Readers |-> "off"]}
  /\ upd = [l \in Loaders |-> {}] /\ read = [l \in Loaders |-> NULL]
  /\ cur = [r \in Readers |-> NULL] /\ found = [r \in Readers |-> NULL]
  /\ text = <<>> /\ touched = TRUE
  /\ skewed = FALSE /\ lost = FALSE

Member == ToSet(Items)

Edit ==
  \/ \E song \in Songs, before \in Member \cup {NULL} : InsertItem(song, before)
  \/ \E e \in Member, before \in Member \cup {NULL} : MoveItem(e, before)
  \/ \E e \in Member : RemoveItem(e)
  \/ Clear
  \/ \E order \in SetToSeqs(Member) : Rearrange(order)
  \/ ChildChangeNotification

Load(l) == LoadBegin(l) \/ DecoderFileInfo(l) \/ LoadCommit(l)

Read(r) == Iterate(r) \/ GetNext(r) \/ Take(r)

Next ==
  \/ Edit
  \/ \E l \in Loaders : Load(l)
  \/ \E what \in Invalidations : Invalidate(what)
  \/ \E r \in Readers : Read(r)
  \/ Saver \in Readers /\ (SaveFile \/ SaveDone)

Spec == Init /\ [][Next]_vars

(***************************************************************************)
(* Properties.                                                             *)
(***************************************************************************)

SongsOf(s) == [i \in DOMAIN s |-> RefTo[s[i]]]

\* The members of the list are different entries that exist, a thread that
\* iterates holds one that exists, and only who is held remembers its Next
\* (core/playable.h:116-151).
TypeOK ==
  /\ Items \in Seq(Entries) /\ Cardinality(Member) = Len(Items)
  /\ RefTo \in [Entries -> Songs \cup {NULL}] /\ \A e \in Member : RefTo[e] # NULL
  /\ Index \in [Entries -> Int]
  /\ num_items \in Int /\ playlist \in BOOLEAN /\ Modified \in BOOLEAN
  /\ InService \subseteq Flags /\ \A l \in Loaders : upd[l] \subseteq Flags
  /\ \A r \in Readers : cur[r] \in Entries \cup {NULL} /\ (cur[r] # NULL => RefTo[cur[r]] # NULL)
  /\ \A e \in Entries : after[e] # NULL => e \notin Member /\ \E r \in Readers : cur[r] = e

CountsRight ==
  /\ num_items = Len(Items)
  /\ \A i \in DOMAIN Items : Index[Items[i]] = i

\* After any sequence of edits and loads the index of an entry is its place, and the
\* number of items the length of the list, although edits, Sort and loads maintain
\* them in different ways - unless a load or an insertion has counted differently.
IndexConsistent == playlist /\ ~ skewed => CountsRight

Loaded(l) == at[l] = "update" /\ at'[l] = "idle" /\ "Child" \in upd[l] /\ read[l] # NULL

Count(s, song) == Cardinality({i \in DOMAIN s : s[i] = song})

\* A load in whose service the children are replaces the list by what was read,
\* and keeps as many entries of each song as it can: iterators that hold them stay
\* valid (UpdateCollection, core/playable.h:201-203).
LoadedAsRead ==
  [][\A l \in Loaders : Loaded(l) =>
       LET new  == read[l]
           kept == {e \in Member : Contains(Items', e)}
       IN  /\ [i \in DOMAIN Items' |-> RefTo'[Items'[i]]] = new
           /\ \A song \in Songs :
                Cardinality({e \in kept : RefTo[e] = song}) = Min({Count(SongsOf(Items), song), Count(new, song)})
    ]_vars

\* Sort and Shuffle put the entries in the order they have chosen, even if several
\* of them refer to the same song (UpdateCollection, "Priority 1").
RearrangedAsOrdered ==
  \A order \in SetToSeqs(Member) :
    LET c == UpdateCollection(order) IN c.new = order /\ c.old = <<>> /\ c.refTo = RefTo

\* What is not marked as modified (core/playable.h:153) is what was loaded last or what
\* an iteration by Save has written, unless it has been edited while Save was iterating, which does not hold
\* the mutex and resets the mark at its end.
UnmodifiedIsSaved == playlist /\ ~ Modified /\ ~ lost => SongsOf(Items) = saved
=============================================================================
