--------------------------- MODULE PlaybackProofs ---------------------------
(***************************************************************************)
(* Proofs about the two ends of a decoder: the controller that starts it   *)
(* (Controller) for playlists of any size, and the buffered stream that it *)
(* reads (AsyncBuffer) for buffers, blocks and files of any size.          *)
(***************************************************************************)
EXTENDS Controller, AsyncBuffer, SequenceTheorems, WellFoundedInduction, TLAPS

(***************************************************************************)
(* The controller.  The inductive invariant CtrlIInv has two parts.        *)
(* Consistent relates decoder, output and list whatever has happened.      *)
(* Music is about the blocks that the output has, in the order in which    *)
(* they will be heard, while no exception of the properties holds and no   *)
(* handler is interrupted: the list covers them, their positions do not    *)
(* decrease, every song is followed by the next one, and the decoder goes  *)
(* on where they end.  A stale block does not count, but it begins no      *)
(* later than those that follow it.  While a new decoder delivers what     *)
(* will be trashed (Trashing) all blocks are of one song.                  *)
(* A handler is an operator from the state of the player to the set of its *)
(* results; for each there is a lemma that every result is Good, and that  *)
(* the output plays what it played before, or nothing (After).             *)
(***************************************************************************)

EntryType == [song : Song, offset : Nat, completed : BOOLEAN]
BlockType == [song : Song, pos : Nat]
DecType   == [song : Song, offset : Nat, status : {"playing", "ended", "stopped"}, done : BOOLEAN, jump : BOOLEAN]

\* Only to navigate needs a song.
TodoType  == [cmd : {"nothing", "start", "trash", "close"}, to : {NoSong}] \cup [cmd : {"navigate"}, to : Song]

Player ==
  [list : Seq(EntryType), seeking : BOOLEAN, LastStart : Song \cup {NoSong}, open : BOOLEAN, dec : DecType \cup {NoDec},
   sent : BOOLEAN, MaxPos : {0, 1}, PlayingPos : Nat, TimeOffset : Nat, buf : Seq(BlockType), now : BlockType \cup {NoBlock},
   flush : BOOLEAN, faults : Nat, todo : TodoType, late : BOOLEAN, wrong : BOOLEAN, stale : BOOLEAN, astray : BOOLEAN]

\* The output has nothing to play.
Silent(s) == s.buf = <<>> /\ s.now = NoBlock /\ ~ s.stale

\* The decoder works on the last entry.
AtLast(s, d) == s.list # <<>> /\ d.song = Last(s.list).song /\ d.offset = Last(s.list).offset

Consistent(s) ==
  /\ s \in Player
  /\ ~ s.open => Silent(s)
  /\ s.now = NoBlock => s.buf = <<>> /\ ~ s.stale
  /\ s.open => s.list # <<>>
  /\ s.dec # NoDec /\ s.faults = 0 => s.open \/ s.todo.cmd = "close"
  /\ s.dec # NoDec /\ s.todo.cmd \in {"nothing", "trash"} /\ s.open /\ ~ s.wrong => AtLast(s, s.dec)
  /\ s.todo.cmd \in {"navigate", "start", "trash"} => s.open
  /\ s.todo.cmd \in {"navigate", "start"} => s.buf = <<>> /\ (s.now = NoBlock \/ (s.stale /\ s.dec.done))
  /\ s.todo.cmd = "close" => ~ s.open

\* No handler is interrupted.
AtRest(s) == s.todo = Nothing

\* What a handler may have left to do.
LEMMA TodoIs ==
  /\ Nothing \in TodoType /\ Nothing.cmd = "nothing"
  /\ \A c \in {"start", "trash", "close"} : Plain(c) \in TodoType /\ Plain(c).cmd = c
  /\ \A n \in Song : Command("navigate", n) \in TodoType /\ Command("navigate", n).cmd = "navigate"
  /\ \A k \in TodoType : /\ k.cmd \in {"nothing", "navigate", "start", "trash", "close"}
                        /\ k.cmd = "navigate" => k.to \in Song
BY DEF Nothing, Plain, Command, TodoType

\* What stands for nothing is no song, decoder or block.
LEMMA Distinct == NoDec \notin DecType /\ NoBlock \notin BlockType /\ NoSong \notin Song /\ N \in Nat \ {0} /\ 1 \in Song
BY SongsAssumption DEF NoDec, NoBlock, NoSong, Song, DecType, BlockType

\* An entry of a list can be changed.
LEMMA ChangedList ==
  ASSUME NEW l \in Seq(EntryType), NEW i \in 1 .. Len(l), NEW e \in EntryType, NEW m, m = [l EXCEPT ![i] = e]
  PROVE  /\ m \in Seq(EntryType) /\ Len(m) = Len(l) /\ m # <<>> /\ l # <<>>
         /\ \A j \in 1 .. Len(l) : m[j] = IF j = i THEN e ELSE l[j]
BY ExceptSeq

\* The output tells a position.
LEMMA PlayingPosTyped ==
  ASSUME NEW s \in Player
  PROVE  OutPlayingPos(s) \in Nat
BY DEF Player, OutPlayingPos, BlockType, NoBlock

\* The fields that matter for the list.
Alike(t, s) == t.list = s.list /\ t.dec = s.dec /\ t.open = s.open /\ t.wrong = s.wrong /\ t.late = s.late /\ t.todo = s.todo
               /\ t.faults = s.faults /\ t.MaxPos = s.MaxPos

\* Silenced: the output has nothing to play any more.
LEMMA SilencedIs ==
  ASSUME NEW s \in Player
  PROVE  Silenced(s) \in Player /\ Silent(Silenced(s)) /\ Alike(Silenced(s), s)
<1>1. <<>> \in Seq(BlockType)
  OBVIOUS
<1>2. Silenced(s) \in Player
  BY <1>1 DEF Silenced, Player
<1> QED BY <1>2 DEF Silenced, Player, Silent, Alike

\* OutTrash: so it is with an open output.
LEMMA OutTrashIs ==
  ASSUME NEW s \in Player
  PROVE  OutTrash(s) \in Player /\ Alike(OutTrash(s), s)
         /\ (s.open => Silent(OutTrash(s))) /\ (~ s.open => OutTrash(s) = s)
<1>1. CASE s.open
  <2> DEFINE u == Silenced(s)
             pos == s.PlayingPos
  <2>1. u \in Player /\ Silent(u) /\ Alike(u, s) /\ pos \in Nat
    BY SilencedIs DEF Player
  <2>2. OutTrash(s) = [u EXCEPT !.TimeOffset = pos]
    BY <1>1 DEF OutTrash
  <2> HIDE DEF u, pos
  <2>3. OutTrash(s) \in Player
    BY <2>1, <2>2 DEF Player
  <2>4. Alike(OutTrash(s), u) /\ Silent(OutTrash(s))
    BY <2>1, <2>2 DEF Player, Alike, Silent
  <2> QED BY <1>1, <2>1, <2>3, <2>4 DEF Alike
<1>2. CASE ~ s.open
  BY <1>2 DEF OutTrash, Alike
<1> QED BY <1>1, <1>2

\* OutFlush touches nothing else.
LEMMA OutFlushIs ==
  ASSUME NEW s \in Player
  PROVE  OutFlush(s) \in Player /\ Alike(OutFlush(s), s) /\ OutFlush(s).buf = s.buf /\ OutFlush(s).now = s.now
         /\ OutFlush(s).stale = s.stale /\ OutFlush(s).astray = s.astray
<1>1. OutFlush(s) \in Player
  BY DEF OutFlush, Player
<1> QED BY <1>1 DEF OutFlush, Player, Alike

\* OutClose: the decoder is waited for if there is one.
LEMMA OutCloseIs ==
  ASSUME NEW s \in Player, NEW t, t = OutClose(s)
  PROVE  /\ t \in Player /\ ~ t.open /\ t.list = s.list /\ t.wrong = s.wrong /\ t.late = s.late /\ t.faults = s.faults
         /\ t.dec = s.dec
         /\ (s.open => Silent(t) /\ t.todo = IF s.dec = NoDec THEN s.todo ELSE Plain("close"))
         /\ (~ s.open => t = s)
<1>1. <<>> \in Seq(BlockType) /\ OutPlayingPos(s) \in Nat /\ Plain("close") \in TodoType
  BY PlayingPosTyped, TodoIs
<1>2. CASE s.open
  <2> DEFINE c == IF s.dec = NoDec THEN s.todo ELSE Plain("close")
             pos == OutPlayingPos(s)
             u == Silenced(s)
  <2>1. c \in TodoType
    BY <1>1 DEF Player
  <2>2. u \in Player /\ Silent(u) /\ u.list = s.list /\ u.wrong = s.wrong /\ u.late = s.late /\ u.faults = s.faults
        /\ u.dec = s.dec /\ u.todo = s.todo
    BY SilencedIs DEF Alike
  <2>3. t = [u EXCEPT !.open = FALSE, !.PlayingPos = pos, !.todo = c]
    BY <1>2, <2>2 DEF OutClose
  <2> HIDE DEF c, pos, u
  <2>4. t \in Player
    BY <1>1, <2>1, <2>2, <2>3 DEF Player, pos
  <2>5. ~ t.open /\ Silent(t) /\ t.list = u.list /\ t.wrong = u.wrong /\ t.late = u.late /\ t.faults = u.faults /\ t.dec = u.dec
        /\ t.todo = c
    BY <2>2, <2>3 DEF Player, Silent
  <2> QED BY <1>2, <2>2, <2>4, <2>5 DEF c
<1>3. CASE ~ s.open
  BY <1>3 DEF OutClose
<1> QED BY <1>2, <1>3

\* PrefetchClear leaves the first entry.
LEMMA PrefetchClearIs ==
  ASSUME NEW s \in Player, NEW t, t = PrefetchClear(s)
  PROVE  /\ t \in Player /\ (s.list = <<>> => t.list = <<>>)
         /\ s.list # <<>> => Len(t.list) = 1 /\ t.list # <<>> /\ t.list[1].song = s.list[1].song /\ t.list[1].offset = s.list[1].offset
         /\ t.dec = s.dec /\ t.open = s.open /\ t.wrong = s.wrong /\ t.late = s.late /\ t.todo = s.todo
         /\ t.faults = s.faults /\ t.MaxPos = s.MaxPos /\ t.buf = s.buf /\ t.now = s.now /\ t.stale = s.stale
<1>1. CASE s.list = <<>>
  BY <1>1 DEF PrefetchClear
<1>2. CASE s.list # <<>>
  <2> DEFINE e == [Current(s) EXCEPT !.completed = FALSE]
  <2>1. s.list \in Seq(EntryType)
    BY DEF Player
  <2>2. Current(s) \in EntryType /\ Current(s) = s.list[1]
    BY <1>2, <2>1 DEF Current
  <2>3. e \in EntryType /\ e.song = s.list[1].song /\ e.offset = s.list[1].offset
    BY <2>2 DEF EntryType
  <2>4. t = [s EXCEPT !.list = <<e>>]
    BY <1>2 DEF PrefetchClear
  <2> HIDE DEF e
  <2>5. <<e>> \in Seq(EntryType) /\ Len(<<e>>) = 1 /\ <<e>>[1] = e /\ <<e>> # <<>>
    BY <2>3
  <2>6. t \in Player /\ t.list = <<e>>
    BY <2>4, <2>5 DEF Player
  <2>7. t.dec = s.dec /\ t.open = s.open /\ t.wrong = s.wrong /\ t.late = s.late /\ t.todo = s.todo
         /\ t.faults = s.faults /\ t.MaxPos = s.MaxPos /\ t.buf = s.buf /\ t.now = s.now /\ t.stale = s.stale
    BY <2>4 DEF Player
  <2> QED BY <1>2, <2>3, <2>5, <2>6, <2>7
<1> QED BY <1>1, <1>2

\* The first entry gets another offset.
LEMMA RewoundIs ==
  ASSUME NEW s \in Player, s.list # <<>>, NEW t, t = [s EXCEPT !.list[1].offset = 0]
  PROVE  /\ t \in Player /\ t.list # <<>> /\ Len(t.list) = Len(s.list) /\ t.list[1].song = s.list[1].song /\ t.list[1].offset = 0
         /\ t.dec = s.dec /\ t.open = s.open /\ t.wrong = s.wrong /\ t.late = s.late /\ t.todo = s.todo
         /\ t.faults = s.faults /\ t.MaxPos = s.MaxPos /\ t.buf = s.buf /\ t.now = s.now /\ t.stale = s.stale
<1> DEFINE e == [s.list[1] EXCEPT !.offset = 0]
           m == [s.list EXCEPT ![1] = e]
<1>1. s.list \in Seq(EntryType) /\ 1 \in 1 .. Len(s.list)
  BY DEF Player
<1>2. s.list[1] \in EntryType
  BY <1>1
<1>3. e \in EntryType /\ e.song = s.list[1].song /\ e.offset = 0
  BY <1>2 DEF EntryType
<1>4. t = [s EXCEPT !.list = m]
  OBVIOUS
<1> HIDE DEF e
<1>5. m \in Seq(EntryType) /\ Len(m) = Len(s.list) /\ m # <<>> /\ m[1] = e
  BY <1>1, <1>3, ChangedList
<1> HIDE DEF m
<1>6. t \in Player /\ t.list = m
  BY <1>4, <1>5 DEF Player
<1>7. t.dec = s.dec /\ t.open = s.open /\ t.wrong = s.wrong /\ t.late = s.late /\ t.todo = s.todo
         /\ t.faults = s.faults /\ t.MaxPos = s.MaxPos /\ t.buf = s.buf /\ t.now = s.now /\ t.stale = s.stale
  BY <1>4 DEF Player
<1> QED BY <1>3, <1>5, <1>6, <1>7

\* Playback has ended.
Ended(t, s) ==
  /\ t \in Player /\ ~ t.open /\ t.faults = s.faults /\ t.dec = s.dec
  /\ IF s.open THEN Silent(t) /\ t.todo = IF s.dec = NoDec THEN s.todo ELSE Plain("close")
     ELSE t.buf = s.buf /\ t.now = s.now /\ t.stale = s.stale /\ t.todo = s.todo

\* OutputStop ends playback, and the history of it.
LEMMA OutputStopIs ==
  ASSUME NEW s \in Player
  PROVE  Ended(OutputStop(s), s)
<1> DEFINE a == PrefetchClear(s)
           b == OutClose(a)
           c == [b EXCEPT !.late = FALSE, !.wrong = FALSE]
           d == [c EXCEPT !.list[1].offset = 0]
<1>1. OutputStop(s) = IF c.list = <<>> THEN c ELSE d
  BY DEF OutputStop
<1>2. a \in Player /\ a.dec = s.dec /\ a.open = s.open /\ a.faults = s.faults /\ a.buf = s.buf /\ a.now = s.now
      /\ a.stale = s.stale /\ a.todo = s.todo
  BY PrefetchClearIs
<1> HIDE DEF a
<1>3. b \in Player /\ ~ b.open /\ b.faults = a.faults /\ b.dec = a.dec
      /\ (a.open => Silent(b) /\ b.todo = IF a.dec = NoDec THEN a.todo ELSE Plain("close")) /\ (~ a.open => b = a)
  BY <1>2, OutCloseIs
<1> HIDE DEF b
<1>4. c \in Player /\ ~ c.open /\ c.faults = b.faults /\ c.dec = b.dec /\ c.buf = b.buf /\ c.now = b.now /\ c.stale = b.stale
      /\ c.todo = b.todo
  BY <1>3 DEF Player
<1> HIDE DEF c
<1>5. c.list # <<>> => d \in Player /\ d.dec = c.dec /\ d.open = c.open /\ d.faults = c.faults /\ d.buf = c.buf
         /\ d.now = c.now /\ d.stale = c.stale /\ d.todo = c.todo
  BY <1>4, RewoundIs
<1> HIDE DEF d
<1>6. CASE s.open
  <2>1. Silent(c) /\ c.todo = IF s.dec = NoDec THEN s.todo ELSE Plain("close")
    BY <1>2, <1>3, <1>4, <1>6 DEF Silent
  <2> QED BY <1>1, <1>2, <1>3, <1>4, <1>5, <1>6, <2>1 DEF Ended, Silent
<1>7. CASE ~ s.open
  BY <1>1, <1>2, <1>3, <1>4, <1>5, <1>7 DEF Ended
<1> QED BY <1>6, <1>7

(***************************************************************************)
(* What the output has to play.                                            *)
(***************************************************************************)

\* The block that it plays, unless that is stale, and those that follow.
Heard(s) == IF s.now = NoBlock THEN <<>> ELSE IF s.stale THEN s.buf ELSE <<s.now>> \o s.buf

Follows(n) == IF n < N THEN n + 1 ELSE 1

\* The list has the entry of block b, and no later one that begins as early.
CoversBlock(l, b) ==
  \E i \in 1 .. Len(l) : l[i].song = b.song /\ l[i].offset = b.pos /\ \A j \in i + 1 .. Len(l) : l[j].offset > b.pos

CoversAll(l, h) == \A k \in 1 .. Len(h) : CoversBlock(l, h[k])

Below(h, limit) == \A k \in 1 .. Len(h) : h[k].pos < limit

InOrder(h) ==
  /\ \A k, m \in 1 .. Len(h) : k <= m => h[k].pos <= h[m].pos
  /\ \A k \in 1 .. Len(h) - 1 : h[k + 1].song = Follows(h[k].song)

\* The song goes on after what the output has.
Goes(h, song) == h # <<>> => song = Follows(h[Len(h)].song)

\* A stale block begins no later than what follows it.
Leads(s) == s.stale => s.now.pos <= Last(s.list).offset /\ \A k \in 1 .. Len(Heard(s)) : s.now.pos <= Heard(s)[k].pos

Music(s) ==
  /\ CoversAll(s.list, Heard(s)) /\ Below(Heard(s), Last(s.list).offset + s.MaxPos) /\ InOrder(Heard(s))
  /\ s.dec # NoDec /\ ~ s.dec.done => Goes(Heard(s), s.dec.song)
  /\ Leads(s)

\* The song has been started again, and what the output has is still of this song.
Trashing(s) == Len(s.list) = 1 /\ CoversAll(s.list, Heard(s))

Good(s) ==
  /\ Consistent(s)
  /\ ~ Confused(s) /\ s.todo.cmd = "nothing" => Music(s)
  /\ ~ Confused(s) /\ s.todo.cmd = "trash" => Trashing(s)

\* A handler leaves the output with the block that it plays, or with nothing.
After(t, s) == Good(t) /\ t.now \in {s.now, NoBlock}

\* The first of the blocks is the one that is played.
LEMMA HeardTyped ==
  ASSUME NEW s \in Player
  PROVE  /\ Heard(s) \in Seq(BlockType)
         /\ s.now # NoBlock /\ ~ s.stale => Heard(s) # <<>> /\ Len(Heard(s)) = Len(s.buf) + 1 /\ Heard(s)[1] = s.now
                                            /\ \A k \in 1 .. Len(s.buf) : Heard(s)[k + 1] = s.buf[k]
<1>1. s.buf \in Seq(BlockType) /\ s.now \in BlockType \cup {NoBlock}
  BY DEF Player
<1>2. CASE s.now = NoBlock \/ s.stale
  BY <1>1, <1>2 DEF Heard
<1>3. CASE s.now # NoBlock /\ ~ s.stale
  <2>1. Heard(s) = <<s.now>> \o s.buf /\ s.now \in BlockType
    BY <1>1, <1>3 DEF Heard
  <2> QED BY <1>1, <1>3, <2>1
<1> QED BY <1>2, <1>3

\* A silent output has no blocks,
LEMMA SilentHeard ==
  ASSUME NEW s, Silent(s)
  PROVE  Heard(s) = <<>> /\ Leads(s)
BY DEF Heard, Leads, Silent

\* so that nothing can be wrong with them.
LEMMA EmptyMusic ==
  ASSUME NEW s, Heard(s) = <<>>, Leads(s)
  PROVE  Music(s)
<1>1. Len(<<>>) = 0 /\ 1 .. 0 = {} /\ 1 .. 0 - 1 = {}
  OBVIOUS
<1> QED BY <1>1 DEF Music, CoversAll, Below, InOrder, Goes

\* A silent output has nothing that could be wrong.
LEMMA SilentMusic ==
  ASSUME NEW s, Silent(s)
  PROVE  Music(s)
BY SilentHeard, EmptyMusic

\* What has ended is good if the output was open, or nothing was decoded.
LEMMA EndedGood ==
  ASSUME NEW s \in Player, AtRest(s), NEW t, Ended(t, s), ~ s.open => Silent(s), s.open \/ s.dec = NoDec \/ s.faults # 0
  PROVE  After(t, s) /\ ~ t.open
<1>1. t \in Player /\ ~ t.open /\ t.faults = s.faults /\ Silent(t) /\ (t.dec = NoDec \/ t.faults # 0 \/ t.todo.cmd = "close")
  BY TodoIs DEF Ended, Silent
<1>2. t.todo.cmd \in {"nothing", "close"}
  <2>1. t.todo = Nothing \/ t.todo = Plain("close")
    BY DEF Ended, AtRest
  <2>2. Nothing.cmd = "nothing" /\ Plain("close").cmd = "close"
    BY TodoIs
  <2> QED BY <2>1, <2>2
<1>3. Consistent(t)
  BY <1>1, <1>2 DEF Consistent, Silent
<1> QED BY <1>1, <1>2, <1>3, SilentMusic DEF After, Good, Silent

(***************************************************************************)
(* The start of a decoder.                                                 *)
(***************************************************************************)

\* The decoder has been started with entry e.
HasStarted(t, s, e) ==
  /\ t \in Player /\ t.list = s.list /\ t.open = s.open /\ t.late = s.late /\ t.astray = s.astray /\ t.todo = s.todo /\ t.wrong = s.wrong /\ t.faults = s.faults
  /\ t.buf = s.buf /\ t.now = s.now /\ t.stale = s.stale /\ t.MaxPos = 0
  /\ t.dec # NoDec /\ t.dec.song = e.song /\ t.dec.offset = e.offset /\ ~ t.dec.done

\* DecoderStart: the decoder works on the entry, or playback has ended.
LEMMA DecoderStartIs ==
  ASSUME NEW s \in Player, NEW e \in EntryType, NEW t \in DecoderStart(s, e), ~ s.open => Silent(s), AtRest(s)
  PROVE  (After(t, s) /\ ~ t.open) \/ HasStarted(t, s, e)
<1> DEFINE a == [s EXCEPT !.seeking = FALSE]
           d == [NoDec EXCEPT !.song = e.song, !.offset = e.offset, !.status = "playing"]
           b == [a EXCEPT !.dec = d, !.sent = FALSE, !.MaxPos = 0]
           c == [a EXCEPT !.dec = NoDec, !.sent = FALSE, !.MaxPos = 0, !.faults = @ + 1]
           Result(u) == IF u.dec = NoDec THEN OutputStop(u) ELSE [u EXCEPT !.LastStart = IF @ = NoSong THEN e.song ELSE @]
<1>1. a \in Player /\ a.list = s.list /\ a.open = s.open /\ a.late = s.late /\ a.astray = s.astray /\ a.todo = s.todo /\ a.wrong = s.wrong /\ a.faults = s.faults
      /\ a.buf = s.buf /\ a.now = s.now /\ a.stale = s.stale
  BY DEF Player
<1>2. d \in DecType /\ d.song = e.song /\ d.offset = e.offset /\ d.done = FALSE
  BY DEF DecType, NoDec, EntryType
<1>3. d # NoDec
  BY <1>2, Distinct
<1>4. PICK u \in DecPlay(a, e) : t = Result(u)
  BY DEF DecoderStart
<1> HIDE DEF a, Result
<1>5. u = b \/ u = c
  BY <1>4 DEF DecPlay
<1> HIDE DEF d
<1>6. CASE u = b
  <2>1. b \in Player /\ b.list = s.list /\ b.open = s.open /\ b.late = s.late /\ b.astray = s.astray /\ b.todo = s.todo /\ b.wrong = s.wrong /\ b.faults = s.faults
        /\ b.buf = s.buf /\ b.now = s.now /\ b.stale = s.stale /\ b.MaxPos = 0 /\ b.dec = d
    BY <1>1, <1>2 DEF Player
  <2> HIDE DEF b
  <2>2. t = [b EXCEPT !.LastStart = IF @ = NoSong THEN e.song ELSE @]
    BY <1>3, <1>4, <1>6, <2>1 DEF Result
  <2>3. t \in Player /\ t.list = b.list /\ t.open = b.open /\ t.late = b.late /\ t.astray = b.astray /\ t.todo = b.todo /\ t.wrong = b.wrong /\ t.faults = b.faults
        /\ t.buf = b.buf /\ t.now = b.now /\ t.stale = b.stale /\ t.MaxPos = b.MaxPos /\ t.dec = b.dec
    BY <2>1, <2>2 DEF Player, EntryType
  <2> QED BY <1>2, <1>3, <2>1, <2>3 DEF HasStarted
<1>7. CASE u = c
  <2>0. a.faults + 1 \in Nat
    BY <1>1 DEF Player
  <2>1. c \in Player /\ c.dec = NoDec
    BY <1>1, <2>0 DEF Player
  <2>4. c.open = s.open /\ c.buf = s.buf /\ c.now = s.now /\ c.stale = s.stale /\ AtRest(c)
    BY <1>1 DEF Player, AtRest
  <2> HIDE DEF c
  <2>2. t = OutputStop(c)
    BY <1>4, <1>7, <2>1 DEF Result
  <2>3. Ended(t, c) /\ (~ c.open => Silent(c))
    BY <2>1, <2>2, <2>4, OutputStopIs DEF Silent
  <2>5. After(t, c) /\ ~ t.open
    BY <2>1, <2>3, <2>4, EndedGood
  <2> QED BY <2>4, <2>5 DEF After
<1> QED BY <1>5, <1>6, <1>7

\* The decoder may be started with entry e.
Ready(s, e) ==
  /\ s \in Player /\ e \in EntryType /\ AtRest(s)
  /\ ~ s.open => Silent(s)
  /\ s.now = NoBlock => s.buf = <<>> /\ ~ s.stale
  /\ s.open => s.list # <<>>
  /\ s.open \/ s.faults # 0
  /\ s.open /\ ~ s.wrong => AtLast(s, e)

\* It has the last entry then,
LEMMA StartedConsistent ==
  ASSUME NEW s, NEW e, Ready(s, e), NEW t \in DecoderStart(s, e)
  PROVE  Consistent(t) /\ t.now \in {s.now, NoBlock}
<1>1. (After(t, s) /\ ~ t.open) \/ HasStarted(t, s, e)
  BY DecoderStartIs DEF Ready
<1>2. CASE After(t, s)
  BY <1>2 DEF After, Good
<1>3. CASE HasStarted(t, s, e)
  <2>1. t.todo.cmd = "nothing"
    BY <1>3, TodoIs DEF HasStarted, Ready, AtRest
  <2> QED BY <1>3, <2>1 DEF HasStarted, Ready, Consistent, AtLast, Silent
<1> QED BY <1>1, <1>2, <1>3

\* It may be started with the music going on.
LEMMA StartedGood ==
  ASSUME NEW s, NEW e, Ready(s, e), NEW t \in DecoderStart(s, e),
         ~ Confused(s) =>
           CoversAll(s.list, Heard(s)) /\ Below(Heard(s), Last(s.list).offset) /\ InOrder(Heard(s)) /\ Goes(Heard(s), e.song)
           /\ Leads(s)
  PROVE  After(t, s)
<1>1. (After(t, s) /\ ~ t.open) \/ HasStarted(t, s, e)
  BY DecoderStartIs DEF Ready
<1>2. CASE After(t, s)
  BY <1>2
<1>3. CASE HasStarted(t, s, e)
  <2>1. Consistent(t) /\ t.now = s.now /\ t.todo.cmd = "nothing"
    BY <1>3, StartedConsistent, TodoIs DEF HasStarted, Ready, AtRest
  <2>2. ASSUME ~ Confused(t)
        PROVE  Music(t)
    <3>1. Heard(t) = Heard(s) /\ t.list = s.list /\ t.MaxPos = 0 /\ t.dec.song = e.song /\ ~ Confused(s)
      BY <1>3, <2>2 DEF HasStarted, Heard, Confused
    <3>2. Leads(t)
      BY <1>3, <3>1 DEF HasStarted, Leads
    <3>3. CASE Heard(t) = <<>>
      BY <3>2, <3>3, EmptyMusic
    <3>4. CASE Heard(t) # <<>>
      <4>1. s.open /\ s.list # <<>> /\ s.list \in Seq(EntryType)
        BY <3>1, <3>4, SilentHeard DEF Ready, Player
      <4>2. Last(s.list) \in EntryType
        BY <4>1 DEF Last
      <4>3. Last(s.list).offset + 0 = Last(s.list).offset
        BY <4>2 DEF EntryType
      <4> QED BY <3>1, <3>2, <4>3 DEF Music
    <3> QED BY <3>3, <3>4
  <2> QED BY <2>1, <2>2 DEF After, Good
<1> QED BY <1>1, <1>2, <1>3

\* And with nothing to follow.
LEMMA StartedEmpty ==
  ASSUME NEW s, NEW e, Ready(s, e), Heard(s) = <<>>, ~ Confused(s) => Leads(s), NEW t \in DecoderStart(s, e)
  PROVE  After(t, s)
<1>1. Len(<<>>) = 0 /\ 1 .. 0 = {} /\ 1 .. 0 - 1 = {}
  OBVIOUS
<1>2. CoversAll(s.list, Heard(s)) /\ Below(Heard(s), Last(s.list).offset) /\ InOrder(Heard(s)) /\ Goes(Heard(s), e.song)
  BY <1>1 DEF CoversAll, Below, InOrder, Goes
<1> QED BY <1>2, StartedGood

\* Nothing to follow is what a silent output has.
LEMMA StartedSilent ==
  ASSUME NEW s, NEW e, Ready(s, e), Silent(s), NEW t \in DecoderStart(s, e)
  PROVE  After(t, s)
BY SilentHeard, StartedEmpty

\* Of a single entry the first is the last.
LEMMA OneEntry ==
  ASSUME NEW l \in Seq(EntryType), l # <<>>, Len(l) <= 1
  PROVE  Len(l) = 1 /\ Last(l) = l[1]
<1>1. Len(l) \in Nat /\ Len(l) # 0
  OBVIOUS
<1>2. Len(l) = 1
  <2>1. ASSUME NEW n \in Nat, n # 0, n <= 1
        PROVE  n = 1
    BY <2>1
  <2> QED BY <1>1, <2>1
<1> QED BY <1>2 DEF Last

(***************************************************************************)
(* The handlers of the user's commands.                                    *)
(***************************************************************************)

\* A player with nothing to play is good,
LEMMA SilentGood ==
  ASSUME NEW s, Consistent(s), Silent(s), s.todo.cmd # "trash"
  PROVE  Good(s)
BY SilentMusic DEF Good

\* and so is one that does not play.
LEMMA ClosedGood ==
  ASSUME NEW r, Consistent(r), ~ r.open, NEW s
  PROVE  After(r, s)
BY SilentGood DEF Consistent, After, Silent

\* A handler may do nothing.
LEMMA SameGood ==
  ASSUME NEW s, Good(s)
  PROVE  After(s, s)
BY DEF After

\* ResumeTrash: what the new decoder has delivered is thrown away.
LEMMA TrashedGood ==
  ASSUME NEW s, Consistent(s), s.todo.cmd \in {"nothing", "trash"}, NEW t, t = [OutTrash(s) EXCEPT !.todo = Nothing], NEW r
  PROVE  After(t, r)
<1> DEFINE a == OutTrash(s)
<1>1. a \in Player /\ Alike(a, s) /\ (s.open => Silent(a)) /\ (~ s.open => a = s)
  BY OutTrashIs DEF Consistent
<1>2. Silent(a)
  BY <1>1 DEF Consistent
<1> HIDE DEF a
<1>3. t = [a EXCEPT !.todo = Nothing]
  BY DEF a
<1>4. t \in Player
  BY <1>1, <1>3, TodoIs DEF Player
<1>5. Silent(t) /\ t.list = a.list /\ t.dec = a.dec /\ t.open = a.open /\ t.wrong = a.wrong /\ t.faults = a.faults /\ t.todo = Nothing
  BY <1>1, <1>2, <1>3 DEF Player, Silent
<1>6. t.todo.cmd = "nothing"
  BY <1>5, TodoIs
<1>7. Consistent(t)
  <2>1. ~ s.open => s.todo.cmd = "nothing"
    BY DEF Consistent
  <2> QED BY <1>1, <1>4, <1>5, <1>6, <2>1 DEF Consistent, Alike, AtLast, Silent
<1> QED BY <1>5, <1>6, <1>7, SilentGood DEF After, Silent

\* The output may do this at once.
LEMMA TrashIdle ==
  ASSUME NEW s, Consistent(s), AtRest(s), NEW r
  PROVE  After(OutTrash(s), r)
<1>1. OutTrash(s) \in Player /\ OutTrash(s).todo = Nothing /\ s.todo.cmd = "nothing"
  BY OutTrashIs, TodoIs DEF Consistent, Alike, AtRest
<1>2. [OutTrash(s) EXCEPT !.todo = Nothing] = OutTrash(s)
  BY <1>1 DEF Player
<1> QED BY <1>1, <1>2, TrashedGood

\* Stop, whatever the list has become.
LEMMA StoppedGood ==
  ASSUME NEW s \in Player, AtRest(s), ~ s.open => Good(s)
  PROVE  After(Stop(s), s) /\ ~ Stop(s).open
<1>1. CASE s.open
  <2> DEFINE a == OutTrash(s)
  <2>1. a \in Player /\ Alike(a, s) /\ Silent(a)
    BY <1>1, OutTrashIs
  <2>2. Stop(s) = OutputStop(a)
    BY <1>1 DEF Stop
  <2> HIDE DEF a
  <2>3. Ended(Stop(s), a) /\ a.open
    BY <1>1, <2>1, <2>2, OutputStopIs DEF Alike
  <2>4. After(Stop(s), a)
    BY <2>1, <2>3, EndedGood DEF Alike, AtRest
  <2> QED BY <2>1, <2>3, <2>4 DEF Ended, After, Silent
<1>2. CASE ~ s.open
  BY <1>2 DEF Stop, After
<1> QED BY <1>1, <1>2

\* OutputStart: the output is open, or the failure is counted.
LEMMA OutputStartIs ==
  ASSUME NEW s \in Player, ~ s.open \/ s.dec = NoDec, NEW offset \in Nat, NEW t \in OutputStart(s, offset)
  PROVE  /\ t \in Player /\ t.list = s.list /\ t.wrong = s.wrong /\ t.late = s.late /\ t.todo = s.todo
         /\ \/ /\ t.open /\ t.dec = s.dec /\ t.buf = s.buf /\ t.now = s.now /\ t.stale = s.stale /\ t.astray = s.astray
               /\ t.faults = s.faults /\ t.MaxPos = s.MaxPos
            \/ ~ t.open /\ t.faults # 0 /\ (s.open => Silent(t)) /\ (~ s.open => t.buf = s.buf /\ t.now = s.now /\ t.stale = s.stale)
<1> DEFINE a == [s EXCEPT !.open = TRUE, !.PlayingPos = offset, !.TimeOffset = IF s.open THEN @ ELSE offset]
           b == [s EXCEPT !.PlayingPos = offset, !.faults = @ + 1]
           c == [b EXCEPT !.dec = NoDec]
<1>1. t = a \/ (s.open /\ t = OutClose(b)) \/ (~ s.open /\ (t = b \/ t = c))
  BY DEF OutputStart
<1>2. CASE t = a
  <2> DEFINE told == IF s.open THEN s.TimeOffset ELSE offset
  <2>0. told \in Nat /\ a = [s EXCEPT !.open = TRUE, !.PlayingPos = offset, !.TimeOffset = told]
    BY DEF Player
  <2> HIDE DEF a, told
  <2>1. a \in Player
    BY <2>0 DEF Player
  <2>2. a.list = s.list /\ a.wrong = s.wrong /\ a.late = s.late /\ a.astray = s.astray /\ a.todo = s.todo /\ a.open /\ a.dec = s.dec
        /\ a.buf = s.buf /\ a.now = s.now /\ a.stale = s.stale /\ a.faults = s.faults /\ a.MaxPos = s.MaxPos
    BY <2>0 DEF Player
  <2> QED BY <1>2, <2>1, <2>2
<1>3. s.faults + 1 \in Nat /\ s.faults + 1 # 0
  BY DEF Player
<1>4. b \in Player
  BY <1>3 DEF Player
<1>5. b.list = s.list /\ b.wrong = s.wrong /\ b.late = s.late /\ b.todo = s.todo /\ b.open = s.open /\ b.dec = s.dec
      /\ b.buf = s.buf /\ b.now = s.now /\ b.stale = s.stale /\ b.faults = s.faults + 1
  BY DEF Player
<1> HIDE DEF b
<1>6. CASE s.open /\ t = OutClose(b)
  <2>1. t \in Player /\ ~ t.open /\ t.list = b.list /\ t.wrong = b.wrong /\ t.late = b.late /\ t.faults = b.faults /\ Silent(t)
        /\ t.todo = IF b.dec = NoDec THEN b.todo ELSE Plain("close")
    BY <1>4, <1>5, <1>6, OutCloseIs
  <2>2. t.todo = s.todo
    BY <1>5, <1>6, <2>1
  <2> QED BY <1>3, <1>5, <1>6, <2>1, <2>2
<1>7. CASE ~ s.open /\ t = b
  BY <1>3, <1>4, <1>5, <1>7
<1>8. CASE ~ s.open /\ t = c
  <2>1. c \in Player
    BY <1>4 DEF Player
  <2>2. c.list = b.list /\ c.wrong = b.wrong /\ c.late = b.late /\ c.todo = b.todo /\ c.open = b.open
        /\ c.buf = b.buf /\ c.now = b.now /\ c.stale = b.stale /\ c.faults = b.faults
    BY <1>4 DEF Player
  <2> QED BY <1>3, <1>5, <1>8, <2>1, <2>2
<1> QED BY <1>1, <1>2, <1>6, <1>7, <1>8

\* Play starts the first entry, which has to be the only one.
LEMMA PlayGood ==
  ASSUME NEW s, Good(s), AtRest(s), NEW r \in Play(s)
  PROVE  After(r, s)
<1>1. CASE s.open \/ s.list = <<>>
  BY <1>1, SameGood DEF Play
<1>2. CASE ~ (s.open \/ s.list = <<>>)
  <2> DEFINE rest == Len(s.list) > 1
             U(t) == [t EXCEPT !.list[1].offset = 0, !.late = @ /\ rest, !.wrong = rest]
  <2>1. PICK t \in OutputStart(s, 0) : r \in IF t.open THEN DecoderStart(U(t), Current(U(t))) ELSE {t}
    BY <1>2 DEF Play
  <2>2. s \in Player /\ Silent(s) /\ ~ s.open /\ s.list # <<>> /\ s.list \in Seq(EntryType)
    BY <1>2 DEF Good, Consistent, Player
  <2>3. /\ t \in Player /\ t.list = s.list /\ t.wrong = s.wrong /\ t.late = s.late /\ Silent(t) /\ AtRest(t)
        /\ t.open \/ t.faults # 0
    BY <2>2, OutputStartIs DEF Silent, AtRest
  <2>4. CASE ~ t.open
    <3>0. t.todo.cmd = "nothing"
      BY <2>3, TodoIs DEF AtRest
    <3>1. Consistent(t)
      BY <2>2, <2>3, <2>4, <3>0 DEF Consistent, Silent
    <3> QED BY <2>1, <2>4, <3>1, ClosedGood
  <2>5. CASE t.open
    <3> DEFINE e == [t.list[1] EXCEPT !.offset = 0]
               m == [t.list EXCEPT ![1] = e]
               u == [t EXCEPT !.list = m, !.late = @ /\ rest, !.wrong = rest]
    <3>1. 1 \in 1 .. Len(t.list) /\ t.list[1] \in EntryType /\ Len(t.list) \in Nat
      BY <2>2, <2>3
    <3>2. e \in EntryType
      BY <3>1 DEF EntryType
    <3>3. U(t) = u
      OBVIOUS
    <3> HIDE DEF e, U
    <3>4. m \in Seq(EntryType) /\ Len(m) = Len(t.list) /\ m # <<>> /\ m[1] = e
      BY <2>2, <2>3, <3>1, <3>2, ChangedList
    <3> HIDE DEF m
    <3>5. rest \in BOOLEAN /\ (t.late /\ rest) \in BOOLEAN
      OBVIOUS
    <3>6. u \in Player
      BY <2>3, <3>4, <3>5 DEF Player
    <3>7. u.list = m /\ u.wrong = rest /\ u.open /\ u.buf = t.buf /\ u.now = t.now /\ u.stale = t.stale /\ Silent(u) /\ AtRest(u)
      BY <2>3, <2>5 DEF Player, Silent, AtRest
    <3> HIDE DEF u
    <3>8. Current(u) = e /\ Current(u) \in EntryType
      BY <3>2, <3>4, <3>7 DEF Current
    <3>9. ~ u.wrong => Last(u.list) = e
      <4>0. ~ rest => Len(m) <= 1
        BY <2>3, <3>1, <3>4
      <4> HIDE DEF rest
      <4>1. ~ u.wrong => Len(m) <= 1
        BY <3>7, <4>0, Zenon
      <4> QED BY <3>4, <3>7, <4>1, OneEntry
    <3>10. Ready(u, Current(u))
      BY <3>4, <3>6, <3>7, <3>8, <3>9 DEF Ready, AtLast, Silent
    <3>11. r \in DecoderStart(u, Current(u))
      BY <2>1, <2>5, <3>3
    <3>12. After(r, u)
      BY <3>7, <3>10, <3>11, StartedSilent
    <3> QED BY <3>7, <3>12 DEF After, Silent
  <2> QED BY <2>4, <2>5
<1> QED BY <1>1, <1>2

\* A jump keeps the song and its offset.
LEMMA DecJumpIs ==
  ASSUME NEW s \in Player, s.dec # NoDec, NEW t, t = [DecJump(s) EXCEPT !.seeking = TRUE]
  PROVE  /\ t \in Player /\ t.list = s.list /\ t.open = s.open /\ t.late = s.late /\ t.astray = s.astray /\ t.todo = s.todo /\ t.wrong = s.wrong /\ t.faults = s.faults
         /\ t.buf = s.buf /\ t.now = s.now /\ t.stale = s.stale /\ t.dec # NoDec /\ t.dec.song = s.dec.song /\ t.dec.offset = s.dec.offset
<1> DEFINE d == IF s.dec.status = "stopped" THEN s.dec ELSE [s.dec EXCEPT !.status = "playing", !.done = FALSE, !.jump = TRUE]
<1>1. s.dec \in DecType
  BY DEF Player
<1>2. d \in DecType /\ d.song = s.dec.song /\ d.offset = s.dec.offset
  BY <1>1 DEF DecType
<1>3. t = [s EXCEPT !.dec = d, !.PlayingPos = 0, !.seeking = TRUE]
  BY DEF DecJump
<1>4. d # NoDec
  BY <1>2, Distinct
<1> HIDE DEF d
<1>5. t \in Player
  <2>1. d \in DecType \cup {NoDec} /\ 0 \in Nat
    BY <1>2
  <2> QED BY <1>3, <2>1 DEF Player
<1>6. t.list = s.list /\ t.open = s.open /\ t.late = s.late /\ t.astray = s.astray /\ t.todo = s.todo /\ t.wrong = s.wrong /\ t.faults = s.faults
      /\ t.buf = s.buf /\ t.now = s.now /\ t.stale = s.stale /\ t.dec = d
  BY <1>3 DEF Player
<1> QED BY <1>2, <1>4, <1>5, <1>6

\* NavigateSong: a jump within the song, or the decoder again.
LEMMA NavigateSongGood ==
  ASSUME NEW s, Good(s), AtRest(s), NEW r \in NavigateSong(s)
  PROVE  After(r, s)
<1>0. s.todo.cmd = "nothing"
  BY TodoIs DEF AtRest
<1>1. CASE ~ s.open
  BY <1>1, SameGood DEF NavigateSong
<1>2. CASE s.open /\ s.dec # NoDec
  <2> DEFINE t == [DecJump(s) EXCEPT !.seeking = TRUE]
  <2>1. r = OutTrash(t)
    BY <1>2 DEF NavigateSong
  <2>2. /\ t \in Player /\ t.list = s.list /\ t.open = s.open /\ t.late = s.late /\ t.astray = s.astray /\ t.todo = s.todo
        /\ t.wrong = s.wrong /\ t.faults = s.faults
        /\ t.buf = s.buf /\ t.now = s.now /\ t.stale = s.stale /\ t.dec # NoDec /\ t.dec.song = s.dec.song /\ t.dec.offset = s.dec.offset
    BY <1>2, DecJumpIs DEF Good, Consistent
  <2> HIDE DEF t
  <2>3. Consistent(t) /\ AtRest(t)
    BY <1>0, <1>2, <2>2 DEF Good, Consistent, AtLast, Silent, AtRest
  <2> QED BY <2>1, <2>3, TrashIdle
<1>3. CASE s.open /\ s.dec = NoDec
  <2> DEFINE rest == Len(s.list) > 1
             a == [s EXCEPT !.wrong = @ \/ rest]
  <2>1. PICK t \in DecoderStart(a, Current(s)) : r = IF t.open THEN [t EXCEPT !.todo = Plain("trash")] ELSE t
    BY <1>3 DEF NavigateSong
  <2>2. s \in Player /\ s.list # <<>> /\ s.list \in Seq(EntryType)
    BY <1>3 DEF Good, Consistent, Player
  <2>3. a \in Player
    BY <2>2 DEF Player
  <2>4. a.list = s.list /\ a.open /\ a.now = s.now /\ a.stale = s.stale /\ a.astray = s.astray /\ a.late = s.late
        /\ a.buf = s.buf /\ a.wrong = (s.wrong \/ rest) /\ AtRest(a)
    BY <1>3, <2>2 DEF Player, AtRest
  <2> HIDE DEF a
  <2>5. Current(s) \in EntryType /\ Current(s) = s.list[1]
    BY <2>2 DEF Current
  <2>6. ~ a.wrong => ~ s.wrong /\ Len(s.list) = 1 /\ Last(a.list) = s.list[1]
    <3>0. Len(s.list) \in Nat
      BY <2>2
    <3>2. ~ rest => Len(s.list) <= 1
      BY <3>0
    <3> HIDE DEF rest
    <3>1. ~ a.wrong => Len(s.list) <= 1 /\ ~ s.wrong
      BY <2>4, <3>2, Zenon
    <3> QED BY <2>2, <2>4, <3>1, OneEntry
  <2>7. Ready(a, Current(s))
    BY <2>2, <2>3, <2>4, <2>5, <2>6 DEF Ready, AtLast, Good, Consistent
  <2>8. Consistent(t) /\ t.now \in {a.now, NoBlock}
    BY <2>1, <2>7, StartedConsistent
  <2>9. (After(t, a) /\ ~ t.open) \/ HasStarted(t, a, Current(s))
    BY <2>1, <2>7, DecoderStartIs DEF Ready
  <2>10. CASE ~ t.open
    <3>1. r = t
      BY <2>1, <2>10
    <3> QED BY <2>4, <2>8, <2>10, <3>1, ClosedGood DEF After
  <2>11. CASE t.open
    <3>1. HasStarted(t, a, Current(s)) /\ r = [t EXCEPT !.todo = Plain("trash")]
      BY <2>1, <2>9, <2>11
    <3>2. t \in Player /\ t.todo.cmd = "nothing"
      BY <2>4, <3>1, TodoIs DEF HasStarted, AtRest
    <3>3. r \in Player
      BY <3>1, <3>2, TodoIs DEF Player
    <3>4. r.list = t.list /\ r.open = t.open /\ r.dec = t.dec /\ r.wrong = t.wrong /\ r.faults = t.faults /\ r.buf = t.buf
          /\ r.now = t.now /\ r.stale = t.stale /\ r.late = t.late /\ r.astray = t.astray /\ r.todo = Plain("trash")
      BY <3>1, <3>2 DEF Player
    <3>5. r.todo.cmd = "trash"
      BY <3>4, TodoIs
    <3>6. Consistent(r)
      BY <2>8, <2>11, <3>2, <3>3, <3>4, <3>5 DEF Consistent, AtLast, Silent
    <3>7. ASSUME ~ Confused(r)
          PROVE  Trashing(r)
      <4>1. ~ a.wrong /\ ~ s.late /\ ~ s.astray
        BY <2>4, <3>1, <3>4, <3>7 DEF HasStarted, Confused
      <4>2. Music(s) /\ Len(s.list) = 1
        BY <1>0, <2>6, <4>1 DEF Good, Confused
      <4>3. r.list = s.list /\ Heard(r) = Heard(s)
        BY <2>4, <3>1, <3>4 DEF HasStarted, Heard
      <4> QED BY <4>2, <4>3 DEF Trashing, Music
    <3>8. r.now \in {s.now, NoBlock}
      BY <2>4, <2>8, <3>4
    <3> QED BY <3>5, <3>6, <3>7, <3>8 DEF After, Good
  <2> QED BY <2>10, <2>11
<1> QED BY <1>1, <1>2, <1>3

\* A new entry.
LEMMA NewEntryTyped ==
  ASSUME NEW song \in Song, NEW offset \in Nat
  PROVE  Entry(song, offset) \in EntryType /\ Entry(song, offset).song = song /\ Entry(song, offset).offset = offset
BY DEF Entry, EntryType

\* NavigateOther silences the output.  Nothing is claimed of the list until the decoder has
\* been started again.
LEMMA NavigateOtherGood ==
  ASSUME NEW s, Good(s), AtRest(s), NEW to \in Song, s.list # <<>>, NEW r, r = NavigateOther(s, to)
  PROVE  After(r, s)
<1>0. s \in Player /\ s.list \in Seq(EntryType)
  BY DEF Good, Consistent, Player
<1>1. CASE ~ s.open
  <2> DEFINE e == [s.list[1] EXCEPT !.offset = 0, !.song = to]
             m == [s.list EXCEPT ![1] = e]
  <2>1. r = [s EXCEPT !.list = m]
    BY <1>1 DEF NavigateOther
  <2>2. 1 \in 1 .. Len(s.list) /\ s.list[1] \in EntryType
    BY <1>0
  <2>3. e \in EntryType
    BY <2>2 DEF EntryType
  <2> HIDE DEF e
  <2>4. m \in Seq(EntryType) /\ m # <<>>
    BY <1>0, <2>2, <2>3, ChangedList
  <2> HIDE DEF m
  <2>5. r \in Player
    BY <1>0, <2>1, <2>4 DEF Player
  <2>6. r.open = s.open /\ r.dec = s.dec /\ r.now = s.now /\ r.stale = s.stale /\ r.buf = s.buf /\ r.faults = s.faults
        /\ r.todo = s.todo
    BY <1>0, <2>1 DEF Player
  <2>7. r.todo.cmd = "nothing"
    BY <2>6, TodoIs DEF AtRest
  <2>8. Consistent(r)
    BY <1>1, <2>5, <2>6, <2>7 DEF Good, Consistent, Silent
  <2> QED BY <1>1, <2>6, <2>8, ClosedGood
<1>2. CASE s.open
  <2> DEFINE a == OutTrash(s)
             c == Command("navigate", to)
  <2>1. r = [a EXCEPT !.todo = c]
    BY <1>2 DEF NavigateOther
  <2>2. a \in Player /\ Alike(a, s) /\ Silent(a)
    BY <1>0, <1>2, OutTrashIs
  <2>3. c \in TodoType /\ c.cmd = "navigate"
    BY TodoIs
  <2> HIDE DEF a, c
  <2>4. r \in Player
    BY <2>1, <2>2, <2>3 DEF Player
  <2>5. r.list = a.list /\ r.open = a.open /\ r.buf = a.buf /\ r.now = a.now /\ r.stale = a.stale /\ r.todo = c
    BY <2>1, <2>2 DEF Player
  <2>6. Consistent(r)
    BY <1>2, <2>2, <2>3, <2>4, <2>5 DEF Good, Consistent, Alike, Silent
  <2> QED BY <2>2, <2>3, <2>5, <2>6 DEF After, Good, Silent
<1> QED BY <1>1, <1>2

\* ResumeNavigate: the song is stored while the old decoder may still deliver.
LEMMA NavigatedGood ==
  ASSUME NEW s, Good(s), s.todo.cmd = "navigate", NEW r, r = Navigated(s)
  PROVE  After(r, s)
<1> DEFINE t == PrefetchClear(s)
           e == Entry(s.todo.to, Current(t).offset + s.MaxPos)
           m == Append(t.list, e)
           c == Plain("start")
<1>1. s \in Player /\ s.open /\ s.list # <<>> /\ s.todo.to \in Song
  BY TodoIs DEF Good, Consistent, Player
<1>2. r = [t EXCEPT !.list = m, !.todo = c]
  BY DEF Navigated
<1>3. t \in Player /\ t.list # <<>> /\ t.open = s.open /\ t.buf = s.buf /\ t.now = s.now /\ t.stale = s.stale /\ t.dec = s.dec
  BY <1>1, PrefetchClearIs
<1> HIDE DEF t
<1>4. t.list \in Seq(EntryType) /\ s.MaxPos \in Nat
  BY <1>1, <1>3 DEF Player
<1>5. Current(t) \in EntryType
  BY <1>3, <1>4 DEF Current
<1>6. Current(t).offset + s.MaxPos \in Nat
  BY <1>4, <1>5 DEF EntryType
<1>7. e \in EntryType
  BY <1>1, <1>6, NewEntryTyped
<1> HIDE DEF e
<1>8. m \in Seq(EntryType) /\ m # <<>> /\ c \in TodoType /\ c.cmd = "start"
  BY <1>4, <1>7, TodoIs
<1> HIDE DEF m, c
<1>9. r \in Player
  BY <1>2, <1>3, <1>8 DEF Player
<1>10. r.list = m /\ r.open = t.open /\ r.buf = t.buf /\ r.now = t.now /\ r.stale = t.stale /\ r.dec = t.dec /\ r.todo = c
  BY <1>2, <1>3 DEF Player
<1>11. Consistent(r)
  BY <1>1, <1>3, <1>8, <1>9, <1>10 DEF Good, Consistent, Silent
<1> QED BY <1>3, <1>8, <1>10, <1>11 DEF After, Good

\* ResumeStart: the decoder gets the last entry.  A block of the song that was left is
\* the only one that the output can have.
LEMMA StartedIs ==
  ASSUME NEW s, Good(s), s.todo.cmd = "start", NEW r \in Started(s)
  PROVE  After(r, s)
<1> DEFINE behind == s.stale /\ s.now.pos > Last(s.list).offset
           u == [s EXCEPT !.todo = Nothing, !.astray = behind]
<1>1. s \in Player /\ s.open /\ s.list # <<>> /\ s.list \in Seq(EntryType)
  BY DEF Good, Consistent, Player
<1>2. Last(s.list) \in EntryType
  BY <1>1 DEF Last
<1>3. r \in DecoderStart(u, Last(s.list))
  BY DEF Started
<1>4. behind \in BOOLEAN
  OBVIOUS
<1>5. s.stale => s.now \in BlockType
  BY <1>1 DEF Good, Consistent, Player
<1>6. ~ behind /\ s.stale => s.now.pos <= Last(s.list).offset
  BY <1>2, <1>5 DEF EntryType, BlockType
<1> HIDE DEF behind
<1>7. u \in Player
  BY <1>1, <1>4, TodoIs DEF Player
<1>8. u.list = s.list /\ u.open = s.open /\ u.buf = s.buf /\ u.now = s.now /\ u.stale = s.stale /\ u.wrong = s.wrong
      /\ u.astray = behind /\ AtRest(u)
  BY <1>1 DEF Player, AtRest
<1> HIDE DEF u
<1>9. Ready(u, Last(s.list))
  BY <1>1, <1>2, <1>7, <1>8 DEF Ready, AtLast, Good, Consistent
<1>10. Heard(u) = <<>>
  BY <1>8 DEF Good, Consistent, Heard
<1>11. ~ Confused(u) => Leads(u)
  <2>1. 1 .. Len(<<>>) = {}
    OBVIOUS
  <2> QED BY <1>6, <1>8, <1>10, <2>1 DEF Leads, Confused
<1>12. After(r, u)
  BY <1>3, <1>8, <1>9, <1>10, <1>11, StartedEmpty
<1> QED BY <1>8, <1>12 DEF After

\* ResumeClose: the decoder of an output that is closed goes.
LEMMA ClosingGood ==
  ASSUME NEW s, Good(s), s.todo.cmd = "close", NEW r, r = [s EXCEPT !.dec = NoDec, !.todo = Nothing]
  PROVE  After(r, s)
<1>1. s \in Player /\ ~ s.open /\ Silent(s)
  BY DEF Good, Consistent
<1>2. r \in Player
  BY <1>1, TodoIs DEF Player
<1>3. r.open = s.open /\ r.dec = NoDec /\ r.now = s.now /\ r.buf = s.buf /\ r.stale = s.stale /\ r.todo = Nothing
  BY <1>1 DEF Player
<1>4. r.todo.cmd = "nothing"
  BY <1>3, TodoIs
<1>5. Consistent(r)
  BY <1>1, <1>2, <1>3, <1>4 DEF Consistent, Silent
<1> QED BY <1>1, <1>3, <1>5, ClosedGood

\* Both kinds of navigation.
LEMMA NavigateCoreGood ==
  ASSUME NEW s, Good(s), AtRest(s), NEW to \in Song, s.list # <<>>, NEW r \in NavigateCore(s, to)
  PROVE  After(r, s)
BY NavigateSongGood, NavigateOtherGood DEF NavigateCore

\* Navigate.
LEMMA NavigateGood ==
  ASSUME NEW s, Good(s), AtRest(s), NEW to \in Song, NEW r \in Navigate(s, to)
  PROVE  After(r, s)
BY NavigateCoreGood, SameGood DEF Navigate

\* Skip.
LEMMA SkipGood ==
  ASSUME NEW s, Good(s), AtRest(s), NEW r \in Skip(s)
  PROVE  After(r, s)
<1>1. CASE s.list = <<>> \/ Current(s).song = N
  BY <1>1, SameGood DEF Skip
<1>2. CASE ~ (s.list = <<>> \/ Current(s).song = N)
  <2>1. s.list \in Seq(EntryType)
    BY DEF Good, Consistent, Player
  <2>2. Current(s) \in EntryType
    BY <1>2, <2>1 DEF Current
  <2>3. Current(s).song + 1 \in Song
    BY <1>2, <2>2, SongsAssumption DEF EntryType, Song
  <2>4. r \in NavigateCore(s, Current(s).song + 1)
    BY <1>2 DEF Skip
  <2> QED BY <1>2, <2>3, <2>4, NavigateCoreGood
<1> QED BY <1>1, <1>2

\* Load, and unload with an empty list.
LEMMA LoadGood ==
  ASSUME NEW s, Good(s), AtRest(s), NEW list \in Seq(EntryType), NEW r \in Load(s, list)
  PROVE  After(r, s)
<1> DEFINE t == Stop(s)
<1>1. Good(t) /\ ~ t.open
  BY StoppedGood DEF After, Good, Consistent
<1>2. r = [t EXCEPT !.list = list, !.LastStart = NoSong]
  BY DEF Load
<1> HIDE DEF t
<1>3. t \in Player
  BY <1>1 DEF Good, Consistent
<1>4. r \in Player
  BY <1>2, <1>3 DEF Player
<1>5. r.open = t.open /\ r.dec = t.dec /\ r.now = t.now /\ r.stale = t.stale /\ r.buf = t.buf /\ r.faults = t.faults
      /\ r.todo = t.todo
  BY <1>2, <1>3 DEF Player
<1>6. Consistent(r)
  BY <1>1, <1>4, <1>5 DEF Good, Consistent, Silent
<1> QED BY <1>1, <1>5, <1>6, ClosedGood

(***************************************************************************)
(* The handlers of what decoder and output tell.                           *)
(***************************************************************************)

\* A set of numbers that is not empty has a least one.
LEMMA LeastElement ==
  ASSUME NEW S \in SUBSET Nat, S # {}
  PROVE  \E x \in S : \A y \in S : x <= y
<1>1. PICK x \in S : \A y \in S : <<y, x>> \notin OpToRel(<, Nat)
  BY NatLessThanWellFounded, WFMin, Zenon
<1>2. \A y \in Nat : y < x => <<y, x>> \in OpToRel(<, Nat)
  BY DEF OpToRel
<1>3. \A y \in S : ~ (y < x)
  BY <1>1, <1>2, Zenon
<1> QED BY <1>3

\* Entries that differ in no more than whether they have been completed.
Resembles(m, l) == Len(m) = Len(l) /\ \A i \in 1 .. Len(l) : m[i].song = l[i].song /\ m[i].offset = l[i].offset

\* They cover the same blocks.
LEMMA CoversResembling ==
  ASSUME NEW l \in Seq(EntryType), NEW m \in Seq(EntryType), Resembles(m, l), NEW h \in Seq(BlockType), CoversAll(l, h)
  PROVE  CoversAll(m, h)
<1>1. SUFFICES ASSUME NEW k \in 1 .. Len(h) PROVE CoversBlock(m, h[k])
  BY DEF CoversAll
<1>2. PICK i \in 1 .. Len(l) : l[i].song = h[k].song /\ l[i].offset = h[k].pos /\ \A j \in i + 1 .. Len(l) : l[j].offset > h[k].pos
  BY DEF CoversAll, CoversBlock
<1>3. \A j \in i + 1 .. Len(m) : j \in 1 .. Len(l) /\ j \in i + 1 .. Len(l)
  BY <1>2 DEF Resembles
<1>4. \A j \in i + 1 .. Len(m) : m[j].offset > h[k].pos
  BY <1>2, <1>3 DEF Resembles
<1> QED BY <1>2, <1>4 DEF CoversBlock, Resembles

\* A player with a list like that is as good.
LEMMA ResemblingGood ==
  ASSUME NEW s, Good(s), NEW t, t \in Player, Resembles(t.list, s.list),
         t.dec = s.dec, t.open = s.open, t.wrong = s.wrong, t.late = s.late /\ t.astray = s.astray /\ t.todo = s.todo, t.faults = 0 => s.faults = 0, t.MaxPos = s.MaxPos,
         t.buf = s.buf, t.now = s.now /\ t.stale = s.stale
  PROVE  After(t, s)
<1>1. s.list \in Seq(EntryType) /\ t.list \in Seq(EntryType) /\ s \in Player
  BY DEF Good, Consistent, Player
<1>2. (t.list = <<>> <=> s.list = <<>>) /\ Len(s.list) \in Nat
  BY <1>1 DEF Resembles
<1>3. s.list # <<>> => Last(t.list).song = Last(s.list).song /\ Last(t.list).offset = Last(s.list).offset
  BY <1>1, <1>2 DEF Resembles, Last
<1>4. Consistent(t)
  BY <1>2, <1>3 DEF Good, Consistent, AtLast, Silent
<1>5. Heard(t) = Heard(s) /\ Heard(s) \in Seq(BlockType)
  BY <1>1, HeardTyped DEF Heard
<1>6. ASSUME ~ Confused(t), t.todo.cmd = "nothing"
      PROVE  Music(t)
  <2>1. CASE ~ s.open
    BY <2>1, SilentMusic DEF Good, Consistent, Silent
  <2>2. CASE s.open
    <3>1. Music(s) /\ s.list # <<>>
      BY <1>6, <2>2 DEF Good, Consistent, Confused
    <3>2. CoversAll(t.list, Heard(t))
      BY <1>1, <1>5, <3>1, CoversResembling DEF Music
    <3>3. Leads(t)
      BY <1>3, <1>5, <3>1 DEF Music, Leads
    <3> QED BY <1>3, <1>5, <3>1, <3>2, <3>3 DEF Music
  <2> QED BY <2>1, <2>2
<1>7. ASSUME ~ Confused(t), t.todo.cmd = "trash"
      PROVE  Trashing(t)
  <2>1. Trashing(s)
    BY <1>7 DEF Good, Confused
  <2>2. CoversAll(t.list, Heard(t))
    BY <1>1, <1>5, <2>1, CoversResembling DEF Trashing
  <2> QED BY <2>1, <2>2 DEF Trashing, Resembles
<1> QED BY <1>4, <1>6, <1>7 DEF Good, After

\* Completed marks the last entry.
LEMMA CompletedIs ==
  ASSUME NEW s \in Player, NEW t, t = Completed(s)
  PROVE  /\ t \in Player /\ Resembles(t.list, s.list)
         /\ t.dec = s.dec /\ t.open = s.open /\ t.wrong = s.wrong /\ t.late = s.late /\ t.astray = s.astray /\ t.todo = s.todo /\ t.faults = s.faults
         /\ t.MaxPos = s.MaxPos /\ t.buf = s.buf /\ t.now = s.now /\ t.stale = s.stale
<1>0. s.list \in Seq(EntryType)
  BY DEF Player
<1>1. CASE s.list = <<>>
  BY <1>1 DEF Completed, Resembles
<1>2. CASE s.list # <<>>
  <2> DEFINE n == Len(s.list)
             e == [s.list[n] EXCEPT !.completed = TRUE]
             m == [s.list EXCEPT ![n] = e]
  <2>1. n \in 1 .. Len(s.list) /\ s.list[n] \in EntryType
    BY <1>0, <1>2
  <2>2. e \in EntryType /\ e.song = s.list[n].song /\ e.offset = s.list[n].offset
    BY <2>1 DEF EntryType
  <2>3. t = [s EXCEPT !.list = m]
    BY <1>2 DEF Completed
  <2> HIDE DEF e
  <2>4. m \in Seq(EntryType) /\ Len(m) = Len(s.list) /\ \A j \in 1 .. Len(s.list) : m[j] = IF j = n THEN e ELSE s.list[j]
    BY <1>0, <2>1, <2>2, ChangedList
  <2> HIDE DEF m, n
  <2>5. Resembles(m, s.list)
    BY <2>2, <2>4 DEF Resembles
  <2>6. t \in Player /\ t.list = m
    BY <2>3, <2>4 DEF Player
  <2>7. t.dec = s.dec /\ t.open = s.open /\ t.wrong = s.wrong /\ t.late = s.late /\ t.astray = s.astray /\ t.todo = s.todo /\ t.faults = s.faults
        /\ t.MaxPos = s.MaxPos /\ t.buf = s.buf /\ t.now = s.now /\ t.stale = s.stale
    BY <2>3 DEF Player
  <2> QED BY <2>5, <2>6, <2>7
<1> QED BY <1>1, <1>2

\* It changes nothing that matters here.
LEMMA CompletedGood ==
  ASSUME NEW s, Good(s)
  PROVE  After(Completed(s), s)
BY CompletedIs, ResemblingGood DEF Good, Consistent

(***************************************************************************)
(* CheckPrefetch.                                                          *)
(***************************************************************************)

\* It keeps the last entry, and drops those of which the next one begins no later
\* than the output is.
LEMMA CheckPrefetchIs ==
  ASSUME NEW s \in Player, s.list # <<>>
  PROVE  \E n \in 1 .. Len(s.list) :
           /\ CheckPrefetch(s) = [s EXCEPT !.list = SubSeq(@, n, Len(@))]
           /\ \A i \in 2 .. n : s.list[i].offset <= OutPlayingPos(s)
<1> DEFINE played == {n \in 1 .. Len(s.list) : \A i \in 2 .. n : s.list[i].offset <= OutPlayingPos(s)}
           back   == {Len(s.list) - n : n \in played}
           best   == CHOOSE n \in played : \A m \in played : m <= n
<1>1. s.list \in Seq(EntryType) /\ Len(s.list) \in Nat /\ Len(s.list) # 0
  BY DEF Player
<1>2. 1 \in played
  <2>1. 2 .. 1 = {} /\ 1 \in 1 .. Len(s.list)
    BY <1>1
  <2> QED BY <2>1
<1>3. played \subseteq 1 .. Len(s.list)
  OBVIOUS
<1>4. CheckPrefetch(s) = [s EXCEPT !.list = SubSeq(@, best, Len(@))]
  BY DEF CheckPrefetch
<1>5. \A n \in played : \A i \in 2 .. n : s.list[i].offset <= OutPlayingPos(s)
  OBVIOUS
<1> HIDE DEF played
<1>6. back \in SUBSET Nat /\ back # {}
  BY <1>1, <1>2, <1>3
<1>7. PICK x \in back : \A y \in back : x <= y
  BY <1>6, LeastElement
<1>8. PICK n \in played : x = Len(s.list) - n
  BY <1>7
<1>9. \A m \in played : m <= n
  <2>1. ASSUME NEW m \in played PROVE m <= n
    <3>1. Len(s.list) - n <= Len(s.list) - m
      BY <1>7, <1>8
    <3> QED BY <1>1, <1>3, <3>1
  <2> QED BY <2>1
<1>10. best \in played
  BY <1>9, Zenon
<1> QED BY <1>3, <1>4, <1>5, <1>10

\* Every block that is left to play begins no earlier than the one that is played,
\* so its entry is kept.
LEMMA CheckPrefetchGood ==
  ASSUME NEW s, Good(s), AtRest(s)
  PROVE  After(CheckPrefetch(s), s)
<1>1. CASE s.list = <<>>
  BY <1>1, SameGood DEF CheckPrefetch
<1>2. CASE s.list # <<>>
  <2> DEFINE l == s.list
             t == CheckPrefetch(s)
  <2>1. s \in Player /\ l \in Seq(EntryType) /\ Len(l) \in Nat
    BY DEF Good, Consistent, Player
  <2>2. PICK n \in 1 .. Len(l) : /\ t = [s EXCEPT !.list = SubSeq(@, n, Len(@))]
                                 /\ \A i \in 2 .. n : l[i].offset <= OutPlayingPos(s)
    BY <1>2, <2>1, CheckPrefetchIs
  <2> DEFINE m == SubSeq(l, n, Len(l))
  <2>3. m \in Seq(EntryType) /\ Len(m) = Len(l) - n + 1 /\ \A i \in 1 .. Len(m) : m[i] = l[n + i - 1]
    BY <2>1
  <2>4. t = [s EXCEPT !.list = m]
    BY <2>2
  <2> HIDE DEF m, t, l
  <2>5. t \in Player /\ t.list = m
    BY <2>1, <2>3, <2>4 DEF Player
  <2>6. t.dec = s.dec /\ t.open = s.open /\ t.wrong = s.wrong /\ t.late = s.late /\ t.astray = s.astray /\ t.todo = s.todo /\ t.faults = s.faults
        /\ t.MaxPos = s.MaxPos /\ t.buf = s.buf /\ t.now = s.now /\ t.stale = s.stale
    BY <2>1, <2>4 DEF Player
  <2>7. m # <<>> /\ Last(m) = Last(l)
    BY <2>1, <2>2, <2>3 DEF Last
  <2>8. Consistent(t)
    BY <1>2, <2>5, <2>6, <2>7 DEF Good, Consistent, AtLast, Silent, l
  <2>9. Heard(t) = Heard(s) /\ Heard(s) \in Seq(BlockType)
    BY <2>1, <2>6, HeardTyped DEF Heard
  <2>0. t.todo.cmd = "nothing" /\ s.todo.cmd = "nothing"
    BY <2>6, TodoIs DEF AtRest
  <2>10. ASSUME ~ Confused(t), NEW k \in 1 .. Len(Heard(s))
         PROVE  CoversBlock(m, Heard(s)[k])
    <3> DEFINE h == Heard(s)
               b == h[k]
    <3>1. CoversBlock(l, b) /\ InOrder(h) /\ Leads(s)
      BY <2>0, <2>6, <2>10 DEF Good, Music, CoversAll, Confused, l
    <3>2. h # <<>> /\ b \in BlockType /\ b.pos \in Nat
      <4>1. h \in Seq(BlockType) /\ k \in 1 .. Len(h)
        BY <2>9, <2>10
      <4> HIDE DEF h
      <4>2. h # <<>> /\ b \in BlockType
        BY <4>1
      <4> QED BY <4>2 DEF BlockType
    <3>3. s.now # NoBlock /\ s.now \in BlockType
      BY <2>1, <3>2 DEF Heard, Player
    <3>4. s.now.pos <= b.pos /\ s.now.pos \in Nat
      <4>1. CASE s.stale
        BY <2>10, <3>1, <3>3, <4>1 DEF Leads, BlockType
      <4>2. CASE ~ s.stale
        <5>1. h[1] = s.now
          BY <2>1, <3>3, <4>2, HeardTyped
        <5>2. 1 \in 1 .. Len(h) /\ 1 <= k
          BY <2>9
        <5> QED BY <3>1, <3>3, <5>1, <5>2 DEF InOrder, BlockType
      <4> QED BY <4>1, <4>2
    <3>5. OutPlayingPos(s) = s.now.pos
      BY <3>3 DEF OutPlayingPos
    <3> HIDE DEF h, b
    <3>6. PICK i \in 1 .. Len(l) : l[i].song = b.song /\ l[i].offset = b.pos /\ \A j \in i + 1 .. Len(l) : l[j].offset > b.pos
      BY <3>1 DEF CoversBlock
    <3>7. ~ (i < n)
      <4>1. SUFFICES ASSUME i < n PROVE FALSE
        OBVIOUS
      <4>2. n \in 2 .. n /\ n \in i + 1 .. Len(l)
        BY <2>1, <4>1
      <4>3. l[n].offset <= s.now.pos /\ l[n].offset > b.pos
        BY <2>2, <3>5, <3>6, <4>2
      <4>4. l[n] \in EntryType
        BY <2>1, <2>2
      <4>5. l[n].offset \in Nat
        BY <4>4 DEF EntryType
      <4> QED BY <3>2, <3>4, <4>3, <4>5
    <3> DEFINE c == i - n + 1
    <3>8. c \in 1 .. Len(m) /\ n + c - 1 = i
      BY <2>1, <2>3, <3>7
    <3>9. m[c] = l[i]
      BY <2>3, <3>8
    <3>10. \A j \in c + 1 .. Len(m) : j \in 1 .. Len(m) /\ n + j - 1 \in i + 1 .. Len(l)
      BY <2>1, <2>3, <3>8
    <3>11. \A j \in c + 1 .. Len(m) : m[j].offset > b.pos
      BY <2>3, <3>6, <3>10
    <3> QED BY <3>6, <3>8, <3>9, <3>11 DEF CoversBlock, b, h
  <2>11. ASSUME ~ Confused(t)
         PROVE  Music(t)
    <3>1. Music(s)
      BY <2>0, <2>6, <2>11 DEF Good, Confused
    <3>2. CoversAll(m, Heard(s))
      BY <2>10, <2>11 DEF CoversAll
    <3>3. Leads(t)
      BY <2>5, <2>6, <2>7, <2>9, <3>1 DEF Music, Leads, l
    <3> QED BY <2>5, <2>6, <2>7, <2>9, <3>1, <3>2, <3>3 DEF Music, l
  <2> QED BY <2>0, <2>6, <2>8, <2>11 DEF Good, After, t
<1> QED BY <1>1, <1>2

\* FetchCurrentSongTime.
LEMMA FetchGood ==
  ASSUME NEW s, Good(s), AtRest(s)
  PROVE  After(FetchCurrentSongTime(s), s)
BY CheckPrefetchGood, SameGood DEF FetchCurrentSongTime

\* The song after the current one is what Successor finds, if it finds one.
LEMMA SuccessorIs ==
  ASSUME NEW s \in Player, s.list # <<>>
  PROVE  /\ Current(s) \in EntryType /\ Current(s) = s.list[1]
         /\ Successor(s) # NoSong => Successor(s) \in Song /\ Successor(s) = Follows(Current(s).song)
<1>1. s.list \in Seq(EntryType)
  BY DEF Player
<1>2. Current(s) \in EntryType /\ Current(s) = s.list[1]
  BY <1>1 DEF Current
<1>3. Current(s).song \in Song
  BY <1>2 DEF EntryType
<1>4. Successor(s) # NoSong => Successor(s) \in Song /\ Successor(s) = Follows(Current(s).song)
  BY <1>3, SongsAssumption DEF Successor, Follows, NoSong, Song
<1> QED BY <1>2, <1>4

\* A sequence with one element more.
LEMMA AppendedIs ==
  ASSUME NEW S, NEW l \in Seq(S), NEW e \in S
  PROVE  Len(Append(l, e)) = Len(l) + 1 /\ Append(l, e)[Len(l) + 1] = e /\ \A i \in 1 .. Len(l) : Append(l, e)[i] = l[i]
OBVIOUS

\* The song of the last entry begins where the one of the first ends.
LEMMA NextCovered ==
  ASSUME NEW l \in Seq(EntryType), Len(l) = 1, NEW e \in EntryType, NEW h \in Seq(BlockType), CoversAll(l, h), Below(h, e.offset),
         e.song = Follows(l[1].song)
  PROVE  CoversAll(Append(l, e), h) /\ Goes(h, e.song)
<1> DEFINE m == Append(l, e)
<1>1. Len(m) = 2 /\ m[1] = l[1] /\ m[2] = e
  <2>1. Len(m) = Len(l) + 1 /\ m[Len(l) + 1] = e /\ \A i \in 1 .. Len(l) : m[i] = l[i]
    BY AppendedIs, ZenonT(20)
  <2>3. 1 \in 1 .. Len(l)
    OBVIOUS
  <2> HIDE DEF m
  <2> QED BY <2>1, <2>3
<1>2. \A k \in 1 .. Len(h) : l[1].song = h[k].song /\ l[1].offset = h[k].pos
  <2>1. 1 .. Len(l) = {1}
    OBVIOUS
  <2> QED BY <2>1 DEF CoversAll, CoversBlock
<1> HIDE DEF m
<1>3. \A j \in 1 + 1 .. Len(m) : j = 2
  BY <1>1
<1>4. CoversAll(m, h)
  <2>1. ASSUME NEW k \in 1 .. Len(h) PROVE CoversBlock(m, h[k])
    <3>1. \A j \in 1 + 1 .. Len(m) : m[j].offset > h[k].pos
      <4>1. e.offset \in Nat /\ h[k].pos \in Nat
        <5>1. h[k] \in BlockType
          OBVIOUS
        <5> QED BY <5>1 DEF EntryType, BlockType
      <4>2. e.offset > h[k].pos
        BY <4>1 DEF Below
      <4> QED BY <1>1, <1>3, <4>2
    <3>2. 1 \in 1 .. Len(m)
      BY <1>1
    <3> QED BY <1>1, <1>2, <3>1, <3>2 DEF CoversBlock
  <2> QED BY <2>1 DEF CoversAll
<1>5. Goes(h, e.song)
  <2>1. h # <<>> => Len(h) \in 1 .. Len(h)
    OBVIOUS
  <2> QED BY <1>2, <2>1 DEF Goes
<1> QED BY <1>4, <1>5 DEF m

\* DecStop: the next song is appended and started.  If the song that has ended was the
\* only one in the list then what the output has is of this song.
LEMMA DecStopGood ==
  ASSUME NEW s, Good(s), AtRest(s), NEW r \in DecStop(s)
  PROVE  After(r, s)
<1>0. s \in Player /\ s.list \in Seq(EntryType)
  BY DEF Good, Consistent, Player
<1>1. CASE s.dec = NoDec
  BY <1>1, CompletedGood DEF DecStop
<1>2. CASE s.dec # NoDec /\ s.list = <<>>
  <2>1. r = [s EXCEPT !.dec = NoDec]
    BY <1>2 DEF DecStop
  <2>2. r \in Player
    BY <1>0, <2>1 DEF Player
  <2>3. r.open = s.open /\ r.dec = NoDec /\ r.now = s.now /\ r.stale = s.stale /\ r.buf = s.buf /\ ~ s.open /\ r.todo = s.todo
    BY <1>0, <1>2, <2>1 DEF Good, Consistent, Player
  <2>4. Consistent(r)
    BY <2>2, <2>3 DEF Good, Consistent, Silent
  <2> QED BY <2>3, <2>4, ClosedGood
<1>3. CASE s.dec # NoDec /\ s.list # <<>>
  <2> DEFINE more == Len(s.list) > 1
             a == Completed(s)
             t == [a EXCEPT !.dec = NoDec, !.LastStart = IF s.MaxPos > 0 THEN NoSong ELSE @, !.late = @ \/ more]
             e == Entry(Successor(t), Current(t).offset + t.MaxPos)
             v == [t EXCEPT !.list = Append(@, e)]
  <2>1. r \in IF e.song = NoSong THEN {OutFlush(t)} ELSE UNION {DecoderStart(u, e) : u \in OutputStart(v, e.offset)}
    BY <1>3 DEF DecStop
  <2>2. After(a, s) /\ a \in Player /\ Resembles(a.list, s.list) /\ a.now = s.now /\ a.buf = s.buf /\ a.MaxPos = s.MaxPos /\ AtRest(a)
    BY <1>0, CompletedGood, CompletedIs DEF AtRest
  <2> HIDE DEF a
  <2>3. (IF s.MaxPos > 0 THEN NoSong ELSE a.LastStart) \in Song \cup {NoSong}
    BY <2>2 DEF Player
  <2>4. (a.late \/ more) \in BOOLEAN
    OBVIOUS
  <2>5. t \in Player
    BY <2>2, <2>3, <2>4 DEF Player
  <2>6. /\ t.list = a.list /\ t.dec = NoDec /\ t.open = a.open /\ t.wrong = a.wrong /\ t.late = (a.late \/ more)
        /\ t.faults = a.faults /\ t.MaxPos = a.MaxPos /\ t.buf = a.buf /\ t.now = a.now /\ t.stale = a.stale
        /\ t.astray = a.astray /\ AtRest(t)
    BY <2>2 DEF Player, AtRest
  <2> HIDE DEF t, more
  <2>0. t.todo.cmd = "nothing" /\ a.todo.cmd = "nothing"
    BY <2>2, <2>6, TodoIs DEF AtRest
  <2>7. Consistent(t)
    BY <2>0, <2>2, <2>5, <2>6 DEF After, Good, Consistent, Silent
  <2>8. Heard(t) = Heard(a) /\ Heard(t) \in Seq(BlockType)
    BY <2>5, <2>6, HeardTyped DEF Heard
  <2>9. ~ Confused(t) => Music(a) /\ Music(t) /\ ~ more
    <3>1. ~ t.late => ~ a.late /\ ~ more
      BY <2>6, Zenon
    <3>2. ~ Confused(t) => Music(a) /\ ~ more
      BY <2>0, <2>2, <2>6, <3>1 DEF After, Good, Confused
    <3>3. Leads(a) => Leads(t)
      BY <2>6, <2>8 DEF Leads
    <3> QED BY <2>6, <2>8, <3>2, <3>3 DEF Music
  <2>10. t.list # <<>> /\ t.list \in Seq(EntryType) /\ Len(t.list) = Len(s.list) /\ Len(t.list) \in Nat /\ t.MaxPos \in Nat
    BY <1>0, <1>3, <2>2, <2>5, <2>6 DEF Resembles, Player
  <2>11. CASE e.song = NoSong
    <3> DEFINE u == OutFlush(t)
    <3>1. r = u /\ u \in Player /\ Alike(u, t) /\ u.buf = t.buf /\ u.now = t.now /\ u.stale = t.stale /\ u.astray = t.astray
      BY <2>1, <2>5, <2>11, OutFlushIs
    <3> HIDE DEF u
    <3>2. Good(t)
      BY <2>0, <2>7, <2>9 DEF Good
    <3>3. Resembles(u.list, t.list)
      BY <3>1 DEF Resembles, Alike
    <3>4. After(u, t)
      BY <3>1, <3>2, <3>3, ResemblingGood DEF Alike
    <3> QED BY <2>2, <2>6, <3>1, <3>4 DEF After
  <2>12. CASE e.song # NoSong
    <3>1. PICK u \in OutputStart(v, e.offset) : r \in DecoderStart(u, e)
      BY <2>1, <2>12
    <3>2. Current(t) \in EntryType /\ Current(t) = t.list[1]
      BY <2>5, <2>10, SuccessorIs
    <3>3. e.song = Successor(t)
      BY DEF Entry
    <3>4. Successor(t) \in Song /\ Successor(t) = Follows(Current(t).song)
      BY <2>5, <2>10, <2>12, <3>3, SuccessorIs
    <3>5. Current(t).offset \in Nat /\ Current(t).offset + t.MaxPos \in Nat
      BY <2>10, <3>2 DEF EntryType
    <3>6. e \in EntryType /\ e.offset = Current(t).offset + t.MaxPos /\ e.song = Follows(Current(t).song)
      BY <3>3, <3>4, <3>5, NewEntryTyped
    <3> HIDE DEF e
    <3> DEFINE m == Append(t.list, e)
    <3>7. m \in Seq(EntryType) /\ m # <<>> /\ Last(m) = e
      BY <2>10, <3>6 DEF Last
    <3>8. v = [t EXCEPT !.list = m]
      OBVIOUS
    <3> HIDE DEF m
    <3>9. v \in Player /\ v.list = m
      BY <2>5, <3>7, <3>8 DEF Player
    <3>10. v.open = t.open /\ v.wrong = t.wrong /\ v.late = t.late /\ v.astray = t.astray /\ v.todo = t.todo /\ v.buf = t.buf
           /\ v.now = t.now /\ v.stale = t.stale /\ v.dec = NoDec
      BY <2>5, <2>6, <3>8 DEF Player
    <3> HIDE DEF v
    <3>11. e.offset \in Nat
      BY <3>6 DEF EntryType
    <3>12. /\ u \in Player /\ u.list = m /\ u.wrong = t.wrong /\ u.late = t.late /\ AtRest(u)
           /\ \/ u.open /\ u.buf = t.buf /\ u.now = t.now /\ u.stale = t.stale /\ u.astray = t.astray
              \/ ~ u.open /\ u.faults # 0 /\ Silent(u)
      <4>1. /\ u \in Player /\ u.list = v.list /\ u.wrong = v.wrong /\ u.late = v.late /\ u.todo = v.todo
            /\ \/ /\ u.open /\ u.dec = v.dec /\ u.buf = v.buf /\ u.now = v.now /\ u.stale = v.stale /\ u.astray = v.astray
                  /\ u.faults = v.faults /\ u.MaxPos = v.MaxPos
               \/ ~ u.open /\ u.faults # 0 /\ (v.open => Silent(u)) /\ (~ v.open => u.buf = v.buf /\ u.now = v.now /\ u.stale = v.stale)
        BY <3>1, <3>9, <3>10, <3>11, OutputStartIs
      <4>2. ~ t.open => Silent(t)
        BY <2>7 DEF Consistent
      <4>3. AtRest(u)
        BY <2>6, <3>10, <4>1 DEF AtRest
      <4> QED BY <3>9, <3>10, <4>1, <4>2, <4>3 DEF Silent
    <3>13. Ready(u, e)
      BY <2>7, <3>6, <3>7, <3>12 DEF Ready, AtLast, Silent, Consistent
    <3>14. u.now \in {s.now, NoBlock}
      BY <2>2, <2>6, <3>12 DEF Silent
    <3>15. CASE ~ u.open
      <4>1. After(r, u)
        BY <3>1, <3>12, <3>13, <3>15, StartedSilent
      <4> QED BY <3>14, <4>1 DEF After
    <3>16. CASE u.open
      <4>1. Heard(u) = Heard(t)
        BY <3>12, <3>16 DEF Heard
      <4>2. ASSUME ~ Confused(u)
            PROVE  CoversAll(u.list, Heard(u)) /\ Below(Heard(u), Last(u.list).offset) /\ InOrder(Heard(u)) /\ Goes(Heard(u), e.song)
                   /\ Leads(u)
        <5>1. Music(t) /\ ~ more
          BY <2>9, <3>12, <3>16, <4>2 DEF Confused
        <5>2. Len(t.list) = 1 /\ Last(t.list) = t.list[1]
          <6>1. ~ more => Len(t.list) <= 1
            BY <2>10 DEF more
          <6> QED BY <2>10, <5>1, <6>1, OneEntry
        <5>3. Below(Heard(t), e.offset) /\ CoversAll(t.list, Heard(t)) /\ InOrder(Heard(t)) /\ Leads(t)
          BY <3>2, <3>6, <5>1, <5>2 DEF Music
        <5>4. CoversAll(m, Heard(t)) /\ Goes(Heard(t), e.song)
          BY <2>8, <2>10, <3>2, <3>6, <5>2, <5>3, NextCovered DEF m
        <5>5. ASSUME u.stale
              PROVE  u.now.pos <= e.offset
          <6>1. t.stale /\ t.now = u.now
            BY <3>12, <3>16, <5>5
          <6>2. t.now \in BlockType
            BY <2>5, <2>7, <6>1 DEF Consistent, Player
          <6>3. t.now.pos \in Nat /\ t.now.pos <= Current(t).offset
            BY <3>2, <5>2, <5>3, <6>1, <6>2 DEF Leads, BlockType
          <6>4. t.now.pos <= Current(t).offset + t.MaxPos
            BY <2>10, <3>5, <6>3
          <6> QED BY <3>6, <6>1, <6>4
        <5>6. Leads(u)
          BY <3>7, <3>12, <3>16, <4>1, <5>3, <5>5 DEF Leads
        <5> QED BY <3>7, <3>12, <4>1, <5>3, <5>4, <5>6
      <4>3. After(r, u)
        BY <3>1, <3>13, <4>2, StartedGood
      <4> QED BY <3>14, <4>3 DEF After
    <3> QED BY <3>15, <3>16
  <2> QED BY <2>11, <2>12
<1> QED BY <1>1, <1>2, <1>3

\* OutStop.
LEMMA OutStopGood ==
  ASSUME NEW s, Good(s), AtRest(s), NEW r \in OutStop(s)
  PROVE  After(r, s)
<1>1. CASE s.list = <<>>
  BY <1>1, SameGood DEF OutStop
<1>2. CASE s.list # <<>>
  <2> DEFINE e == [s.list[1] EXCEPT !.song = 1]
             m == [s.list EXCEPT ![1] = e]
             t == [s EXCEPT !.list[1].song = 1]
  <2>1. r = Stop(t)
    BY <1>2 DEF OutStop
  <2>2. s \in Player /\ s.list \in Seq(EntryType) /\ 1 \in 1 .. Len(s.list)
    BY <1>2 DEF Good, Consistent, Player
  <2>3. s.list[1] \in EntryType
    BY <2>2
  <2>4. e \in EntryType
    BY <2>3, Distinct DEF EntryType
  <2>5. t = [s EXCEPT !.list = m]
    OBVIOUS
  <2> HIDE DEF e
  <2>6. m \in Seq(EntryType) /\ m # <<>>
    BY <2>2, <2>4, ChangedList
  <2> HIDE DEF m
  <2>7. t \in Player
    BY <2>2, <2>5, <2>6 DEF Player
  <2>8. t.open = s.open /\ t.dec = s.dec /\ t.now = s.now /\ t.stale = s.stale /\ t.buf = s.buf /\ t.faults = s.faults
        /\ t.todo = s.todo /\ AtRest(t)
    BY <2>2, <2>5 DEF Player, AtRest
  <2> HIDE DEF t
  <2>9. ~ t.open => Good(t)
    BY <2>7, <2>8, ClosedGood DEF Good, Consistent, Silent, After
  <2>10. After(Stop(t), t)
    BY <2>7, <2>8, <2>9, StoppedGood
  <2> QED BY <2>1, <2>8, <2>10 DEF After
<1> QED BY <1>1, <1>2

\* The end of a seek.
LEMMA SeekStopGood ==
  ASSUME NEW s, Good(s), NEW r, r = [s EXCEPT !.seeking = FALSE]
  PROVE  After(r, s)
<1>1. s \in Player
  BY DEF Good, Consistent
<1>2. r \in Player
  BY <1>1 DEF Player
<1>3. /\ r.list = s.list /\ r.dec = s.dec /\ r.open = s.open /\ r.wrong = s.wrong /\ r.late = s.late /\ r.astray = s.astray /\ r.todo = s.todo /\ r.faults = s.faults
      /\ r.MaxPos = s.MaxPos /\ r.buf = s.buf /\ r.now = s.now /\ r.stale = s.stale
  BY <1>1 DEF Player
<1>4. Resembles(r.list, s.list)
  BY <1>3 DEF Resembles
<1> QED BY <1>2, <1>3, <1>4, ResemblingGood

(***************************************************************************)
(* The steps.                                                              *)
(***************************************************************************)

\* A command to navigate has a song.
PlainCommand == {"play", "stop", "skip", "load", "unload", "location", "decstop", "seekstop", "outstop", "end"}

CommandType == [cmd : PlainCommand, to : {NoSong}] \cup [cmd : {"navigate"}, to : Song]

Queue == queue \in Seq(CommandType)

CtrlIInv == Queue /\ Good(p)

\* What is posted is a command.
LEMMA CommandTyped ==
  /\ \A c \in PlainCommand : Plain(c) \in CommandType
  /\ \A n \in Song : Command("navigate", n) \in CommandType
  /\ \A k \in CommandType : k.cmd = "navigate" => k.to \in Song
<1>1. "navigate" \notin PlainCommand
  BY DEF PlainCommand
<1> QED BY <1>1 DEF Plain, Command, CommandType

\* Initially nothing is played.
LEMMA QueueInit ==
  ASSUME CtrlInit
  PROVE  CtrlIInv
<1>1. Queue
  <2>1. Plain("load") \in CommandType /\ Plain("play") \in CommandType
    BY CommandTyped DEF PlainCommand
  <2> QED BY <2>1 DEF CtrlInit, Queue
<1>2. <<>> \in Seq(EntryType) /\ <<>> \in Seq(BlockType)
  OBVIOUS
<1>3. p \in Player
  BY <1>2, TodoIs DEF CtrlInit, Player
<1>4. Silent(p) /\ ~ p.open /\ p.dec = NoDec
  BY DEF CtrlInit, Silent
<1>5. p.todo.cmd = "nothing"
  BY TodoIs DEF CtrlInit
<1>6. Consistent(p)
  BY <1>3, <1>4, <1>5 DEF Consistent, Silent
<1> QED BY <1>1, <1>4, <1>5, <1>6, SilentGood DEF CtrlIInv

\* What the worker executes.
LEMMA WorkerGood ==
  ASSUME CtrlIInv, Worker
  PROVE  Queue' /\ After(p', p)
<1>0. Good(p) /\ queue \in Seq(CommandType)
  BY DEF CtrlIInv, Queue
<1>1. ASSUME NEW c, NEW results, Handle(c, results)
      PROVE  Queue' /\ Head(queue) \in CommandType /\ Head(queue).cmd = c /\ p' \in results /\ AtRest(p)
  BY <1>0, <1>1 DEF Handle, Queue, AtRest
<1>2. CASE MsgPlay
  BY <1>0, <1>1, <1>2, PlayGood DEF MsgPlay
<1>3. CASE MsgStop
  <2>1. p \in Player
    BY <1>0 DEF Good, Consistent
  <2> QED BY <1>0, <1>1, <1>3, <2>1, StoppedGood DEF MsgStop
<1>4. CASE MsgNavigate
  <2>1. Queue' /\ Head(queue) \in CommandType /\ Head(queue).cmd = "navigate" /\ p' \in Navigate(p, Head(queue).to) /\ AtRest(p)
    BY <1>1, <1>4 DEF MsgNavigate
  <2>2. Head(queue).to \in Song
    BY <2>1, CommandTyped
  <2> QED BY <1>0, <2>1, <2>2, NavigateGood
<1>5. CASE MsgSkip
  BY <1>0, <1>1, <1>5, SkipGood DEF MsgSkip
<1>6. CASE MsgLoad
  <2>1. Entry(1, 0) \in EntryType
    BY Distinct, NewEntryTyped
  <2>2. <<Entry(1, 0)>> \in Seq(EntryType)
    BY <2>1
  <2> QED BY <1>0, <1>1, <1>6, <2>2, LoadGood DEF MsgLoad
<1>7. CASE MsgUnload
  <2>1. <<>> \in Seq(EntryType)
    OBVIOUS
  <2> QED BY <1>0, <1>1, <1>7, <2>1, LoadGood DEF MsgUnload
<1>8. CASE MsgLocation
  BY <1>0, <1>1, <1>8, FetchGood DEF MsgLocation
<1>9. CASE MsgDecStop
  BY <1>0, <1>1, <1>9, DecStopGood DEF MsgDecStop
<1>10. CASE MsgSeekStop
  BY <1>0, <1>1, <1>10, SeekStopGood DEF MsgSeekStop
<1>11. CASE MsgOutStop
  BY <1>0, <1>1, <1>11, OutStopGood DEF MsgOutStop
<1>12. ASSUME NEW c, NEW results, HandleRest(c, results)
       PROVE  Queue' /\ p.todo.cmd = c /\ p' \in results
  BY <1>0, <1>12 DEF HandleRest, Queue
<1>13. CASE ResumeNavigate
  BY <1>0, <1>12, <1>13, NavigatedGood DEF ResumeNavigate
<1>14. CASE ResumeStart
  BY <1>0, <1>12, <1>14, StartedIs DEF ResumeStart
<1>15. CASE ResumeTrash
  BY <1>0, <1>12, <1>15, TrashedGood DEF ResumeTrash, Good
<1>16. CASE ResumeClose
  <2>1. Queue' /\ p.todo.cmd = "close" /\ p' = [p EXCEPT !.dec = NoDec, !.todo = Nothing]
    BY <1>12, <1>16 DEF ResumeClose
  <2> QED BY <1>0, <2>1, ClosingGood
<1> QED BY <1>2, <1>3, <1>4, <1>5, <1>6, <1>7, <1>8, <1>9, <1>10, <1>11, <1>13, <1>14, <1>15, <1>16 DEF Worker

\* A decoder that goes on with its song in another way.
LEMMA DecoderGood ==
  ASSUME NEW s, Good(s), s.dec # NoDec, NEW d \in DecType, d.song = s.dec.song, d.offset = s.dec.offset, d.done = s.dec.done,
         NEW t, t \in Player, t.list = s.list, t.dec = d, t.open = s.open, t.wrong = s.wrong, t.late = s.late /\ t.astray = s.astray /\ t.todo = s.todo,
         t.faults = 0 => s.faults = 0, t.MaxPos = s.MaxPos, t.buf = s.buf, t.now = s.now /\ t.stale = s.stale
  PROVE  After(t, s)
<1>1. Consistent(t)
  BY DEF Good, Consistent, AtLast, Silent
<1>2. Heard(t) = Heard(s)
  BY DEF Heard
<1>3. ASSUME ~ Confused(t), t.todo.cmd = "nothing"
      PROVE  Music(t)
  BY <1>2, <1>3 DEF Good, Music, Leads, Confused
<1>4. ASSUME ~ Confused(t), t.todo.cmd = "trash"
      PROVE  Trashing(t)
  BY <1>2, <1>4 DEF Good, Trashing, Confused
<1> QED BY <1>1, <1>3, <1>4 DEF After, Good

\* A decoder that works is there.
LEMMA DecodingIs ==
  ASSUME Good(p), Decoding(p)
  PROVE  p \in Player /\ p.dec \in DecType /\ p.dec # NoDec /\ p.faults \in Nat
BY DEF Good, Consistent, Player, Decoding, NoDec

\* PlayStop.
LEMMA PlayStopGood ==
  ASSUME Good(p), PlayStop
  PROVE  After(p', p)
<1> DEFINE d == [p.dec EXCEPT !.status = "ended"]
<1>1. p \in Player /\ p.dec \in DecType /\ p.dec # NoDec
  BY DecodingIs DEF PlayStop
<1>2. d \in DecType /\ d.song = p.dec.song /\ d.offset = p.dec.offset /\ d.done = p.dec.done
  BY <1>1 DEF DecType
<1>3. p' = [p EXCEPT !.dec = d, !.sent = TRUE]
  BY DEF PlayStop
<1> HIDE DEF d
<1>4. p' \in Player
  BY <1>1, <1>2, <1>3 DEF Player
<1>5. /\ p'.list = p.list /\ p'.dec = d /\ p'.open = p.open /\ p'.wrong = p.wrong /\ p'.late = p.late /\ p'.astray = p.astray /\ p'.todo = p.todo
      /\ p'.faults = p.faults /\ p'.MaxPos = p.MaxPos /\ p'.buf = p.buf /\ p'.now = p.now /\ p'.stale = p.stale
  BY <1>1, <1>3 DEF Player
<1> QED BY <1>1, <1>2, <1>4, <1>5, DecoderGood

\* A decoder that ends by an error.
LEMMA DecoderEndsGood ==
  ASSUME Good(p), NEW faults \in Nat, faults >= p.faults, DecoderEnds(faults)
  PROVE  After(p', p)
<1> DEFINE d == [p.dec EXCEPT !.status = "stopped"]
<1>1. p \in Player /\ p.dec \in DecType /\ p.dec # NoDec /\ p.faults \in Nat
  BY DecodingIs DEF DecoderEnds
<1>2. d \in DecType /\ d.song = p.dec.song /\ d.offset = p.dec.offset /\ d.done = p.dec.done
  BY <1>1 DEF DecType
<1>3. p' = [p EXCEPT !.dec = d, !.faults = faults]
  BY DEF DecoderEnds
<1> HIDE DEF d
<1>4. p' \in Player
  BY <1>1, <1>2, <1>3 DEF Player
<1>5. /\ p'.list = p.list /\ p'.dec = d /\ p'.open = p.open /\ p'.wrong = p.wrong /\ p'.late = p.late /\ p'.astray = p.astray /\ p'.todo = p.todo
      /\ p'.faults = faults /\ p'.MaxPos = p.MaxPos /\ p'.buf = p.buf /\ p'.now = p.now /\ p'.stale = p.stale
  BY <1>1, <1>3 DEF Player
<1>6. p'.faults = 0 => p.faults = 0
  BY <1>1, <1>5
<1> QED BY <1>1, <1>2, <1>4, <1>5, <1>6, DecoderGood

\* PlayError.
LEMMA PlayErrorGood ==
  ASSUME Good(p), PlayError
  PROVE  After(p', p)
<1>1. p.faults \in Nat /\ p.faults >= p.faults
  <2>1. p.faults \in Nat
    BY DecodingIs DEF PlayError, DecoderEnds
  <2> QED BY <2>1
<1> QED BY <1>1, DecoderEndsGood DEF PlayError

\* DecodeError.
LEMMA DecodeErrorGood ==
  ASSUME Good(p), DecodeError
  PROVE  After(p', p)
<1>1. p.faults \in Nat
  BY DecodingIs DEF DecodeError, DecoderEnds
<1>2. p.faults + 1 \in Nat /\ p.faults + 1 >= p.faults
  BY <1>1
<1> QED BY <1>2, DecoderEndsGood DEF DecodeError

\* SeekStop.
LEMMA SeekStopsGood ==
  ASSUME Good(p), SeekStop
  PROVE  After(p', p)
<1> DEFINE d == [p.dec EXCEPT !.jump = FALSE]
<1>1. p \in Player /\ p.dec \in DecType /\ p.dec # NoDec
  BY DecodingIs DEF SeekStop
<1>2. d \in DecType /\ d.song = p.dec.song /\ d.offset = p.dec.offset /\ d.done = p.dec.done
  BY <1>1 DEF DecType
<1>3. p' = [p EXCEPT !.dec = d]
  BY DEF SeekStop
<1> HIDE DEF d
<1>4. p' \in Player
  BY <1>1, <1>2, <1>3 DEF Player
<1>5. /\ p'.list = p.list /\ p'.dec = d /\ p'.open = p.open /\ p'.wrong = p.wrong /\ p'.late = p.late /\ p'.astray = p.astray /\ p'.todo = p.todo
      /\ p'.faults = p.faults /\ p'.MaxPos = p.MaxPos /\ p'.buf = p.buf /\ p'.now = p.now /\ p'.stale = p.stale
  BY <1>1, <1>3 DEF Player
<1> QED BY <1>1, <1>2, <1>4, <1>5, DecoderGood

\* What the decoder adds to what the output has.
LEMMA MusicGrows ==
  ASSUME NEW l \in Seq(EntryType), l # <<>>, NEW h \in Seq(BlockType), NEW b \in BlockType, NEW max \in {0, 1},
         CoversAll(l, h), Below(h, Last(l).offset + max), InOrder(h), Goes(h, b.song),
         b.song = Last(l).song, b.pos = Last(l).offset
  PROVE  CoversAll(l, Append(h, b)) /\ Below(Append(h, b), Last(l).offset + 1) /\ InOrder(Append(h, b))
<1> DEFINE g == Append(h, b)
<1>1. Len(g) = Len(h) + 1 /\ g[Len(h) + 1] = b /\ \A i \in 1 .. Len(h) : g[i] = h[i]
  BY AppendedIs, ZenonT(20)
<1> HIDE DEF g
<1>2. Len(h) \in Nat /\ Len(l) \in Nat /\ Len(l) \in 1 .. Len(l)
  OBVIOUS
<1>3. Last(l) = l[Len(l)] /\ Last(l) \in EntryType
  BY <1>2 DEF Last
<1>4. Last(l).offset \in Nat /\ b.pos \in Nat
  BY <1>3 DEF EntryType, BlockType
<1>5. \A k \in 1 .. Len(g) : k = Len(h) + 1 \/ k \in 1 .. Len(h)
  BY <1>1, <1>2
<1>6. \A k \in 1 .. Len(h) : h[k].pos \in Nat
  <2>1. \A k \in 1 .. Len(h) : h[k] \in BlockType
    OBVIOUS
  <2> QED BY <2>1 DEF BlockType
<1>7. CoversBlock(l, b)
  <2>1. Len(l) + 1 .. Len(l) = {}
    BY <1>2
  <2> QED BY <1>2, <1>3, <2>1 DEF CoversBlock
<1>8. CoversAll(l, g)
  BY <1>1, <1>5, <1>7 DEF CoversAll
<1>9. Below(g, Last(l).offset + 1)
  <2>1. ASSUME NEW k \in 1 .. Len(h) PROVE h[k].pos < Last(l).offset + 1
    <3>1. h[k].pos < Last(l).offset + max
      BY DEF Below
    <3> QED BY <1>4, <1>6, <3>1
  <2>2. b.pos < Last(l).offset + 1
    BY <1>4
  <2> QED BY <1>1, <1>5, <2>1, <2>2 DEF Below
<1>10. \A k \in 1 .. Len(h) : h[k].pos <= b.pos
  <2>1. SUFFICES ASSUME NEW k \in 1 .. Len(h) PROVE h[k].pos <= b.pos
    OBVIOUS
  <2>2. PICK i \in 1 .. Len(l) : l[i].offset = h[k].pos /\ \A j \in i + 1 .. Len(l) : l[j].offset > h[k].pos
    BY DEF CoversAll, CoversBlock
  <2>3. CASE i = Len(l)
    BY <1>3, <1>4, <2>2, <2>3
  <2>4. CASE i # Len(l)
    <3>1. Len(l) \in i + 1 .. Len(l)
      BY <1>2, <2>4
    <3>2. b.pos > h[k].pos
      BY <1>3, <2>2, <3>1
    <3> QED BY <1>4, <1>6, <3>2
  <2> QED BY <2>3, <2>4
<1>11. InOrder(g)
  <2>1. ASSUME NEW k \in 1 .. Len(g), NEW m \in 1 .. Len(g), k <= m
        PROVE  g[k].pos <= g[m].pos
    <3>1. CASE m = Len(h) + 1
      BY <1>1, <1>4, <1>5, <1>10, <3>1
    <3>2. CASE m \in 1 .. Len(h)
      <4>1. k \in 1 .. Len(h)
        BY <1>2, <2>1, <3>2
      <4> QED BY <1>1, <2>1, <3>2, <4>1 DEF InOrder
    <3> QED BY <1>5, <3>1, <3>2
  <2>2. ASSUME NEW k \in 1 .. Len(g) - 1
        PROVE  g[k + 1].song = Follows(g[k].song)
    <3>1. CASE k = Len(h)
      <4>1. h # <<>> /\ k \in 1 .. Len(h)
        BY <1>1, <1>2, <3>1
      <4> QED BY <1>1, <3>1, <4>1 DEF Goes
    <3>2. CASE k # Len(h)
      <4>1. k \in 1 .. Len(h) /\ k + 1 \in 1 .. Len(h) /\ k \in 1 .. Len(h) - 1
        BY <1>1, <1>2, <3>2
      <4> QED BY <1>1, <4>1 DEF InOrder
    <3> QED BY <3>1, <3>2
  <2> QED BY <2>1, <2>2 DEF InOrder
<1> QED BY <1>8, <1>9, <1>11 DEF g

\* The list may have the entry of one block more.
LEMMA CoversOneMore ==
  ASSUME NEW l, NEW h \in Seq(BlockType), NEW b \in BlockType, CoversAll(l, h), CoversBlock(l, b)
  PROVE  CoversAll(l, Append(h, b))
<1> DEFINE g == Append(h, b)
<1>1. Len(g) = Len(h) + 1 /\ g[Len(h) + 1] = b /\ \A i \in 1 .. Len(h) : g[i] = h[i]
  BY AppendedIs, ZenonT(20)
<1> HIDE DEF g
<1>2. \A k \in 1 .. Len(g) : k = Len(h) + 1 \/ k \in 1 .. Len(h)
  BY <1>1
<1>3. CoversAll(l, g)
  BY <1>1, <1>2 DEF CoversAll
<1> QED BY <1>3 DEF g

\* Commit: the decoder works on the last entry, which covers its block.
LEMMA CommitGood ==
  ASSUME Good(p), Commit
  PROVE  Good(p') /\ (p.now # NoBlock => p'.now = p.now)
<1> DEFINE b == [song |-> p.dec.song, pos |-> p.dec.offset]
           d == [p.dec EXCEPT !.done = TRUE]
           now == IF p.now = NoBlock THEN b ELSE p.now
           buf == IF p.now = NoBlock THEN p.buf ELSE Append(p.buf, b)
           sent == p.dec.song \in StopSongs
           left == p.todo.cmd \in {"navigate", "start"}
           stale == p.stale \/ left
<1>1. p \in Player /\ p.dec \in DecType /\ p.dec # NoDec /\ p.open /\ ~ p.dec.done
  BY DecodingIs DEF Commit
<1>2. b \in BlockType /\ b.song = p.dec.song /\ b.pos = p.dec.offset
  BY <1>1 DEF DecType, BlockType
<1>3. d \in DecType /\ d.song = p.dec.song /\ d.offset = p.dec.offset /\ d.done = TRUE
  BY <1>1 DEF DecType
<1>4. d # NoDec
  BY <1>3, Distinct
<1>5. p' = [p EXCEPT !.now = now, !.buf = buf, !.MaxPos = 1, !.dec = d, !.flush = FALSE, !.sent = sent, !.stale = stale]
  BY DEF Commit
<1> HIDE DEF b, d, left
<1>6. now \in BlockType /\ buf \in Seq(BlockType) /\ sent \in BOOLEAN /\ stale \in BOOLEAN
  BY <1>1, <1>2 DEF Player
<1>7. p.now = NoBlock => p.buf = <<>> /\ ~ p.stale
  BY DEF Good, Consistent
<1>8. now # NoBlock /\ (p.now # NoBlock => now = p.now)
  BY <1>6, Distinct
<1>9. p'.now = now /\ p'.buf = buf /\ p'.stale = stale /\ p'.todo = p.todo
  BY <1>1, <1>5 DEF Player
\* A decoder that was told to stop has nothing before it, and its block is stale.
<1>10. left => p.now = NoBlock /\ buf = <<>>
  <2>1. left => p.buf = <<>> /\ (p.now = NoBlock \/ (p.stale /\ p.dec.done))
    BY DEF Good, Consistent, left
  <2> QED BY <1>1, <2>1
<1>11. ~ left => (p'.stale <=> p.stale) /\ Heard(p') = Append(Heard(p), b)
  <2>0. p.buf \in Seq(BlockType) /\ (~ left => (p'.stale <=> p.stale))
    BY <1>1, <1>9 DEF Player
  <2>1. CASE p.now = NoBlock
    <3>1. Heard(p) = <<>> /\ now = b /\ buf = <<>>
      BY <1>7, <2>1 DEF Heard
    <3>2. <<b>> \o <<>> = Append(<<>>, b)
      <4>1. <<b>> \o <<>> = <<b>> /\ Append(<<>>, b) = <<b>>
        BY <1>2
      <4> QED BY <4>1
    <3> QED BY <1>7, <1>8, <1>9, <2>0, <2>1, <3>1, <3>2 DEF Heard
  <2>2. CASE p.now # NoBlock /\ p.stale
    <3>1. Heard(p) = p.buf /\ now = p.now /\ buf = Append(p.buf, b)
      BY <2>2 DEF Heard
    <3> QED BY <1>8, <1>9, <2>0, <2>2, <3>1 DEF Heard
  <2>3. CASE p.now # NoBlock /\ ~ p.stale
    <3>1. p.now \in BlockType
      BY <1>1, <2>3 DEF Player
    <3>2. Heard(p) = <<p.now>> \o p.buf /\ now = p.now /\ buf = Append(p.buf, b)
      BY <2>3 DEF Heard
    <3>3. <<p.now>> \o Append(p.buf, b) = Append(<<p.now>> \o p.buf, b)
      BY <1>2, <2>0, <3>1
    <3> QED BY <1>8, <1>9, <2>0, <2>3, <3>2, <3>3 DEF Heard
  <2> QED BY <2>1, <2>2, <2>3
<1> HIDE DEF now, buf, sent, stale
<1>12. p' \in Player
  BY <1>1, <1>3, <1>5, <1>6 DEF Player
<1>13. /\ p'.list = p.list /\ p'.dec = d /\ p'.open = p.open /\ p'.wrong = p.wrong /\ p'.late = p.late /\ p'.astray = p.astray
       /\ p'.faults = p.faults /\ p'.MaxPos = 1
  BY <1>1, <1>5 DEF Player
<1>14. Consistent(p')
  <2>1. Consistent(p)
    BY DEF Good
  <2>2. p'.todo.cmd \in {"navigate", "start"} => p'.buf = <<>> /\ p'.stale /\ p'.dec.done
    BY <1>3, <1>9, <1>10, <1>13 DEF left, stale
  <2>3. p'.dec # NoDec /\ p'.todo.cmd \in {"nothing", "trash"} /\ p'.open /\ ~ p'.wrong => AtLast(p', p'.dec)
    BY <1>1, <1>3, <1>9, <1>13, <2>1 DEF Consistent, AtLast
  <2> QED BY <1>1, <1>8, <1>9, <1>12, <1>13, <2>1, <2>2, <2>3 DEF Consistent
<1>15. ASSUME ~ Confused(p'), p.todo.cmd \in {"nothing", "trash"}
       PROVE  /\ ~ Confused(p) /\ ~ left /\ p.list \in Seq(EntryType) /\ p.list # <<>> /\ Last(p.list) \in EntryType
              /\ b.song = Last(p.list).song /\ b.pos = Last(p.list).offset
  <2>1. ~ Confused(p) /\ ~ left /\ AtLast(p, p.dec)
    BY <1>1, <1>13, <1>15 DEF Good, Consistent, Confused, left
  <2>2. p.list \in Seq(EntryType) /\ p.list # <<>>
    BY <1>1, <2>1 DEF AtLast, Player
  <2>3. Last(p.list) \in EntryType
    BY <2>2 DEF Last
  <2> QED BY <1>2, <2>1, <2>2, <2>3 DEF AtLast
<1>16. ASSUME ~ Confused(p'), p'.todo.cmd = "nothing"
       PROVE  Music(p')
  <2>1. Music(p) /\ p.MaxPos \in {0, 1} /\ Heard(p) \in Seq(BlockType)
    BY <1>1, <1>9, <1>15, <1>16, HeardTyped DEF Good, Player
  <2>2. Goes(Heard(p), b.song)
    BY <1>1, <1>2, <2>1 DEF Music
  <2>3. /\ CoversAll(p.list, Append(Heard(p), b)) /\ Below(Append(Heard(p), b), Last(p.list).offset + 1)
        /\ InOrder(Append(Heard(p), b))
    BY <1>2, <1>9, <1>15, <1>16, <2>1, <2>2, MusicGrows DEF Music
  <2>4. Heard(p') = Append(Heard(p), b) /\ (p'.stale <=> p.stale)
    BY <1>9, <1>11, <1>15, <1>16
  <2>5. Leads(p')
    <3>1. SUFFICES ASSUME p'.stale
                   PROVE  p'.now.pos <= Last(p'.list).offset /\ \A k \in 1 .. Len(Heard(p')) : p'.now.pos <= Heard(p')[k].pos
      BY DEF Leads
    <3>2. p.stale /\ p'.now = p.now
      BY <1>7, <1>8, <1>9, <2>4, <3>1
    <3>3. p.now.pos <= Last(p.list).offset /\ \A k \in 1 .. Len(Heard(p)) : p.now.pos <= Heard(p)[k].pos
      BY <2>1, <3>2 DEF Music, Leads
    <3> DEFINE g == Append(Heard(p), b)
    <3>4. Len(g) = Len(Heard(p)) + 1 /\ g[Len(Heard(p)) + 1] = b /\ \A i \in 1 .. Len(Heard(p)) : g[i] = Heard(p)[i]
      BY <1>2, <2>1, AppendedIs, ZenonT(20)
    <3> HIDE DEF g
    <3>5. \A k \in 1 .. Len(g) : k = Len(Heard(p)) + 1 \/ k \in 1 .. Len(Heard(p))
      BY <2>1, <3>4
    <3>6. p.now.pos <= b.pos
      BY <1>9, <1>15, <1>16, <3>3
    <3>7. \A k \in 1 .. Len(g) : p.now.pos <= g[k].pos
      BY <3>3, <3>4, <3>5, <3>6
    <3> QED BY <1>13, <2>4, <3>2, <3>3, <3>7 DEF g
  <2> QED BY <1>3, <1>13, <2>3, <2>4, <2>5 DEF Music
<1>17. ASSUME ~ Confused(p'), p'.todo.cmd = "trash"
       PROVE  Trashing(p')
  <2>1. Trashing(p) /\ Heard(p) \in Seq(BlockType)
    BY <1>1, <1>9, <1>15, <1>17, HeardTyped DEF Good
  <2>2. CoversBlock(p.list, b)
    <3>1. Len(p.list) \in 1 .. Len(p.list) /\ Len(p.list) + 1 .. Len(p.list) = {} /\ Last(p.list) = p.list[Len(p.list)]
      BY <1>9, <1>15, <1>17 DEF Last
    <3> QED BY <1>9, <1>15, <1>17, <3>1 DEF CoversBlock
  <2>3. CoversAll(p.list, Append(Heard(p), b))
    BY <1>2, <2>1, <2>2, CoversOneMore DEF Trashing
  <2> QED BY <1>9, <1>11, <1>13, <1>15, <1>17, <2>1, <2>3 DEF Trashing
<1> QED BY <1>8, <1>9, <1>14, <1>16, <1>17 DEF Good

\* What is left when the output has played a block.
LEMMA CoversShrinks ==
  ASSUME NEW l, NEW h \in Seq(BlockType), CoversAll(l, h), h # <<>>
  PROVE  CoversAll(l, Tail(h))
<1>1. Len(h) \in Nat /\ Len(Tail(h)) = Len(h) - 1 /\ \A k \in 1 .. Len(Tail(h)) : Tail(h)[k] = h[k + 1]
  OBVIOUS
<1>2. \A k \in 1 .. Len(Tail(h)) : k + 1 \in 1 .. Len(h)
  BY <1>1
<1> QED BY <1>1, <1>2 DEF CoversAll

\* And the rest is as good.
LEMMA MusicShrinks ==
  ASSUME NEW l, NEW h \in Seq(BlockType), NEW limit, NEW song, CoversAll(l, h), Below(h, limit), InOrder(h), h # <<>>
  PROVE  /\ CoversAll(l, Tail(h)) /\ Below(Tail(h), limit) /\ InOrder(Tail(h))
         /\ Goes(h, song) => Goes(Tail(h), song)
<1> DEFINE g == Tail(h)
<1>1. Len(h) \in Nat /\ Len(g) = Len(h) - 1 /\ g \in Seq(BlockType)
  OBVIOUS
<1>2. \A k \in 1 .. Len(g) : g[k] = h[k + 1]
  OBVIOUS
<1> HIDE DEF g
<1>3. \A k \in 1 .. Len(g) : k + 1 \in 1 .. Len(h)
  BY <1>1
<1>4. CoversAll(l, g)
  BY CoversShrinks DEF g
<1>5. Below(g, limit)
  BY <1>2, <1>3 DEF Below
<1>6. \A k, m \in 1 .. Len(g) : k <= m => g[k].pos <= g[m].pos
  <2>1. SUFFICES ASSUME NEW k \in 1 .. Len(g), NEW m \in 1 .. Len(g), k <= m PROVE g[k].pos <= g[m].pos
    OBVIOUS
  <2>2. k + 1 <= m + 1
    BY <1>1, <2>1
  <2> QED BY <1>2, <1>3, <2>2 DEF InOrder
<1>7. \A k \in 1 .. Len(g) - 1 : g[k + 1].song = Follows(g[k].song)
  <2>1. SUFFICES ASSUME NEW k \in 1 .. Len(g) - 1 PROVE g[k + 1].song = Follows(g[k].song)
    OBVIOUS
  <2>2. k \in 1 .. Len(g) /\ k + 1 \in 1 .. Len(g) /\ k + 1 \in 1 .. Len(h) - 1
    BY <1>1
  <2> QED BY <1>2, <2>2 DEF InOrder
<1>8. Goes(h, song) => Goes(g, song)
  <2>1. SUFFICES ASSUME Goes(h, song), g # <<>> PROVE song = Follows(g[Len(g)].song)
    BY DEF Goes
  <2>2. Len(g) \in 1 .. Len(g) /\ Len(g) + 1 = Len(h)
    BY <1>1, <2>1
  <2> QED BY <1>2, <2>1, <2>2 DEF Goes
<1> QED BY <1>4, <1>5, <1>6, <1>7, <1>8 DEF InOrder, g

\* PlayBlock: the next block is of the song that follows.
LEMMA PlayBlockGood ==
  ASSUME Good(p), PlayBlock
  PROVE  /\ Good(p')
         /\ ~ Confused(p) /\ ~ p.stale => p'.now = p.now \/ p'.now.song = Follows(p.now.song)
<1> DEFINE now == Head(p.buf)
           buf == Tail(p.buf)
<1>1. p \in Player /\ p.open /\ p.buf # <<>> /\ p.buf \in Seq(BlockType)
  BY DEF Good, Consistent, PlayBlock, Player
<1>2. now \in BlockType /\ buf \in Seq(BlockType) /\ <<now>> \o buf = p.buf /\ now = p.buf[1]
  BY <1>1
<1>3. p' = [p EXCEPT !.now = now, !.buf = buf, !.stale = FALSE]
  BY DEF PlayBlock
<1> HIDE DEF now, buf
<1>4. p' \in Player
  BY <1>1, <1>2, <1>3 DEF Player
<1>5. /\ p'.list = p.list /\ p'.dec = p.dec /\ p'.open = p.open /\ p'.wrong = p.wrong /\ p'.late = p.late /\ p'.astray = p.astray
      /\ p'.todo = p.todo /\ p'.faults = p.faults /\ p'.MaxPos = p.MaxPos /\ p'.buf = buf /\ p'.now = now /\ p'.stale = FALSE
  BY <1>1, <1>3 DEF Player
<1>6. now # NoBlock /\ p.now # NoBlock
  BY <1>1, <1>2, Distinct DEF Good, Consistent
<1>7. Consistent(p')
  <2>1. p.todo.cmd \notin {"navigate", "start"}
    BY <1>1 DEF Good, Consistent
  <2> QED BY <1>1, <1>4, <1>5, <1>6, <2>1 DEF Good, Consistent, AtLast
<1>8. Heard(p') = p.buf /\ Leads(p')
  BY <1>2, <1>5, <1>6 DEF Heard, Leads
<1>9. Heard(p) \in Seq(BlockType) /\ (p.stale => Heard(p) = p.buf)
  BY <1>1, <1>6, HeardTyped DEF Heard
<1>10. ~ p.stale => Heard(p) # <<>> /\ Heard(p)[1] = p.now /\ Heard(p)[2] = now /\ Len(Heard(p)) >= 2
  <2>1. Len(p.buf) \in Nat /\ 1 \in 1 .. Len(p.buf)
    BY <1>1
  <2>2. ~ p.stale => Heard(p) # <<>> /\ Heard(p)[1] = p.now /\ Len(Heard(p)) = Len(p.buf) + 1
                     /\ \A k \in 1 .. Len(p.buf) : Heard(p)[k + 1] = p.buf[k]
    BY <1>1, <1>6, HeardTyped
  <2>3. ~ p.stale => Heard(p)[1 + 1] = p.buf[1]
    BY <2>1, <2>2
  <2> QED BY <1>2, <2>1, <2>2, <2>3
<1>11. ~ p.stale => Tail(Heard(p)) = p.buf
  <2>1. ~ p.stale => Heard(p) = <<p.now>> \o p.buf /\ p.now \in BlockType
    BY <1>1, <1>6 DEF Heard, Player
  <2> QED BY <1>1, <2>1
<1>12. ASSUME ~ Confused(p), p.todo.cmd = "nothing"
       PROVE  Music(p') /\ (~ p.stale => now.song = Follows(p.now.song))
  <2>1. Music(p)
    BY <1>12 DEF Good
  <2>2. CASE p.stale
    BY <1>5, <1>8, <1>9, <2>1, <2>2 DEF Music
  <2>3. CASE ~ p.stale
    <3>1. /\ CoversAll(p.list, p.buf) /\ Below(p.buf, Last(p.list).offset + p.MaxPos) /\ InOrder(p.buf)
          /\ Goes(Heard(p), p.dec.song) => Goes(p.buf, p.dec.song)
      <4> DEFINE h == Heard(p)
                 up == Last(p.list).offset + p.MaxPos
      <4>1. h \in Seq(BlockType) /\ h # <<>> /\ Tail(h) = p.buf /\ CoversAll(p.list, h) /\ Below(h, up) /\ InOrder(h)
        BY <1>9, <1>10, <1>11, <2>1, <2>3 DEF Music
      <4> HIDE DEF h, up
      <4>2. CoversAll(p.list, Tail(h)) /\ Below(Tail(h), up) /\ InOrder(Tail(h)) /\ (Goes(h, p.dec.song) => Goes(Tail(h), p.dec.song))
        BY <4>1, MusicShrinks
      <4> QED BY <4>1, <4>2 DEF h, up
    <3>2. Music(p')
      BY <1>5, <1>8, <2>1, <3>1 DEF Music
    <3>3. 1 \in 1 .. Len(Heard(p)) - 1
      BY <1>9, <1>10, <2>3
    <3>4. Heard(p)[1 + 1].song = Follows(Heard(p)[1].song)
      BY <2>1, <3>3 DEF Music, InOrder
    <3> QED BY <1>10, <2>3, <3>2, <3>4
  <2> QED BY <2>2, <2>3
<1>13. ASSUME ~ Confused(p), p.todo.cmd = "trash"
       PROVE  Trashing(p') /\ (~ p.stale => now = p.now)
  <2>1. Trashing(p)
    BY <1>13 DEF Good
  <2>2. CoversAll(p.list, p.buf)
    BY <1>9, <1>10, <1>11, <2>1, CoversShrinks DEF Trashing
  <2>3. ASSUME ~ p.stale
        PROVE  now = p.now
    <3>1. 1 \in 1 .. Len(Heard(p)) /\ 2 \in 1 .. Len(Heard(p)) /\ 1 .. Len(p.list) = {1}
      BY <1>9, <1>10, <2>1, <2>3 DEF Trashing
    <3>2. CoversBlock(p.list, p.now) /\ CoversBlock(p.list, now)
      BY <1>10, <2>1, <2>3, <3>1 DEF Trashing, CoversAll
    <3>3. now.song = p.now.song /\ now.pos = p.now.pos
      BY <3>1, <3>2 DEF CoversBlock
    <3>4. now \in BlockType /\ p.now \in BlockType
      BY <1>1, <1>2, <1>6 DEF Player
    <3> QED BY <3>3, <3>4 DEF BlockType
  <2> QED BY <1>5, <1>8, <2>1, <2>2, <2>3 DEF Trashing
<1>14. ~ Confused(p) /\ ~ p.stale => now = p.now \/ now.song = Follows(p.now.song)
  <2>1. p.todo.cmd \in {"nothing", "trash"}
    <3>1. p.todo \in TodoType
      BY <1>1 DEF Player
    <3>2. p.todo.cmd \notin {"navigate", "start", "close"}
      BY <1>1 DEF Good, Consistent
    <3>3. p.todo.cmd \in {"nothing", "navigate", "start", "trash", "close"}
      BY <3>1 DEF TodoType
    <3> QED BY <3>2, <3>3
  <2> QED BY <1>12, <1>13, <2>1
<1> QED BY <1>5, <1>7, <1>12, <1>13, <1>14 DEF Good, Confused

\* EndOfData.
LEMMA EndOfDataGood ==
  ASSUME Good(p), EndOfData
  PROVE  After(p', p)
<1>1. p \in Player /\ p' = [p EXCEPT !.flush = FALSE]
  BY DEF Good, Consistent, EndOfData
<1>2. p' \in Player
  BY <1>1 DEF Player
<1>3. /\ p'.list = p.list /\ p'.dec = p.dec /\ p'.open = p.open /\ p'.wrong = p.wrong /\ p'.late = p.late /\ p'.astray = p.astray /\ p'.todo = p.todo
      /\ p'.faults = p.faults /\ p'.MaxPos = p.MaxPos /\ p'.buf = p.buf /\ p'.now = p.now /\ p'.stale = p.stale
  BY <1>1 DEF Player
<1>4. Resembles(p'.list, p.list)
  BY <1>3 DEF Resembles
<1> QED BY <1>2, <1>3, <1>4, ResemblingGood

\* OutError.
LEMMA OutErrorGood ==
  ASSUME Good(p), OutError
  PROVE  After(p', p)
<1>1. p \in Player /\ p' = [p EXCEPT !.faults = @ + 1]
  BY DEF Good, Consistent, OutError
<1>2. p.faults \in Nat /\ p.faults + 1 \in Nat /\ p.faults + 1 # 0
  BY <1>1 DEF Player
<1>3. p' \in Player
  BY <1>1, <1>2 DEF Player
<1>4. /\ p'.list = p.list /\ p'.dec = p.dec /\ p'.open = p.open /\ p'.wrong = p.wrong /\ p'.late = p.late /\ p'.astray = p.astray /\ p'.todo = p.todo
      /\ p'.faults # 0 /\ p'.MaxPos = p.MaxPos /\ p'.buf = p.buf /\ p'.now = p.now /\ p'.stale = p.stale
  BY <1>1, <1>2 DEF Player
<1>5. Resembles(p'.list, p.list)
  BY <1>4 DEF Resembles
<1> QED BY <1>3, <1>4, <1>5, ResemblingGood

\* What is posted.
LEMMA Posted ==
  ASSUME Queue, [CtrlNext]_CtrlVars, ~ Worker
  PROVE  Queue'
<1>0. queue \in Seq(CommandType)
  BY DEF Queue
<1>1. ASSUME NEW c \in PlainCommand, Post(c)
      PROVE  Queue'
  BY <1>0, <1>1, CommandTyped DEF Post, Queue
<1>2. CASE UNCHANGED queue
  BY <1>0, <1>2 DEF Queue
<1>3. CASE Commit
  BY <1>1, <1>2, <1>3 DEF PlainCommand, Commit
<1>4. CASE PlayStop
  BY <1>1, <1>2, <1>4 DEF PlainCommand, PlayStop
<1>5. CASE PlayError \/ DecodeError
  BY <1>1, <1>5 DEF PlainCommand, PlayError, DecodeError, DecoderEnds
<1>6. CASE SeekStop
  BY <1>1, <1>6 DEF PlainCommand, SeekStop
<1>7. CASE PlayBlock
  BY <1>2, <1>7 DEF PlayBlock
<1>8. CASE EndOfData
  BY <1>1, <1>8 DEF PlainCommand, EndOfData
<1>9. CASE OutError
  BY <1>1, <1>9 DEF PlainCommand, OutError
<1>10. CASE User
  <2>1. PICK c \in UserCommand : queue' = Append(queue, c)
    BY <1>10 DEF User
  <2>2. c \in CommandType
    BY <2>1, CommandTyped DEF UserCommand, PlainCommand
  <2> QED BY <1>0, <2>1, <2>2 DEF Queue
<1>11. CASE Poll
  BY <1>1, <1>11 DEF PlainCommand, Poll
<1>12. CASE UninitBegin
  <2>1. Plain("location") \in CommandType
    BY CommandTyped DEF PlainCommand
  <2> QED BY <1>12, <2>1 DEF UninitBegin, Queue
<1>13. CASE Uninit
  BY <1>1, <1>13 DEF PlainCommand, Uninit, PostUnload, PostPill
<1>14. CASE UNCHANGED CtrlVars
  BY <1>2, <1>14 DEF CtrlVars
<1> QED BY <1>3, <1>4, <1>5, <1>6, <1>7, <1>8, <1>9, <1>10, <1>11, <1>12, <1>13, <1>14
        DEF CtrlNext, Decoder, Output

\* The output goes on to the song that follows, and only when it plays a block.
LEMMA StepGood ==
  ASSUME CtrlIInv, [CtrlNext]_CtrlVars
  PROVE  /\ CtrlIInv'
         /\ \/ p'.now \in {p.now, NoBlock}
            \/ p.now = NoBlock
            \/ ~ Confused(p) /\ ~ p.stale => p'.now = p.now \/ p'.now.song = Follows(p.now.song)
<1>0. Good(p) /\ Queue
  BY DEF CtrlIInv
<1>1. CASE Worker
  BY <1>1, WorkerGood DEF After, CtrlIInv
<1>2. CASE ~ Worker
  <2>1. Queue'
    BY <1>0, <1>2, Posted
  <2>2. CASE UNCHANGED p
    BY <1>0, <2>1, <2>2 DEF CtrlIInv, Good, Consistent, Music, Leads, Trashing, Confused, Heard, AtLast, Silent, Player
  <2>3. CASE Commit
    BY <1>0, <2>1, <2>3, CommitGood DEF CtrlIInv
  <2>4. CASE PlayBlock
    BY <1>0, <2>1, <2>4, PlayBlockGood DEF CtrlIInv
  <2>5. ASSUME After(p', p)
        PROVE  CtrlIInv' /\ p'.now \in {p.now, NoBlock}
    BY <2>1, <2>5 DEF CtrlIInv, After
  <2>6. CASE PlayStop \/ PlayError \/ SeekStop \/ EndOfData \/ DecodeError \/ OutError
    BY <1>0, <2>5, <2>6, PlayStopGood, PlayErrorGood, SeekStopsGood, EndOfDataGood, DecodeErrorGood, OutErrorGood
  <2>7. CASE User \/ Poll \/ UninitBegin \/ Uninit \/ UNCHANGED CtrlVars
    BY <2>2, <2>7 DEF User, Poll, UninitBegin, Uninit, PostUnload, PostPill, CtrlVars
  <2> QED BY <1>2, <2>3, <2>4, <2>6, <2>7 DEF CtrlNext, Decoder, Output
<1> QED BY <1>1, <1>2

\* The invariant of the controller.
LEMMA CtrlInvariant == CtrlSpec => []CtrlIInv
<1>1. CtrlInit => CtrlIInv
  BY QueueInit
<1>2. CtrlIInv /\ [CtrlNext]_CtrlVars => CtrlIInv'
  BY StepGood
<1> QED BY <1>1, <1>2, PTL DEF CtrlSpec

(***************************************************************************)
(* The theorems.                                                           *)
(***************************************************************************)

\* controller.cpp, DecoderStart: for playlists of any size, and any number of commands and
\* failures in any order, the decoder works on the last entry of the list of prefetched
\* songs.
THEOREM DecoderAtLast == CtrlSpec => []DecodesLast
<1>1. CtrlIInv => DecodesLast
  BY DEF CtrlIInv, Good, Consistent, AtLast, DecodesLast
<1> QED BY <1>1, CtrlInvariant, PTL

\* controller.cpp, CheckPrefetch: the entries that it drops are played, so for all that the
\* output still has the list knows the song.  What a decoder delivers after it was told to
\* stop is stale, and not covered.
THEOREM ListAlwaysCovers == CtrlSpec => []ListCovers
<1>1. ASSUME CtrlIInv, ~ Confused(p), NEW b \in Range(p.buf) \cup (IF p.stale THEN {} ELSE {p.now} \ {NoBlock})
      PROVE  CoversBlock(p.list, b)
  <2>1. p \in Player /\ (p.now = NoBlock => p.buf = <<>>)
    BY <1>1 DEF CtrlIInv, Good, Consistent
  <2>2. p.buf \in Seq(BlockType) /\ Len(p.buf) \in Nat
    BY <2>1 DEF Player
  <2>3. Range(p.buf) = {p.buf[i] : i \in 1 .. Len(p.buf)}
    BY <2>2 DEF Range
  <2>4. p.now # NoBlock
    BY <1>1, <2>1, <2>2, <2>3
  <2>5. \E k \in 1 .. Len(Heard(p)) : Heard(p)[k] = b
    <3>1. CASE p.stale
      BY <1>1, <2>3, <2>4, <3>1 DEF Heard
    <3>2. CASE ~ p.stale
      <4>1. Len(Heard(p)) = Len(p.buf) + 1 /\ Heard(p)[1] = p.now /\ \A k \in 1 .. Len(p.buf) : Heard(p)[k + 1] = p.buf[k]
        BY <2>1, <2>4, <3>2, HeardTyped
      <4>2. CASE b = p.now
        <5>1. 1 \in 1 .. Len(Heard(p))
          BY <2>2, <4>1
        <5> QED BY <4>1, <4>2, <5>1
      <4>3. CASE b \in Range(p.buf)
        <5>1. PICK i \in 1 .. Len(p.buf) : b = p.buf[i]
          BY <2>3, <4>3
        <5>2. i + 1 \in 1 .. Len(Heard(p))
          BY <2>2, <4>1
        <5> QED BY <4>1, <5>1, <5>2
      <4> QED BY <1>1, <3>2, <4>2, <4>3
    <3> QED BY <3>1, <3>2
  <2>6. p.todo.cmd \in {"nothing", "trash"}
    <3>1. p.todo \in TodoType
      BY <2>1 DEF Player
    <3>2. p.todo.cmd # "close"
      BY <1>1, <2>4 DEF CtrlIInv, Good, Consistent, Silent
    <3>3. p.buf = <<>> => ~ p.stale
      BY <1>1, <2>2, <2>3
    <3>4. p.todo.cmd \notin {"navigate", "start"}
      BY <1>1, <2>4, <3>3 DEF CtrlIInv, Good, Consistent
    <3>5. p.todo.cmd \in {"nothing", "navigate", "start", "trash", "close"}
      BY <3>1 DEF TodoType
    <3> QED BY <3>2, <3>4, <3>5
  <2>7. CoversAll(p.list, Heard(p))
    BY <1>1, <2>6 DEF CtrlIInv, Good, Music, Trashing
  <2> QED BY <2>5, <2>7 DEF CoversAll
<1>2. CtrlIInv => ListCovers
  BY <1>1, Zenon DEF ListCovers, CoversBlock
<1> QED BY <1>2, CtrlInvariant, PTL

\* controller.cpp, MsgDecStop: the output gets the songs one by one in the order of the
\* playlist, unless a block is stale or one of the exceptions of Confused applies.
THEOREM SongsFollow == CtrlSpec => SongsInOrder
<1>1. CtrlIInv /\ [CtrlNext]_CtrlVars
        => [p'.now # p.now /\ p.now # NoBlock /\ p'.now # NoBlock /\ ~ Confused(p) /\ ~ p.stale =>
              p'.now.song = IF p.now.song < N THEN p.now.song + 1 ELSE 1]_CtrlVars
  BY StepGood DEF Follows
<1> QED BY <1>1, CtrlInvariant, PTL DEF CtrlSpec, SongsInOrder

(***************************************************************************)
(* The buffered stream.                                                    *)
(*                                                                         *)
(* The inductive invariant.  RingConsistent needs to know that the stream  *)
(* delivers to the free part in front of data_head only, which the owner   *)
(* may enlarge while the read is under way but never makes smaller.        *)
(***************************************************************************)

Chain == [pos : Int, eof : BOOLEAN, error : BOOLEAN, faults : Int]

Numbers ==
  /\ read_pos \in Int /\ count \in Int /\ done \in Int
  /\ seekto \in Int
  /\ chain \in Chain
  /\ job.done \in Int
  /\ data_tail \in Int /\ data_read \in Int

Ring ==
  /\ data_head \in 0 .. Size - 1 /\ data_size \in 0 .. Size /\ data_rest \in 0 .. data_size
  /\ data_tail = Move(data_head, data_size)
  /\ data_read = Move(data_head, data_size - data_rest)

Ahead == ahead = "read" /\ job.done > 0 => data_size + job.done <= Size

IInv == Numbers /\ Ring /\ Ahead

USE SizeAssumption, RoomAssumption

\* advance: twice forward is forward by the sum, as long as it is not more than the
\* size of the buffer.
LEMMA MoveTwice ==
  ASSUME NEW place \in 0 .. Size - 1, NEW m \in Nat, NEW n \in Nat, m + n <= Size
  PROVE  Move(Move(place, m), n) = Move(place, m + n)
  BY DEF Move

\* advance stays in the memory of the buffer.
LEMMA MoveInside ==
  ASSUME NEW place \in 0 .. Size - 1, NEW n \in 0 .. Size
  PROVE  Move(place, n) \in 0 .. Size - 1
  BY DEF Move

\* What the calls of the stream leave behind.
LEMMA ChainAfter ==
  ASSUME NEW c \in Chain, NEW n \in Int
  PROVE  /\ [c EXCEPT !.pos = n] \in Chain
         /\ [c EXCEPT !.pos = n, !.eof = FALSE, !.error = FALSE] \in Chain
         /\ [c EXCEPT !.eof = TRUE] \in Chain
         /\ \A met \in BOOLEAN : [c EXCEPT !.pos = n, !.eof = @ \/ met] \in Chain
         /\ [c EXCEPT !.error = TRUE, !.faults = n] \in Chain
         /\ c.pos \in Int /\ c.faults + 1 \in Int
<1>1. [c EXCEPT !.pos = n] \in Chain /\ [c EXCEPT !.eof = TRUE] \in Chain
  BY DEF Chain
<1>2. [c EXCEPT !.pos = n, !.eof = FALSE, !.error = FALSE] \in Chain
  BY DEF Chain
<1>3. [c EXCEPT !.error = TRUE, !.faults = n] \in Chain
  BY DEF Chain
<1>4. ASSUME NEW met \in BOOLEAN PROVE [c EXCEPT !.pos = n, !.eof = @ \/ met] \in Chain
  <2>1. c.eof \/ met \in BOOLEAN
    BY DEF Chain
  <2> QED
    BY <2>1 DEF Chain
<1>5. c.pos \in Int /\ c.faults + 1 \in Int
  BY DEF Chain
<1> QED BY <1>1, <1>2, <1>3, <1>4, <1>5

LEMMA InitIInv == Init => IInv
  BY DEF Init, IInv, Numbers, Chain, Ring, Ahead, Move, None

\* A step that leaves the ring alone, and of the numbers changes the owner's only.
LEMMA RingUntouched ==
  ASSUME IInv, UNCHANGED pool, read_pos' \in Int, count' \in Int, done' \in Int,
         seekto' \in Int, chain' \in Chain, job'.done \in Int,
         ahead' = "read" => (ahead' = ahead /\ job' = job)
  PROVE  IInv'
  BY DEF IInv, Numbers, Ring, Ahead, pool, Move

\* An iteration of the read-ahead thread that has ended has nothing under way.
LEMMA SignalNumbers == Signal => job'.done \in Int /\ ahead' # "read"
  BY DEF Signal

\* What StreamSeek asks for is a number.
LEMMA BeginSeekKeeps == IInv /\ BeginSeek => IInv'
<1> SUFFICES ASSUME IInv, BeginSeek PROVE IInv'
  OBVIOUS
<1>1. job'.done \in Int /\ chain' \in Chain
  <2>1. seekto \in Int /\ chain \in Chain
    BY DEF IInv, Numbers
  <2>2. job'.done = seekto
    BY DEF BeginSeek, StreamSeek
  <2>3. \/ chain' = [chain EXCEPT !.pos = seekto, !.eof = FALSE, !.error = FALSE]
        \/ chain' = [chain EXCEPT !.error = TRUE, !.faults = chain.faults + 1]
    BY DEF BeginSeek, StreamSeek
  <2>4. chain' \in Chain
    BY <2>1, <2>3, ChainAfter
  <2> QED BY <2>1, <2>2, <2>4
<1>2. UNCHANGED <<pool, seekto, read_pos, count, done>> /\ ahead' # "read"
  BY DEF BeginSeek, owner
<1> QED BY <1>1, <1>2, RingUntouched DEF IInv, Numbers

\* A seek empties the buffer, or leaves it as it was if it failed.
LEMMA EndSeekKeeps == IInv /\ EndSeek => IInv'
<1> SUFFICES ASSUME IInv, EndSeek PROVE IInv'
  OBVIOUS
<1>1. job'.done \in Int /\ ahead' # "read"
  BY SignalNumbers DEF EndSeek
<1>2. UNCHANGED <<read_pos, count, done, chain>> /\ seekto' \in Int
  BY DEF EndSeek, IInv, Numbers, None
<1>3. CASE UNCHANGED pool
  BY <1>1, <1>2, <1>3, RingUntouched DEF IInv, Numbers
<1>4. CASE Discard
  BY <1>1, <1>2, <1>4 DEF Discard, IInv, Numbers, Ring, Ahead, Move
<1> QED BY <1>3, <1>4 DEF EndSeek

\* What the thread asks for fits between data_tail and what it must not touch.
LEMMA BeginReadKeeps == IInv /\ BeginRead => IInv'
<1> SUFFICES ASSUME IInv, BeginRead PROVE IInv'
  OBVIOUS
<1> DEFINE room == (IF data_head > data_tail THEN data_head ELSE Size) - data_tail
<1>1. room \in Int /\ room <= Size - data_size
  BY DEF BeginRead, IInv, Numbers, Ring, Move
<1>2. Lower(BlockSize, room) \in Int /\ Lower(BlockSize, room) <= room
  BY <1>1 DEF Lower
<1>3. UNCHANGED <<pool, seekto, read_pos, count, done>>
  BY DEF BeginRead, owner
<1>4. /\ chain' \in Chain
      /\ job'.done \in Int /\ job'.done <= Size - data_size
  <2> HIDE DEF room
  <2>1. StreamRead(Lower(BlockSize, room))
    BY DEF BeginRead, room
  <2>2. chain \in Chain /\ chain.pos \in Int /\ data_size \in 0 .. Size
    BY ChainAfter DEF IInv, Numbers, Ring
  <2>3. ASSUME NEW k \in 1 .. Lower(Lower(BlockSize, room), FileSize - chain.pos), NEW met \in BOOLEAN,
               job' = [what |-> "read", done |-> k],
               chain' = [chain EXCEPT !.pos = @ + k, !.eof = @ \/ met]
        PROVE  chain' \in Chain /\ job'.done \in Int /\ job'.done <= Size - data_size
    <3>1. k \in Int /\ chain.pos + k \in Int /\ k <= room
      BY <1>1, <1>2, <2>2 DEF Lower
    <3>2. chain' \in Chain
      BY <2>2, <2>3, <3>1, ChainAfter
    <3> QED BY <1>1, <2>2, <2>3, <3>1, <3>2
  <2>4. CASE job' = [what |-> "read", done |-> 0] /\ chain' = [chain EXCEPT !.eof = TRUE]
    <3>1. chain' \in Chain
      BY <2>2, <2>4, ChainAfter
    <3> QED BY <2>2, <2>4, <3>1
  <2>5. CASE /\ job' = [what |-> "read", done |-> -1]
             /\ chain' = [chain EXCEPT !.error = TRUE, !.faults = @ + 1]
    <3>1. chain' \in Chain
      BY <2>2, <2>5, ChainAfter
    <3> QED BY <2>2, <2>5, <3>1
  <2>6. CASE \E k \in 1 .. Lower(Lower(BlockSize, room), FileSize - chain.pos), met \in BOOLEAN :
               job' = [what |-> "read", done |-> k] /\ chain' = [chain EXCEPT !.pos = @ + k, !.eof = @ \/ met]
    BY <2>3, <2>6
  <2>7. \/ \E k \in 1 .. Lower(Lower(BlockSize, room), FileSize - chain.pos), met \in BOOLEAN :
             job' = [what |-> "read", done |-> k] /\ chain' = [chain EXCEPT !.pos = @ + k, !.eof = @ \/ met]
        \/ job' = [what |-> "read", done |-> 0] /\ chain' = [chain EXCEPT !.eof = TRUE]
        \/ /\ job' = [what |-> "read", done |-> -1]
           /\ chain' = [chain EXCEPT !.error = TRUE, !.faults = @ + 1]
    BY <2>1 DEF StreamRead
  <2> QED BY <2>4, <2>5, <2>6, <2>7
<1>5. Numbers' /\ Ring'
  BY <1>3, <1>4 DEF IInv, Numbers, Ring, pool, Move
<1>6. Ahead'
  BY <1>3, <1>4 DEF IInv, Ring, Ahead, pool
<1> QED BY <1>5, <1>6 DEF IInv

\* The data read joins the ring, moves data_read, or goes with the rest.
LEMMA EndReadKeeps == IInv /\ EndRead => IInv'
<1> SUFFICES ASSUME IInv, EndRead PROVE IInv'
  OBVIOUS
<1> DEFINE size == data_size + job.done
<1>1. job'.done \in Int /\ ahead' # "read"
  BY SignalNumbers DEF EndRead
<1>2. UNCHANGED <<read_pos, count, done, chain>>
  BY DEF EndRead, owner
<1>3. CASE job.done <= 0 /\ UNCHANGED <<pool, seekto>>
  BY <1>1, <1>2, <1>3, RingUntouched DEF IInv, Numbers
<1>4. CASE job.done > 0 /\ size <= Size
  <2>1. data_tail \in 0 .. Size - 1 /\ Move(data_tail, job.done) = Move(data_head, size)
    <3>1. /\ data_head \in 0 .. Size - 1 /\ data_size \in 0 .. Size
          /\ job.done \in Nat /\ data_size + job.done <= Size
          /\ data_tail = Move(data_head, data_size)
      BY <1>4 DEF IInv, Numbers, Ring
    <3>2. Move(data_head, data_size) \in 0 .. Size - 1
      BY <3>1, MoveInside
    <3>3. Move(Move(data_head, data_size), job.done) = Move(data_head, data_size + job.done)
      <4>1. data_size \in Nat
        BY <3>1
      <4> QED BY <3>1, <4>1, MoveTwice
    <3> QED BY <3>1, <3>2, <3>3
  <2>2. CASE /\ data_size' = size /\ data_rest' = data_rest + job.done
             /\ data_tail' = Move(data_tail, job.done)
             /\ UNCHANGED <<data_head, data_read, seekto>>
    <3>1. size - (data_rest + job.done) = data_size - data_rest
      BY <1>4 DEF IInv, Numbers, Ring
    <3>2. Ring'
      BY <1>4, <2>1, <2>2, <3>1 DEF IInv, Numbers, Ring, Move
    <3>3. Numbers'
      BY <1>1, <1>2, <2>2, <2>1, <1>4 DEF IInv, Numbers, Ring, Move
    <3> QED BY <1>1, <3>2, <3>3 DEF IInv, Ahead
  <2>3. CASE /\ seekto \in FilePos .. FilePos + size
             /\ data_size' = size /\ data_rest' = size - (seekto - FilePos)
             /\ data_tail' = Move(data_tail, job.done)
             /\ data_read' = Move(data_head, seekto - FilePos)
             /\ seekto' = None
             /\ UNCHANGED data_head
    <3>1. FilePos \in Int
      BY DEF FilePos, IInv, Numbers, Ring
    <3>2. seekto - FilePos \in 0 .. size
      BY <2>3, <1>4, <3>1 DEF IInv, Numbers, Ring
    <3>3. Ring'
      BY <1>4, <2>1, <2>3, <3>2 DEF IInv, Numbers, Ring, Move
    <3>4. Numbers'
      BY <1>1, <1>2, <1>4, <2>1, <2>3, <3>2 DEF IInv, Numbers, Ring, Move, None
    <3> QED BY <1>1, <3>3, <3>4 DEF IInv, Ahead
  <2>4. CASE Discard /\ UNCHANGED seekto
    BY <1>1, <1>2, <2>4 DEF Discard, IInv, Numbers, Ring, Ahead, Move
  <2> QED BY <1>4, <2>2, <2>3, <2>4 DEF EndRead, IInv, Numbers
<1>5. ahead = "read"
  BY DEF EndRead
<1>6. job.done > 0 => size <= Size
  BY <1>5 DEF IInv, Ahead
<1> QED BY <1>3, <1>4, <1>6 DEF EndRead, IInv, Numbers

\* The head moves over obsolete data only, so the rest stays where it is.
LEMMA DropObsoleteKeeps ==
  ASSUME Ring, NEW rest \in 0 .. data_size, DropObsolete(rest)
  PROVE  /\ data_head' \in 0 .. Size - 1 /\ data_size' \in 0 .. data_size
         /\ rest <= data_size'
         /\ Move(data_head', data_size') = data_tail
         /\ Move(data_head', data_size' - rest) = Move(data_head, data_size - rest)
<1> DEFINE obsolete == data_size - rest - Keep
<1>1. CASE obsolete > MinObsolete
  <2>1. /\ data_head' = Move(data_head, obsolete) /\ data_size' = data_size - obsolete
        /\ data_head \in 0 .. Size - 1 /\ obsolete \in 0 .. Size
        /\ obsolete \in Nat /\ data_size' \in Nat /\ data_size' - rest \in Nat
        /\ data_size' \in 0 .. data_size /\ rest <= data_size'
        /\ obsolete + data_size' = data_size
        /\ obsolete + (data_size' - rest) = data_size - rest
        /\ data_size <= Size /\ data_size - rest <= Size
    BY <1>1 DEF DropObsolete, Ring
  <2>2. data_head' \in 0 .. Size - 1
    BY <2>1, MoveInside
  <2>3. Move(Move(data_head, obsolete), data_size') = Move(data_head, obsolete + data_size')
    <3> HIDE DEF obsolete
    <3> QED BY <2>1, MoveTwice
  <2>4. Move(Move(data_head, obsolete), data_size' - rest)
          = Move(data_head, obsolete + (data_size' - rest))
    <3> HIDE DEF obsolete
    <3>1. obsolete + (data_size' - rest) <= Size
      BY <2>1
    <3> QED BY <2>1, <3>1, MoveTwice
  <2>5. Move(data_head, data_size) = data_tail
    BY DEF Ring
  <2> QED BY <2>1, <2>2, <2>3, <2>4, <2>5
<1>2. CASE ~ obsolete > MinObsolete
  BY <1>2 DEF DropObsolete, Ring
<1> QED BY <1>1, <1>2

\* read: data_read moves on by what is copied, which ends at the end of the memory.
LEMMA CopyKeeps == IInv /\ Copy => IInv'
<1> SUFFICES ASSUME IInv, Copy PROVE IInv'
  OBVIOUS
<1> DEFINE n == Lower(Lower(Size - data_read, data_rest), count - done)
<1>1. /\ n \in 0 .. data_rest
      /\ data_read' = Move(data_read, n) /\ data_rest' = data_rest - n /\ done' = done + n
      /\ data_read \in 0 .. Size - 1
  BY DEF Copy, Lower, IInv, Numbers, Ring, Move
<1>2. DropObsolete(data_rest - n) /\ data_rest - n \in 0 .. data_size
  BY <1>1 DEF Copy, IInv, Ring
<1>3. /\ data_head' \in 0 .. Size - 1 /\ data_size' \in 0 .. data_size
      /\ data_rest' <= data_size'
      /\ Move(data_head', data_size') = data_tail
      /\ Move(data_head', data_size' - data_rest') = Move(data_head, data_size - data_rest')
  BY <1>1, <1>2, DropObsoleteKeeps DEF IInv
<1>4. Move(data_read, n) = Move(data_head, data_size - data_rest')
  <2> HIDE DEF n
  <2>1. /\ data_head \in 0 .. Size - 1 /\ data_size - data_rest \in Nat /\ n \in Nat
        /\ (data_size - data_rest) + n <= Size
        /\ (data_size - data_rest) + n = data_size - data_rest'
        /\ data_read = Move(data_head, data_size - data_rest)
    BY <1>1 DEF IInv, Ring
  <2>2. Move(Move(data_head, data_size - data_rest), n)
          = Move(data_head, (data_size - data_rest) + n)
    BY <2>1, MoveTwice
  <2> QED BY <2>1, <2>2
<1>5. UNCHANGED <<data_tail, seekto, read_pos, count, chain, ahead, job>>
  BY DEF Copy
<1>6. Ring'
  <2> HIDE DEF n
  <2>1. data_size' \in 0 .. Size /\ data_rest' \in 0 .. data_size'
    BY <1>1, <1>3 DEF IInv, Ring
  <2>2. data_tail' = Move(data_head', data_size')
    BY <1>3, <1>5
  <2>3. data_read' = Move(data_head', data_size' - data_rest')
    BY <1>1, <1>3, <1>4
  <2> QED BY <1>3, <2>1, <2>2, <2>3 DEF Ring, Move
<1>7. Numbers'
  <2>1. data_read' \in Int /\ done' \in Int
    BY <1>1 DEF Move, IInv, Numbers
  <2> QED BY <1>5, <2>1 DEF IInv, Numbers
<1>8. Ahead'
  BY <1>3, <1>5 DEF IInv, Numbers, Ring, Ahead
<1> QED BY <1>6, <1>7, <1>8 DEF IInv

\* do_seek within the buffer.
LEMMA SeekInBufferKeeps == IInv /\ SeekInBuffer => IInv'
<1> SUFFICES ASSUME IInv, SeekInBuffer PROVE IInv'
  OBVIOUS
<1>1. FilePos \in Int
  BY DEF FilePos, IInv, Numbers, Ring
<1>2. PICK offset \in Position \cap (FilePos .. FilePos + data_size) :
        /\ data_read' = Move(data_head, offset - FilePos)
        /\ data_rest' = data_size - (offset - FilePos)
        /\ DropObsolete(data_size - (offset - FilePos))
        /\ read_pos' = offset
  BY DEF SeekInBuffer
<1> DEFINE rest == data_size - (offset - FilePos)
<1>3. rest \in 0 .. data_size /\ data_size - rest = offset - FilePos
  BY <1>1 DEF IInv, Ring
<1>4. DropObsolete(rest)
  BY <1>2
<1> HIDE DEF rest
<1>5. /\ data_head' \in 0 .. Size - 1 /\ data_size' \in 0 .. data_size
      /\ rest <= data_size'
      /\ Move(data_head', data_size') = data_tail
      /\ Move(data_head', data_size' - rest) = Move(data_head, data_size - rest)
  BY <1>3, <1>4, DropObsoleteKeeps DEF IInv
<1>6. data_rest' = rest /\ data_read' = Move(data_head, data_size - rest)
  BY <1>2, <1>3 DEF rest
<1>7. UNCHANGED <<data_tail, seekto, count, done, chain, ahead, job>>
  BY DEF SeekInBuffer
<1>8. Ring'
  <2>1. data_size' \in 0 .. Size /\ data_rest' \in 0 .. data_size'
    BY <1>3, <1>5, <1>6 DEF IInv, Ring
  <2>2. data_tail' = Move(data_head', data_size')
    BY <1>5, <1>7
  <2>3. data_read' = Move(data_head', data_size' - data_rest')
    BY <1>5, <1>6
  <2> QED BY <1>5, <2>1, <2>2, <2>3 DEF Ring, Move
<1>9. Numbers'
  <2>1. data_read' \in Int /\ read_pos' \in Int
    BY <1>2, <1>3, <1>6 DEF Move, IInv, Ring, Position
  <2> QED BY <1>7, <2>1 DEF IInv, Numbers
<1>10. Ahead'
  BY <1>5, <1>7 DEF IInv, Numbers, Ring, Ahead
<1> QED BY <1>8, <1>9, <1>10 DEF IInv

\* The other steps leave the ring alone.
LEMMA OthersKeep ==
  IInv /\ (Idle \/ Quit \/ Read \/ Copied \/ AtEof \/ Failed \/ Wait \/ Resume
             \/ Seek \/ SeekDone \/ Close \/ Closed) => IInv'
<1> SUFFICES ASSUME IInv,
                    Idle \/ Quit \/ Read \/ Copied \/ AtEof \/ Failed \/ Wait \/ Resume
                      \/ Seek \/ SeekDone \/ Close \/ Closed
             PROVE  IInv'
  OBVIOUS
<1>1. CASE Idle
  <2>1. job'.done \in Int /\ ahead' # "read"
    BY <1>1, SignalNumbers DEF Idle
  <2>2. UNCHANGED <<pool, seekto, read_pos, count, done, chain>>
    BY <1>1 DEF Idle, owner
  <2> QED BY <2>1, <2>2, RingUntouched DEF IInv, Numbers
<1>2. CASE Quit
  <2>1. UNCHANGED <<pool, seekto, read_pos, count, done, chain, job>> /\ ahead' # "read"
    BY <1>2 DEF Quit, owner
  <2> QED BY <2>1, RingUntouched DEF IInv, Numbers
<1>3. CASE Read \/ Wait \/ Resume \/ Close \/ Closed
  <2>1. UNCHANGED <<pool, seekto, read_pos, chain, ahead, job>>
    BY <1>3 DEF Read, Wait, Resume, Close, Closed
  <2>2. count' \in Int /\ done' \in Int
    BY <1>3 DEF Read, Wait, Resume, Close, Closed, IInv, Numbers
  <2> QED BY <2>1, <2>2, RingUntouched DEF IInv, Numbers
<1>4. CASE Copied \/ AtEof \/ Failed \/ SeekDone
  <2>1. UNCHANGED <<pool, seekto, chain, ahead, job>>
    BY <1>4 DEF Copied, AtEof, Failed, SeekDone
  <2>2. count' \in Int /\ done' \in Int /\ read_pos' \in Int
    BY <1>4 DEF Copied, AtEof, Failed, SeekDone, IInv, Numbers
  <2> QED BY <2>1, <2>2, RingUntouched DEF IInv, Numbers
<1>5. CASE Seek
  <2>1. UNCHANGED <<pool, read_pos, done, chain, ahead, job>>
    BY <1>5 DEF Seek
  <2>2. count' \in Int /\ seekto' \in Int
    BY <1>5 DEF Seek, Position
  <2> QED BY <2>1, <2>2, RingUntouched DEF IInv, Numbers
<1> QED BY <1>1, <1>2, <1>3, <1>4, <1>5

\* No step of either thread breaks the invariant.
LEMMA StepIInv == IInv /\ [Next]_vars => IInv'
<1> SUFFICES ASSUME IInv, [Next]_vars PROVE IInv'
  OBVIOUS
<1>1. CASE ReadAhead
  BY <1>1, BeginSeekKeeps, EndSeekKeeps, BeginReadKeeps, EndReadKeeps, OthersKeep DEF ReadAhead
<1>2. CASE Continue
  BY <1>2, CopyKeeps, OthersKeep DEF Continue
<1>3. CASE Read \/ SeekInBuffer \/ Seek \/ Close
  BY <1>3, SeekInBufferKeeps, OthersKeep
<1>4. CASE UNCHANGED vars
  <2>1. UNCHANGED <<pool, seekto, read_pos, count, done, chain, ahead, job>>
    BY <1>4 DEF vars, owner
  <2> QED BY <2>1, RingUntouched DEF IInv, Numbers
<1> QED BY <1>1, <1>2, <1>3, <1>4 DEF Next

\* The ring buffer of xio_asyncbuffer.cpp: whatever the sizes of buffer, blocks and
\* requests, its pointers and counters agree after every step, and what the stream
\* delivers without the mutex has room in front of the data that is kept.
THEOREM RingAlwaysConsistent == Spec => []RingConsistent
<1>1. Spec => []IInv
  BY InitIInv, StepIInv, PTL DEF Spec
<1>2. IInv => RingConsistent
  BY DEF IInv, Ring, Ahead, RingConsistent
<1> QED BY <1>1, <1>2, PTL

(***************************************************************************)
(* The content.  Base is the position in the file of the first byte in the *)
(* ring, counted back from where the owner is (Pos).  The ring holds the   *)
(* file from Base on, what is under way continues it, and the underlying   *)
(* stream is behind it (Linked), except after a seek of the stream and     *)
(* when the ring has been emptied for a seek that is still to be made, or  *)
(* has failed (Stale).  Pending tells why an owner whose seek is answered  *)
(* too early finds no old data.                                            *)
(***************************************************************************)

Pos  == IF at = "seek" /\ seekto = None /\ ~ error THEN count ELSE read_pos + done
Base == Pos - (data_size - data_rest)

\* What the stream has delivered to the ring and EndRead has to count in.
Fetch == IF ahead = "read" /\ job.done > 0 THEN job.done ELSE 0

Moved == ahead = "seek" /\ job.what = "seek"

Stale ==
  /\ data_size = 0 /\ ~ chain.eof /\ ahead # "read"
  /\ seekto # None \/ (chain.error /\ data_end /\ ~ evt_read_data)

Content == \A i \in 0 .. data_size - 1 : bytes[Move(data_head, i)] = Base + i
Fetched == /\ data_tail + Fetch <= Size
           /\ \A i \in 0 .. Fetch - 1 : bytes[data_tail + i] = chain.pos - Fetch + i
Linked  == ~ Stale /\ ~ Moved => chain.pos = Base + data_size + Fetch
AtEnd   == chain.eof => chain.pos = FileSize /\ (Fetch = 0 \/ ~ data_end \/ chain.error)
Target  == /\ ahead = "seek" => seekto # None
           /\ job.what = "seek" => chain.pos = job.done /\ ~ chain.eof
           /\ at = "seek" /\ seekto # None => seekto = count /\ ~ error
Pending == seekto # None =>
             /\ evt_have_data \/ at # "seek" =>
                  data_size = 0 /\ ahead # "read" /\ ~ data_end /\ ~ chain.eof
             /\ at # "seek" => seekto = read_pos + done
             /\ ~ eof

Data == Content /\ Fetched /\ Linked /\ AtEnd /\ Target /\ Pending

Undone  == done >= 0 /\ (at \notin {"copying", "wait"} => done = 0)
EofSeen == eof => (read_pos = FileSize \/ chain.error) /\ at \notin {"copying", "wait", "seek"}
Results == /\ ahead = "seek" => job.what \in {"seek", "failed"}
           /\ ahead = "seek" /\ job.what = "failed" => chain.error
           /\ job.what \in {"seek", "failed"} => ahead = "seek"
           /\ ahead = "read" /\ job.done <= 0 => chain.eof \/ chain.error
           /\ ahead # "seek" /\ data_end => chain.eof \/ chain.error
           /\ end => at \in {"close", "closed"}

Memory == DOMAIN bytes = 0 .. Size - 1

Right == Memory /\ Undone /\ EofSeen /\ Results /\ (~ end => Data)

LEMMA InitRight == Init => Right
  BY DEF Init, Right, Memory, Undone, EofSeen, Results, Data, Content, Fetched, Linked, AtEnd, Target,
         Pending, Pos, Base, Fetch, Stale, Moved, None, Move

\* The owner's steps that neither take data nor move the read pointer: the ring holds
\* the same as long as the position is the same.
LEMMA DataKept ==
  ASSUME IInv, Data, UNCHANGED <<bytes, pool, chain, ahead, job, data_end>>, Pos' = Pos
  PROVE  Content' /\ Fetched' /\ AtEnd' /\ Base' = Base /\ Fetch' = Fetch /\ Moved' = Moved
<1>1. Base' = Base /\ Fetch' = Fetch /\ Moved' = Moved
  BY DEF Base, Fetch, Moved, pool
<1>2. Content'
  BY <1>1 DEF Data, Content, pool
<1>3. Fetched' /\ AtEnd'
  BY <1>1 DEF Data, Fetched, AtEnd, pool
<1> QED BY <1>1, <1>2, <1>3

\* The calls of the owner that do not touch the ring.
LEMMA OwnerRight ==
  ASSUME IInv, Right, ~ slipped',
         Read \/ Copied \/ AtEof \/ Failed \/ Wait \/ Resume \/ Closed
  PROVE  Right'
<1>1. UNCHANGED <<bytes, pool, chain, ahead, job, seekto, data_end, end>>
  BY DEF Read, Copied, AtEof, Failed, Wait, Resume, Closed
<1>2. Memory' /\ Undone'
  BY <1>1 DEF Right, Memory, Undone, Read, Copied, AtEof, Failed, Wait, Resume, Closed
<1>3. at # "seek" /\ at' # "seek" /\ (end => at = "close" /\ at' = "closed")
  BY DEF Right, Results, Read, Copied, AtEof, Failed, Wait, Resume, Closed
<1>4. Results'
  BY <1>1, <1>3 DEF Right, Results
<1>5. read_pos' + done' = read_pos + done
  <2>1. CASE Read \/ Wait \/ Resume \/ Closed
    BY <2>1 DEF Right, Undone, Read, Wait, Resume, Closed
  <2>2. CASE Copied \/ AtEof
    BY <2>2 DEF IInv, Numbers, Copied, AtEof
  <2>3. CASE Failed
    <3>1. ~ (done > 0) /\ done' = 0 /\ read_pos' = read_pos
      BY <2>3 DEF Failed
    <3>2. done = 0
      BY <3>1 DEF Right, Undone, IInv, Numbers
    <3> QED BY <3>1, <3>2
  <2> QED BY <2>1, <2>2, <2>3
<1>6. ASSUME ~ end PROVE Data'
  <2>1. Pos' = Pos
    BY <1>3, <1>5 DEF Pos
  <2>2. Content' /\ Fetched' /\ AtEnd' /\ Base' = Base /\ Fetch' = Fetch /\ Moved' = Moved
    BY <1>1, <1>6, <2>1, DataKept DEF Right
  <2>3. Stale => Stale'
    <3>1. evt_read_data' = evt_read_data \/ ~ (data_end /\ chain.error)
      BY DEF Read, Copied, AtEof, Failed, Wait, Resume, Closed, events
    <3> QED BY <1>1, <3>1 DEF Stale, pool
  <2>4. Linked'
    BY <1>1, <1>6, <2>2, <2>3 DEF Right, Data, Linked, pool
  <2>5. seekto # None => ~ eof'
    <3>1. eof' => eof \/ data_end
      BY DEF Read, Copied, AtEof, Failed, Wait, Resume, Closed
    <3> QED BY <1>3, <1>6, <3>1 DEF Right, Data, Pending
  <2>6. Target' /\ Pending'
    BY <1>1, <1>3, <1>5, <1>6, <2>5 DEF Right, Data, Target, Pending, pool
  <2> QED BY <2>2, <2>4, <2>6 DEF Data
<1>7. EofSeen'
  <2>1. CASE AtEof
    <3>1. /\ at = "copying" /\ data_rest = 0 /\ data_end /\ chain.eof
          /\ read_pos' = read_pos + done /\ at' = "idle"
      BY <2>1 DEF AtEof
    <3>2. Data
      BY <3>1 DEF Right, Results
    <3>7. CASE chain.error
      BY <1>1, <3>1, <3>7 DEF EofSeen
    <3> SUFFICES ASSUME ~ chain.error PROVE EofSeen'
      BY <3>7
    <3>3. ~ Stale /\ ~ Moved /\ Fetch = 0 /\ chain.pos = FileSize
      BY <3>1, <3>2 DEF Data, Stale, Moved, Target, AtEnd
    <3>4. chain.pos = Base + data_size + Fetch
      BY <3>2, <3>3 DEF Data, Linked
    <3>5. Base + data_size = read_pos + done
      BY <3>1 DEF Base, Pos, IInv, Numbers, Ring
    <3>6. read_pos' = FileSize
      BY <3>1, <3>3, <3>4, <3>5 DEF IInv, Numbers
    <3> QED BY <3>1, <3>6 DEF EofSeen
  <2>2. CASE Read \/ Copied \/ Failed \/ Wait \/ Resume \/ Closed
    BY <2>2 DEF Right, EofSeen, Read, Copied, Failed, Wait, Resume, Closed
  <2> QED BY <2>1, <2>2
<1> QED BY <1>1, <1>2, <1>4, <1>6, <1>7 DEF Right

\* A seek that leaves the buffer keeps its data until the read-ahead thread answers.
LEMMA SeekRight == ASSUME IInv, Right, Seek PROVE Right'
<1>1. /\ UNCHANGED <<bytes, pool, chain, ahead, job, data_end, end, read_pos, done>>
      /\ at = "idle" /\ at' = "seek" /\ ~ eof' /\ ~ error' /\ ~ evt_have_data'
      /\ seekto' = count' /\ seekto' # None
  BY DEF Seek, Position, None
<1>2. ~ end /\ Data /\ done = 0
  BY <1>1 DEF Right, Results, Undone
<1>3. Pos' = Pos
  BY <1>1 DEF Pos
<1>4. Content' /\ Fetched' /\ AtEnd' /\ Base' = Base /\ Fetch' = Fetch /\ Moved' = Moved
  BY <1>1, <1>2, <1>3, DataKept
<1>5. Stale => Stale'
  BY <1>1 DEF Stale, pool
<1>6. Linked'
  BY <1>1, <1>2, <1>4, <1>5 DEF Data, Linked, pool
<1>7. Target' /\ Pending'
  BY <1>1, <1>2 DEF Data, Target, Pending
<1>8. Memory' /\ Undone' /\ EofSeen' /\ Results'
  BY <1>1, <1>2 DEF Right, Memory, Undone, EofSeen, Results
<1> QED BY <1>4, <1>6, <1>7, <1>8 DEF Right, Data

\* A seek that is answered too early finds the buffer empty.
LEMMA SeekDoneRight == ASSUME IInv, Right, SeekDone PROVE Right'
<1>1. /\ UNCHANGED <<bytes, pool, chain, ahead, job, data_end, end, seekto, eof, error, done, events>>
      /\ at = "seek" /\ at' = "idle" /\ evt_have_data
      /\ read_pos' = IF error THEN read_pos ELSE count
  BY DEF SeekDone
<1>2. ~ end /\ Data /\ done = 0 /\ ~ eof
  BY <1>1 DEF Right, Results, Undone, EofSeen
<1>3. Memory' /\ Undone' /\ EofSeen' /\ Results'
  BY <1>1, <1>2 DEF Right, Memory, Undone, EofSeen, Results
<1>4. CASE seekto = None
  <2>1. Pos' = Pos
    BY <1>1, <1>2, <1>4 DEF Pos, IInv, Numbers
  <2>2. Content' /\ Fetched' /\ AtEnd' /\ Base' = Base /\ Fetch' = Fetch /\ Moved' = Moved
    BY <1>1, <1>2, <2>1, DataKept
  <2>3. Linked'
    BY <1>1, <1>2, <2>2 DEF Data, Linked, Stale, pool, events
  <2>4. Target' /\ Pending'
    BY <1>1, <1>2, <1>4 DEF Data, Target, Pending
  <2> QED BY <1>3, <2>2, <2>3, <2>4 DEF Right, Data
<1>5. CASE seekto # None
  <2>1. data_size = 0 /\ ahead # "read" /\ ~ data_end /\ ~ chain.eof /\ seekto = count /\ ~ error
    BY <1>1, <1>2, <1>5 DEF Data, Pending, Target
  <2>2. Stale' /\ Content' /\ Linked'
    BY <1>1, <1>5, <2>1 DEF Stale, Content, Linked, pool
  <2>3. Fetched' /\ AtEnd'
    BY <1>1, <1>2, <2>1 DEF Data, Fetched, AtEnd, Fetch, pool
  <2>4. Target' /\ Pending'
    BY <1>1, <1>2, <2>1 DEF Data, Target, Pending, pool, IInv, Numbers
  <2> QED BY <1>3, <2>2, <2>3, <2>4 DEF Right, Data
<1> QED BY <1>4, <1>5

\* Nobody reads a buffer that is being closed.
LEMMA CloseRight == ASSUME IInv, Right, Close \/ Quit PROVE Right'
  BY DEF Right, Memory, Undone, EofSeen, Results, Close, Quit, owner
\* How far the head moves.
LEMMA DropObsoleteBy ==
  ASSUME IInv, NEW rest \in 0 .. data_size, DropObsolete(rest)
  PROVE  \E gone \in Nat :
           /\ data_head' = Move(data_head, gone) /\ data_size' = data_size - gone
           /\ gone + rest <= data_size
           /\ gone = 0 => evt_read_data' = evt_read_data
<1>1. CASE data_size - rest - Keep > MinObsolete
  <2>1. data_size - rest - Keep \in Nat \ {0} /\ (data_size - rest - Keep) + rest <= data_size
    BY <1>1 DEF IInv, Ring
  <2>2. /\ data_head' = Move(data_head, data_size - rest - Keep)
        /\ data_size' = data_size - (data_size - rest - Keep)
    BY <1>1 DEF DropObsolete
  <2> QED BY <2>1, <2>2
<1>2. CASE ~ data_size - rest - Keep > MinObsolete
  <2>1. data_head' = data_head /\ data_size' = data_size /\ evt_read_data' = evt_read_data
    BY <1>2 DEF DropObsolete
  <2>2. data_head = Move(data_head, 0) /\ data_size = data_size - 0 /\ 0 + rest <= data_size
    BY DEF Move, IInv, Ring
  <2> QED BY <2>1, <2>2
<1> QED BY <1>1, <1>2

\* The data that stays is the same after the head has moved.
LEMMA Shifted ==
  ASSUME IInv, Data, UNCHANGED <<bytes, data_tail, chain, ahead, job, data_end>>,
         NEW gone \in Nat, gone <= data_size,
         data_head' = Move(data_head, gone), data_size' = data_size - gone,
         Base' = Base + gone
  PROVE  /\ Content' /\ Fetched' /\ AtEnd' /\ Fetch' = Fetch /\ Moved' = Moved
         /\ Base' + data_size' = Base + data_size
<1>1. data_head \in 0 .. Size - 1 /\ data_size \in 0 .. Size /\ Base \in Int
  BY DEF IInv, Ring, Base, Pos, Numbers
<1>2. ASSUME NEW i \in Nat, i < data_size - gone
      PROVE  bytes[Move(Move(data_head, gone), i)] = Base + gone + i
  <2>1. gone + i <= Size /\ gone + i \in 0 .. data_size - 1
    BY <1>1, <1>2
  <2>2. Move(Move(data_head, gone), i) = Move(data_head, gone + i)
    BY <1>1, <2>1, MoveTwice
  <2>3. bytes[Move(data_head, gone + i)] = Base + (gone + i)
    BY <2>1 DEF Data, Content
  <2> QED BY <1>1, <2>2, <2>3
<1>3. Content'
  <2>1. \A i \in 0 .. (data_size - gone) - 1 : i \in Nat /\ i < data_size - gone
    BY <1>1
  <2>2. \A i \in 0 .. (data_size - gone) - 1 :
          bytes[Move(Move(data_head, gone), i)] = Base + gone + i
    BY <1>2, <2>1
  <2> QED BY <2>2 DEF Content, Move
<1>4. Fetch' = Fetch /\ Moved' = Moved
  BY DEF Fetch, Moved
<1>5. Fetched' /\ AtEnd'
  BY <1>4 DEF Data, Fetched, AtEnd
<1>6. Base' + data_size' = Base + data_size
  BY <1>1
<1> QED BY <1>3, <1>4, <1>5, <1>6

\* read takes data from where the owner is.
LEMMA CopyRight == ASSUME IInv, Right, Copy PROVE Right'
<1> DEFINE n == Lower(Lower(Size - data_read, data_rest), count - done)
<1>1. /\ UNCHANGED <<bytes, data_tail, chain, ahead, job, seekto, data_end, end, eof, error, at, count, read_pos>>
      /\ at = "copying" /\ data_rest > 0
      /\ data_rest' = data_rest - n /\ done' = done + n /\ DropObsolete(data_rest - n)
      /\ n \in 0 .. data_rest
  BY DEF Copy, Lower, IInv, Numbers, Ring, Move
<1>2. ~ end /\ Data
  BY <1>1 DEF Right, Results
<1>3. data_rest \in 1 .. data_size /\ data_size \in 0 .. Size /\ data_rest - n \in 0 .. data_size
  BY <1>1 DEF IInv, Ring
<1>4. seekto = None
  BY <1>1, <1>2, <1>3 DEF Data, Pending
<1> HIDE DEF n
<1>5. PICK gone \in Nat :
        /\ data_head' = Move(data_head, gone) /\ data_size' = data_size - gone
        /\ gone + (data_rest - n) <= data_size
  BY <1>1, <1>3, DropObsoleteBy
<1>6. Base' = Base + gone /\ gone <= data_size
  BY <1>1, <1>3, <1>5 DEF Base, Pos, IInv, Numbers
<1>7. /\ Content' /\ Fetched' /\ AtEnd' /\ Fetch' = Fetch /\ Moved' = Moved
      /\ Base' + data_size' = Base + data_size
  BY <1>1, <1>2, <1>5, <1>6, Shifted
<1>8. ~ Stale
  BY <1>3 DEF Stale
<1>9. Linked'
  BY <1>1, <1>2, <1>7, <1>8 DEF Data, Linked
<1>10. Target' /\ Pending'
  BY <1>1, <1>2, <1>4 DEF Data, Target, Pending
<1>11. Memory' /\ Undone' /\ EofSeen' /\ Results'
  BY <1>1 DEF Right, Memory, Undone, EofSeen, Results, IInv, Numbers
<1> QED BY <1>7, <1>9, <1>10, <1>11 DEF Right, Data

\* A seek within the buffer moves the owner and the read pointer alike.
LEMMA SeekInBufferRight == ASSUME IInv, Right, SeekInBuffer PROVE Right'
<1>1. PICK offset \in Position \cap (FilePos .. FilePos + data_size) :
        /\ data_rest' = data_size - (offset - FilePos)
        /\ DropObsolete(data_size - (offset - FilePos))
        /\ read_pos' = offset
  BY DEF SeekInBuffer
<1>2. /\ UNCHANGED <<bytes, data_tail, chain, ahead, job, seekto, data_end, end, evt_have_data, at, count, done>>
      /\ at = "idle" /\ ~ eof' /\ ~ error'
  BY DEF SeekInBuffer
<1>3. ~ end /\ Data /\ done = 0
  BY <1>2 DEF Right, Results, Undone
<1>4. FilePos = Base /\ Base \in Int /\ data_size \in 0 .. Size /\ offset \in Int
  BY <1>2, <1>3 DEF FilePos, Base, Pos, IInv, Numbers, Ring, Position
<1> DEFINE rest == data_size - (offset - FilePos)
<1>5. rest \in 0 .. data_size /\ data_rest' = rest /\ DropObsolete(rest)
  BY <1>1, <1>4
<1>6. PICK gone \in Nat :
        /\ data_head' = Move(data_head, gone) /\ data_size' = data_size - gone
        /\ gone + rest <= data_size
        /\ gone = 0 => evt_read_data' = evt_read_data
  <2> HIDE DEF rest
  <2> QED BY <1>5, DropObsoleteBy
<1>7. Base' = Base + gone /\ gone <= data_size
  BY <1>1, <1>2, <1>3, <1>4, <1>5, <1>6 DEF Base, Pos
<1>8. /\ Content' /\ Fetched' /\ AtEnd' /\ Fetch' = Fetch /\ Moved' = Moved
      /\ Base' + data_size' = Base + data_size
      /\ data_size = 0 => data_size' = 0 /\ evt_read_data' = evt_read_data
  <2>1. data_size = 0 => data_size' = 0 /\ evt_read_data' = evt_read_data
    BY <1>4, <1>6, <1>7
  <2> QED BY <1>2, <1>3, <1>6, <1>7, <2>1, Shifted
<1>9. Stale => Stale'
  BY <1>2, <1>8 DEF Stale
<1>10. Linked'
  BY <1>2, <1>3, <1>8, <1>9 DEF Data, Linked
<1>11. Pending'
  <2>1. seekto # None => data_size = 0 /\ seekto = read_pos + done
    BY <1>2, <1>3 DEF Data, Pending
  <2>2. data_size = 0 => offset = FilePos /\ FilePos = read_pos
    BY <1>4 DEF FilePos, IInv, Ring, Numbers
  <2>3. seekto # None => seekto' = read_pos' + done'
    BY <1>1, <1>2, <2>1, <2>2
  <2> QED BY <1>2, <1>3, <1>8, <2>1, <2>3 DEF Data, Pending
<1>12. Target'
  BY <1>2, <1>3 DEF Data, Target
<1>13. Memory' /\ Undone' /\ EofSeen' /\ Results'
  BY <1>2, <1>3 DEF Right, Memory, Undone, EofSeen, Results
<1> QED BY <1>8, <1>10, <1>11, <1>12, <1>13 DEF Right, Data

\* The seek of the underlying stream.
LEMMA BeginSeekRight == ASSUME IInv, Right, BeginSeek PROVE Right'
<1>1. /\ UNCHANGED <<bytes, pool, seekto, data_end, end, evt_have_data, eof, error, at, count, done, read_pos>>
      /\ ahead = "wait" /\ ahead' = "seek" /\ seekto # None /\ ~ end
  BY DEF BeginSeek, owner, events
<1>2. Data /\ chain \in Chain
  BY <1>1 DEF Right, IInv, Numbers
<1>3. \/ job'.what = "seek" /\ job'.done = seekto /\ chain'.pos = seekto /\ chain'.eof = FALSE
      \/ job'.what = "failed" /\ chain'.error = TRUE /\ chain'.pos = chain.pos /\ chain'.eof = chain.eof
  <2>1. CASE /\ job' = [what |-> "seek", done |-> seekto]
             /\ chain' = [chain EXCEPT !.pos = seekto, !.eof = FALSE, !.error = FALSE]
    BY <1>2, <2>1 DEF Chain
  <2>2. CASE /\ job' = [what |-> "failed", done |-> seekto]
             /\ chain' = [chain EXCEPT !.error = TRUE, !.faults = @ + 1]
    BY <1>2, <2>2 DEF Chain
  <2> QED BY <2>1, <2>2 DEF BeginSeek, StreamSeek
<1>4. Base' = Base /\ Fetch = 0 /\ Fetch' = 0 /\ ~ Moved
  BY <1>1 DEF Base, Pos, Fetch, Moved, pool
<1>5. Content' /\ Fetched' /\ AtEnd'
  BY <1>1, <1>2, <1>3, <1>4 DEF Data, Content, Fetched, AtEnd, pool
<1>6. Linked'
  BY <1>1, <1>2, <1>3, <1>4 DEF Data, Linked, Stale, Moved, pool
<1>7. Target' /\ Pending'
  BY <1>1, <1>2, <1>3 DEF Data, Target, Pending, pool
<1>8. Memory' /\ Undone' /\ EofSeen' /\ Results'
  BY <1>1, <1>2, <1>3 DEF Right, Memory, Undone, EofSeen, Results, Data, Pending
<1> QED BY <1>5, <1>6, <1>7, <1>8 DEF Right, Data

\* What an iteration of the read-ahead thread leaves when it does not lose a seek.
LEMMA SignalRight ==
  ASSUME Signal, ~ lost', ~ end
  PROVE  /\ ahead' = "wait" /\ job'.what = "none"
         /\ data_end' <=> chain.eof \/ chain.error
         /\ data_end' => ~ evt_read_data' /\ seekto' = None
  BY DEF Signal

\* The owner's side of an iteration of the read-ahead thread.
LEMMA ViewKept ==
  ASSUME Right, UNCHANGED <<bytes, at, done, eof, read_pos, end, chain>>, ahead' = "wait", job'.what = "none",
         data_end' => chain.eof \/ chain.error
  PROVE  Memory' /\ Undone' /\ EofSeen' /\ Results'
  BY DEF Right, Memory, Undone, EofSeen, Results

\* After the seek the ring is empty and the stream is where the owner wants to be, or
\* where the next seek starts from.
LEMMA EndSeekRight == ASSUME IInv, Right, EndSeek, ~ lost' PROVE Right'
<1>1. /\ UNCHANGED <<bytes, chain, end, eof, at, count, done, read_pos>>
      /\ ahead = "seek" /\ Signal
      /\ seekto' = IF seekto = job.done THEN None ELSE seekto
      /\ IF job.what = "failed" THEN error' = TRUE /\ UNCHANGED pool ELSE Discard /\ UNCHANGED error
  BY DEF EndSeek
<1>2. ahead' = "wait" /\ job'.what = "none" /\ (data_end' => chain.eof \/ chain.error)
  BY <1>1 DEF Signal
<1>3. Memory' /\ Undone' /\ EofSeen' /\ Results'
  BY <1>1, <1>2, ViewKept
<1>4. ASSUME ~ end PROVE Data'
  <2>1. Data /\ seekto # None /\ Fetch = 0 /\ Fetch' = 0 /\ ~ Moved'
    BY <1>1, <1>2, <1>4 DEF Right, Data, Target, Fetch, Moved
  <2>2. /\ data_end' <=> chain.eof \/ chain.error
        /\ data_end' => ~ evt_read_data' /\ seekto' = None
    BY <1>1, <1>4, SignalRight
  <2>3. Target'
    <3>1. job.what = "failed" => seekto' = None
      BY <1>1, <2>2 DEF Right, Results
    <3> QED BY <1>1, <1>2, <2>1, <3>1 DEF Data, Target
  <2>4. CASE job.what = "failed"
    <3>1. chain.error /\ UNCHANGED pool /\ error' = TRUE /\ seekto' = None /\ ~ Moved
      BY <1>1, <2>2, <2>4 DEF Right, Results, Moved
    <3>2. Base' = Base
      BY <1>1, <2>1, <3>1 DEF Base, Pos, pool
    <3>3. Content' /\ Fetched' /\ AtEnd'
      BY <1>1, <2>1, <3>1, <3>2 DEF Data, Content, Fetched, AtEnd, pool
    <3>4. Stale => Stale'
      BY <1>1, <1>2, <2>2, <3>1 DEF Stale, pool
    <3>5. Linked'
      BY <1>1, <2>1, <3>1, <3>2, <3>4 DEF Data, Linked, pool
    <3> QED BY <2>3, <3>1, <3>3, <3>5 DEF Data, Pending
  <2>5. CASE job.what = "seek"
    <3>1. Discard /\ error' = error /\ chain.pos = job.done /\ ~ chain.eof
      BY <1>1, <2>1, <2>5 DEF Data, Target
    <3>2. data_size' = 0 /\ data_rest' = 0 /\ data_tail' = 0
      BY <3>1 DEF Discard
    <3>3. Content' /\ Fetched' /\ AtEnd'
      BY <1>1, <2>1, <3>1, <3>2 DEF Content, Fetched, AtEnd
    <3>4. Pending'
      BY <1>1, <1>2, <2>1, <2>2, <3>1, <3>2 DEF Data, Pending
    <3>5. CASE seekto # job.done
      BY <1>1, <1>2, <2>1, <2>3, <3>1, <3>2, <3>3, <3>4, <3>5 DEF Data, Linked, Stale
    <3>6. CASE seekto = job.done
      <4>1. Pos' = seekto
        BY <1>1, <2>1, <3>1, <3>6 DEF Data, Target, Pending, Pos
      <4>2. chain'.pos = Base' + data_size' + Fetch'
        BY <1>1, <2>1, <3>1, <3>2, <3>6, <4>1 DEF Base, IInv, Numbers
      <4> QED BY <2>3, <3>3, <3>4, <4>2 DEF Data, Linked
    <3> QED BY <3>5, <3>6
  <2> QED BY <1>1, <2>4, <2>5 DEF Right, Results
<1> QED BY <1>1, <1>3, <1>4 DEF Right

\* Nothing to do: the buffer is full.
LEMMA IdleRight == ASSUME IInv, Right, Idle, ~ lost' PROVE Right'
<1>1. /\ UNCHANGED <<bytes, pool, chain, seekto, end, eof, error, at, count, done, read_pos>>
      /\ ahead = "wait" /\ Signal /\ ~ end /\ seekto = None /\ data_size = Size
  BY DEF Idle, owner
<1>2. ahead' = "wait" /\ job'.what = "none" /\ (data_end' => chain.eof \/ chain.error)
  BY <1>1 DEF Signal
<1>3. Memory' /\ Undone' /\ EofSeen' /\ Results'
  BY <1>1, <1>2, ViewKept
<1>4. Data /\ Base' = Base /\ Fetch = 0 /\ Fetch' = 0 /\ ~ Moved
  BY <1>1, <1>2 DEF Right, Base, Pos, Fetch, Moved, pool
<1>5. Content' /\ Fetched' /\ AtEnd'
  BY <1>1, <1>4 DEF Data, Content, Fetched, AtEnd, pool
<1>6. Linked' /\ Target' /\ Pending'
  BY <1>1, <1>2, <1>4 DEF Data, Linked, Stale, Target, Pending, pool
<1> QED BY <1>3, <1>5, <1>6 DEF Right, Data
\* The stream delivers behind the data, to memory that holds none of it.
LEMMA BeginReadRight == ASSUME IInv, Right, BeginRead PROVE Right'
<1> DEFINE room == (IF data_head > data_tail THEN data_head ELSE Size) - data_tail
<1>1. /\ UNCHANGED <<pool, seekto, data_end, end, events, eof, error, at, count, done, read_pos>>
      /\ ahead = "wait" /\ ahead' = "read" /\ seekto = None /\ ~ end /\ evt_read_data /\ data_size < Size
      /\ StreamRead(Lower(BlockSize, room))
  BY DEF BeginRead, owner
<1>2. Data /\ chain \in Chain /\ chain.pos \in Int
  BY <1>1, ChainAfter DEF Right, IInv, Numbers
<1>3. /\ data_head \in 0 .. Size - 1 /\ data_tail \in 0 .. Size - 1 /\ data_size \in 0 .. Size
      /\ room \in Int /\ data_tail + room <= Size
  BY DEF IInv, Ring, Move
<1>4. \A i \in 0 .. data_size - 1 : Move(data_head, i) \notin data_tail .. data_tail + room - 1
  BY <1>1, <1>3 DEF IInv, Ring, Move
<1>5. Base' = Base /\ Fetch = 0 /\ ~ Moved /\ ~ Moved' /\ ~ Stale /\ ~ Stale' /\ Base \in Int
  BY <1>1 DEF Base, Pos, Fetch, Moved, Stale, pool, IInv, Numbers, Ring
<1>6. chain.pos = Base + data_size
  BY <1>2, <1>3, <1>5 DEF Data, Linked
<1> HIDE DEF room
<1>7. CASE job'.what = "read" /\ job'.done \in {-1, 0} /\ bytes' = bytes
           /\ chain'.pos = chain.pos
           /\ (chain'.eof => chain.eof \/ chain.pos = FileSize)
           /\ (chain.error => chain'.error)
           /\ (chain'.eof \/ chain'.error)
  <2>1. Fetch' = 0
    BY <1>7 DEF Fetch
  <2>2. Content' /\ Fetched' /\ AtEnd'
    BY <1>1, <1>2, <1>3, <1>5, <1>7, <2>1 DEF Data, Content, Fetched, AtEnd, pool
  <2>3. Linked'
    BY <1>1, <1>3, <1>5, <1>6, <1>7, <2>1 DEF Linked, pool
  <2>4. Target' /\ Pending'
    BY <1>1, <1>7 DEF Target, Pending
  <2>5. Memory' /\ Undone' /\ EofSeen' /\ Results'
    BY <1>1, <1>7 DEF Right, Memory, Undone, EofSeen, Results
  <2> QED BY <2>2, <2>3, <2>4, <2>5 DEF Right, Data
<1>8. ASSUME NEW k \in Nat \ {0}, k <= room, k <= FileSize - chain.pos,
             job' = [what |-> "read", done |-> k],
             bytes' = [i \in DOMAIN bytes |->
               IF i \in data_tail .. data_tail + k - 1 THEN chain.pos + (i - data_tail) ELSE bytes[i]],
             chain'.pos = chain.pos + k, chain'.error = chain.error,
             chain'.eof => chain.eof \/ chain.pos + k = FileSize,
             chain.eof => chain'.eof
      PROVE  Right'
  <2>1. Fetch' = k /\ job'.what = "read" /\ job'.done = k
    BY <1>1, <1>8 DEF Fetch
  <2>2. Memory' /\ Undone' /\ EofSeen' /\ Results'
    BY <1>1, <1>8, <2>1 DEF Right, Memory, Undone, EofSeen, Results
  <2>3. ~ chain.eof /\ (data_end' => chain'.error)
    BY <1>1, <1>2, <1>8 DEF Data, AtEnd, Right, Results
  <2>4. Content'
    <3>1. ASSUME NEW i \in 0 .. data_size - 1
          PROVE  bytes'[Move(data_head, i)] = Base + i
      <4>1. Move(data_head, i) \in 0 .. Size - 1
        BY <1>3, MoveInside
      <4>2. Move(data_head, i) \notin data_tail .. data_tail + k - 1
        BY <1>3, <1>4, <1>8, <4>1
      <4>3. bytes'[Move(data_head, i)] = bytes[Move(data_head, i)]
        BY <1>8, <4>1, <4>2 DEF Right, Memory
      <4> QED BY <1>2, <4>3 DEF Data, Content
    <3> QED BY <1>1, <1>5, <3>1 DEF Content, pool, Move
  <2>5. Fetched'
    <3>1. data_tail + k <= Size
      BY <1>3, <1>8
    <3>2. ASSUME NEW i \in 0 .. k - 1
          PROVE  bytes'[data_tail + i] = chain.pos + i
      <4>1. data_tail + i \in 0 .. Size - 1 /\ data_tail + i \in data_tail .. data_tail + k - 1
            /\ chain.pos + ((data_tail + i) - data_tail) = chain.pos + i
        BY <1>2, <1>3, <3>1
      <4> QED BY <1>8, <4>1 DEF Right, Memory
    <3>3. chain'.pos - k = chain.pos
      BY <1>2, <1>8
    <3> QED BY <1>1, <2>1, <3>1, <3>2, <3>3 DEF Fetched, pool
  <2>6. AtEnd' /\ Target' /\ Pending'
    <3>1. chain'.eof => chain'.pos = FileSize
      BY <1>8, <2>3
    <3> QED BY <1>1, <1>8, <2>1, <2>3, <3>1 DEF AtEnd, Target, Pending
  <2>7. Linked'
    BY <1>1, <1>3, <1>5, <1>6, <1>8, <2>1 DEF Linked, pool
  <2> QED BY <2>2, <2>4, <2>5, <2>6, <2>7 DEF Right, Data
<1>9. CASE \E k \in 1 .. Lower(Lower(BlockSize, room), FileSize - chain.pos), met \in BOOLEAN :
             /\ met => chain.pos + k = FileSize
             /\ job' = [what |-> "read", done |-> k]
             /\ bytes' = [i \in DOMAIN bytes |->
                  IF i \in data_tail .. data_tail + k - 1 THEN chain.pos + (i - data_tail) ELSE bytes[i]]
             /\ chain' = [chain EXCEPT !.pos = @ + k, !.eof = @ \/ met]
  <2>1. PICK k \in 1 .. Lower(Lower(BlockSize, room), FileSize - chain.pos), met \in BOOLEAN :
             /\ met => chain.pos + k = FileSize
             /\ job' = [what |-> "read", done |-> k]
             /\ bytes' = [i \in DOMAIN bytes |->
                  IF i \in data_tail .. data_tail + k - 1 THEN chain.pos + (i - data_tail) ELSE bytes[i]]
             /\ chain' = [chain EXCEPT !.pos = @ + k, !.eof = @ \/ met]
    BY <1>9
  <2>2. k \in Nat \ {0} /\ k <= room /\ k <= FileSize - chain.pos
    BY <1>2, <1>3 DEF Lower
  <2>3. /\ chain'.pos = chain.pos + k /\ chain'.error = chain.error
        /\ chain'.eof => chain.eof \/ chain.pos + k = FileSize
        /\ chain.eof => chain'.eof
    BY <1>2, <2>1 DEF Chain
  <2> QED BY <1>8, <2>1, <2>2, <2>3
<1>10. CASE /\ chain.pos = FileSize
            /\ job' = [what |-> "read", done |-> 0]
            /\ chain' = [chain EXCEPT !.eof = TRUE]
            /\ UNCHANGED bytes
  <2>1. chain'.pos = chain.pos /\ chain'.eof = TRUE /\ chain'.error = chain.error
    BY <1>2, <1>10 DEF Chain
  <2> QED BY <1>7, <1>10, <2>1
<1>11. CASE /\ job' = [what |-> "read", done |-> -1]
            /\ chain' = [chain EXCEPT !.error = TRUE, !.faults = @ + 1]
            /\ UNCHANGED bytes
  <2>1. chain'.pos = chain.pos /\ chain'.eof = chain.eof /\ chain'.error = TRUE
    BY <1>2, <1>11 DEF Chain
  <2> QED BY <1>7, <1>11, <2>1
<1> QED BY <1>1, <1>9, <1>10, <1>11 DEF StreamRead

LEMMA ZeroAdded == ASSUME NEW x \in 0 .. Size PROVE x + 0 <= Size
  BY SizeAssumption

\* What has been counted in is no longer under way.
LEMMA NothingFetched ==
  ASSUME Fetch' = 0, data_tail' \in 0 .. Size PROVE Fetched'
<1>1. data_tail' + 0 <= Size
  BY ZeroAdded
<1>2. data_tail' + Fetch' <= Size
  BY <1>1, Zenon
<1>3. \A i \in 0 .. Fetch' - 1 : FALSE
  <2>1. \A i \in 0 .. 0 - 1 : FALSE
    OBVIOUS
  <2> QED BY <2>1, Zenon
<1> QED BY <1>2, <1>3, Zenon DEF Fetched

\* What was delivered continues the data.
LEMMA Joined ==
  ASSUME IInv, Data, ahead = "read", job.done > 0
  PROVE  \A i \in 0 .. data_size + job.done - 1 : bytes[Move(data_head, i)] = Base + i
<1>1. /\ data_head \in 0 .. Size - 1 /\ data_size \in 0 .. Size /\ job.done \in Nat
      /\ data_size + job.done <= Size /\ Base \in Int /\ chain.pos \in Int
      /\ data_tail = Move(data_head, data_size)
  <2>1. Base \in Int /\ chain.pos \in Int
    BY DEF Chain, IInv, Numbers, Ring, Base, Pos
  <2> QED BY <2>1 DEF IInv, Numbers, Ring, Ahead
<1>2. Fetch = job.done /\ data_tail + job.done <= Size /\ chain.pos = Base + data_size + job.done
  <2>1. ~ Stale /\ ~ Moved
    BY DEF Stale, Moved
  <2> QED BY <2>1 DEF Data, Fetched, Fetch, Linked
<1>3. ASSUME NEW i \in 0 .. data_size + job.done - 1
      PROVE  bytes[Move(data_head, i)] = Base + i
  <2>1. CASE i < data_size
    BY <1>1, <2>1 DEF Data, Content
  <2>2. CASE ~ i < data_size
    <3>1. i - data_size \in Nat /\ i - data_size \in 0 .. job.done - 1 /\ data_size \in Nat
          /\ data_size + (i - data_size) = i /\ i <= Size
      BY <1>1, <2>2
    <3>2. Move(Move(data_head, data_size), i - data_size) = Move(data_head, i)
      BY <1>1, <3>1, MoveTwice
    <3>3. data_tail \in 0 .. Size - 1
      BY <1>1, MoveInside
    <3>4. Move(data_tail, i - data_size) = data_tail + (i - data_size)
      BY <1>1, <1>2, <3>1, <3>3 DEF Move
    <3>5. bytes[data_tail + (i - data_size)] = chain.pos - job.done + (i - data_size)
      BY <1>2, <3>1 DEF Data, Fetched
    <3>6. chain.pos - job.done + (i - data_size) = Base + i
      BY <1>1, <1>2
    <3> QED BY <1>1, <3>2, <3>4, <3>5, <3>6
  <2> QED BY <2>1, <2>2
<1> QED BY <1>3

\* The data joins the ring, a seek that arrived meanwhile may end in it, or the ring is
\* emptied for the seek.
LEMMA EndReadRight == ASSUME IInv, Right, EndRead, ~ lost' PROVE Right'
<1>1. /\ UNCHANGED <<bytes, chain, end, eof, error, at, count, done, read_pos>>
      /\ ahead = "read" /\ Signal
  BY DEF EndRead, owner
<1>2. ahead' = "wait" /\ job'.what = "none" /\ (data_end' => chain.eof \/ chain.error)
  BY <1>1 DEF Signal
<1>3. Memory' /\ Undone' /\ EofSeen' /\ Results'
  BY <1>1, <1>2, ViewKept
<1>4. ASSUME ~ end PROVE Data'
  <2>1. Data /\ Fetch' = 0 /\ ~ Moved /\ ~ Moved' /\ ~ Stale
    BY <1>1, <1>2, <1>4 DEF Right, Fetch, Moved, Stale
  <2>2. /\ data_end' <=> chain.eof \/ chain.error
        /\ data_end' => ~ evt_read_data' /\ seekto' = None
    BY <1>1, <1>4, SignalRight
  <2>3. seekto' \in {seekto, None}
    BY DEF EndRead
  <2>4. Target'
    BY <1>1, <1>2, <2>1, <2>3 DEF Data, Target
  <2>5. AtEnd'
    BY <1>1, <2>1 DEF Data, AtEnd
  <2>6. CASE job.done <= 0 /\ UNCHANGED <<pool, seekto, brim>>
    <3>1. Base' = Base /\ Fetch = 0
      BY <1>1, <2>6 DEF Base, Pos, Fetch, pool, IInv, Numbers
    <3>2. Content' /\ Fetched'
      BY <1>1, <2>1, <2>6, <3>1 DEF Data, Content, Fetched, pool
    <3>3. Linked'
      BY <1>1, <2>1, <2>6, <3>1 DEF Data, Linked, pool
    <3>4. data_end'
      BY <1>1, <2>2, <2>6 DEF Right, Results
    <3>5. Pending'
      BY <2>2, <3>4 DEF Pending
    <3> QED BY <2>4, <2>5, <3>2, <3>3, <3>5 DEF Data
  <2>7. CASE /\ job.done > 0 /\ Discard /\ UNCHANGED seekto /\ seekto # None
    <3>1. data_size' = 0 /\ data_tail' = 0 /\ ~ chain.eof
      BY <2>2, <2>7 DEF Discard
    <3>2. Stale' /\ Content' /\ Linked' /\ Fetched'
      BY <1>1, <1>2, <2>1, <2>7, <3>1 DEF Stale, Content, Linked, Fetched
    <3>3. Pending'
      BY <1>1, <1>2, <2>1, <2>2, <2>7, <3>1 DEF Data, Pending
    <3> QED BY <2>4, <2>5, <3>2, <3>3 DEF Data
  <2>8. ASSUME job.done > 0, data_size' = data_size + job.done, data_head' = data_head,
               Base' = Base, seekto' = None, data_tail' \in 0 .. Size
        PROVE  Data'
    <3>1. \A i \in 0 .. data_size + job.done - 1 : bytes[Move(data_head, i)] = Base + i
      BY <1>1, <2>1, <2>8, Joined
    <3>2. Content'
      <4>1. data_size \in Int /\ job.done \in Int
        BY DEF IInv, Numbers, Ring
      <4> QED BY <1>1, <2>8, <3>1, <4>1 DEF Content, Move
    <3>3. Fetched'
      BY <2>1, <2>8, NothingFetched
    <3>4. chain.pos = Base + data_size + job.done
      BY <1>1, <2>1, <2>8 DEF Data, Linked, Fetch
    <3>5. chain'.pos = Base' + data_size' + Fetch'
      <4>1. Base \in Int /\ data_size \in Int /\ job.done \in Int
        BY DEF Base, Pos, IInv, Numbers, Ring
      <4> QED BY <1>1, <2>1, <2>8, <3>4, <4>1
    <3>6. Linked' /\ Pending'
      BY <2>8, <3>5 DEF Linked, Pending
    <3> QED BY <2>4, <2>5, <3>2, <3>3, <3>6 DEF Data
  <2>9. CASE /\ job.done > 0 /\ seekto = None
             /\ data_size' = data_size + job.done /\ data_rest' = data_rest + job.done
             /\ data_tail' = Move(data_tail, job.done)
             /\ UNCHANGED <<data_head, data_read, seekto, brim>>
    <3>1. Base' = Base
      BY <1>1, <2>9 DEF Base, Pos, IInv, Numbers, Ring
    <3>2. data_tail' \in 0 .. Size
      BY <1>1, <2>9 DEF IInv, Numbers, Ring, Ahead, Move
    <3> QED BY <2>8, <2>9, <3>1, <3>2
  <2>10. CASE /\ job.done > 0 /\ seekto # None /\ seekto \in FilePos .. FilePos + (data_size + job.done)
              /\ data_size' = data_size + job.done
              /\ data_rest' = (data_size + job.done) - (seekto - FilePos)
              /\ data_tail' = Move(data_tail, job.done)
              /\ data_read' = Move(data_head, seekto - FilePos)
              /\ brim' = (brim \/ (data_size + job.done = Size /\ data_rest' = 0))
              /\ seekto' = None
              /\ UNCHANGED data_head
    <3>1. at = "seek" /\ seekto = count /\ ~ error /\ done = 0
      BY <1>1, <2>1, <2>10 DEF Right, Data, Target, Pending, Undone
    <3>2. FilePos = Base /\ Base \in Int
      BY <3>1, <2>10 DEF FilePos, Base, Pos, IInv, Numbers, Ring
    <3>3. Pos' = seekto
      BY <1>1, <2>10, <3>1 DEF Pos
    <3>4. Base' = Base
      BY <2>10, <3>2, <3>3 DEF Base, IInv, Numbers, Ring
    <3>5. data_tail' \in 0 .. Size
      BY <1>1, <2>10 DEF IInv, Numbers, Ring, Ahead, Move
    <3>6. data_size' = data_size + job.done /\ data_head' = data_head /\ seekto' = None
      BY <2>10
    <3>7. job.done > 0
      BY <2>10
    <3> QED BY <2>8, <3>4, <3>5, <3>6, <3>7
  <2>11. CASE /\ job.done > 0 /\ seekto \notin {None} \cup FilePos .. FilePos + (data_size + job.done)
              /\ Discard /\ UNCHANGED <<seekto, brim>>
    <3>1. seekto # None
      BY <2>11
    <3> QED BY <2>7, <2>11, <3>1
  <2> QED BY <2>6, <2>9, <2>10, <2>11, Zenon DEF EndRead
<1> QED BY <1>1, <1>3, <1>4 DEF Right

\* No step of either thread puts other bytes before the owner, unless a seek is lost or
\* a read fails halfway.
LEMMA StepRight ==
  ASSUME IInv, ~ lost /\ ~ slipped => Right, [Next]_vars PROVE ~ lost' /\ ~ slipped' => Right'
<1> SUFFICES ASSUME ~ lost', ~ slipped' PROVE Right'
  OBVIOUS
<1>1. CASE ReadAhead
  <2>1. ~ lost /\ ~ slipped
    <3>1. CASE BeginSeek \/ BeginRead \/ Quit
      BY <3>1 DEF BeginSeek, BeginRead, Quit, history
    <3>2. CASE EndSeek \/ EndRead \/ Idle
      <4>1. Signal /\ slipped' = slipped
        BY <3>2 DEF EndSeek, EndRead, Idle
      <4> QED BY <4>1 DEF Signal
    <3> QED BY <1>1, <3>1, <3>2 DEF ReadAhead
  <2> QED BY <1>1, <2>1, BeginSeekRight, EndSeekRight, BeginReadRight, EndReadRight, IdleRight, CloseRight
          DEF ReadAhead
<1>2. CASE Continue
  <2>1. ~ lost /\ ~ slipped
    <3>1. CASE Failed
      BY <3>1 DEF Failed
    <3>2. CASE Copy \/ Copied \/ AtEof \/ Wait \/ Resume \/ SeekDone \/ Closed
      BY <3>2 DEF Copy, Copied, AtEof, Wait, Resume, SeekDone, Closed, history
    <3> QED BY <1>2, <3>1, <3>2 DEF Continue
  <2> QED BY <1>2, <2>1, CopyRight, OwnerRight, SeekDoneRight DEF Continue
<1>3. CASE Read \/ SeekInBuffer \/ Seek \/ Close
  <2>1. ~ lost /\ ~ slipped
    BY <1>3 DEF Read, SeekInBuffer, Seek, Close, history
  <2> QED BY <1>3, <2>1, OwnerRight, SeekInBufferRight, SeekRight, CloseRight
<1>4. CASE UNCHANGED vars
  BY <1>4 DEF vars, pool, owner, events, history, Right, Memory, Undone, EofSeen, Results, Data, Content,
     Fetched, Linked, AtEnd, Target, Pending, Pos, Base, Fetch, Moved, Stale, Move
<1> QED BY <1>1, <1>2, <1>3, <1>4 DEF Next

\* Whatever is read ahead, however seeks overlap with it and the stream fails: what the
\* buffer holds is right.
LEMMA ContentInvariant == Spec => [](IInv /\ (~ lost /\ ~ slipped => Right))
<1>1. Init => IInv /\ (~ lost /\ ~ slipped => Right)
  BY InitIInv, InitRight
<1>2. IInv /\ (~ lost /\ ~ slipped => Right) /\ [Next]_vars
        => IInv' /\ (~ lost' /\ ~ slipped' => Right')
  BY StepIInv, StepRight
<1> QED BY <1>1, <1>2, PTL DEF Spec

\* xio_asyncbuffer.cpp, read: for buffers, blocks, requests and files of any size the
\* owner gets the bytes at its position.
THEOREM BytesAtPosition == Spec => []ReadsRight
<1>1. IInv /\ (~ lost /\ ~ slipped => Right) => ReadsRight
  <2> SUFFICES ASSUME IInv, Right, at = "copying", NEW i \in 0 .. data_rest - 1
               PROVE  bytes[Move(data_read, i)] = read_pos + done + i
    BY DEF ReadsRight
  <2>1. Data
    BY DEF Right, Results
  <2> DEFINE j == data_size - data_rest + i
  <2>2. /\ data_head \in 0 .. Size - 1 /\ data_size \in 0 .. Size /\ data_rest \in 0 .. data_size
        /\ data_size - data_rest \in Nat /\ i \in Nat /\ j <= Size
        /\ j \in 0 .. data_size - 1
    BY DEF IInv, Ring
  <2>3. Move(data_read, i) = Move(data_head, j)
    BY <2>2, MoveTwice DEF IInv, Ring
  <2>4. bytes[Move(data_head, j)] = Base + j
    BY <2>1, <2>2 DEF Data, Content
  <2>5. Base + j = read_pos + done + i
    BY <2>2 DEF Base, Pos, IInv, Numbers
  <2> QED BY <2>3, <2>4, <2>5
<1> QED BY <1>1, ContentInvariant, PTL

\* read: the end of the file is reported where it is.
THEOREM EofAtEnd == Spec => []EofRight
<1>1. IInv /\ (~ lost /\ ~ slipped => Right) => EofRight
  BY DEF EofRight, Right, EofSeen
<1> QED BY <1>1, ContentInvariant, PTL
=============================================================================
