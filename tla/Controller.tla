----------------------------- MODULE Controller -----------------------------
(***************************************************************************)
(* engine/controller.cpp and engine/glue.cpp: the controller's thread      *)
(* executes the commands of one queue.  The user interface, the decoder    *)
(* and the output write to the queue, the latter two by way of glue.       *)
(*                                                                         *)
(* The root is a playlist of songs 1 .. N.  A song is decoded as one block *)
(* of one unit of time, so the position of the output is that of a block.  *)
(* A handler is an operator from the state of the player to the set of its *)
(* results, as handlers call each other.  It is one step unless decoder or *)
(* output may do something on its way that they could not do before it: a  *)
(* decoder that is told to stop goes on until DecClose has waited for it.  *)
(* MsgDecStop waits before it does anything else, so there it makes no     *)
(* difference.  A decoder that plays for an output that is closed hands    *)
(* over no handle of it; when the output is open again glue discards its   *)
(* events, and Play replaces it in one step.                               *)
(***************************************************************************)
EXTENDS Integers, Sequences, SequencesExt

CONSTANTS
  N,              (* songs of the playlist                                 *)
  StopSongs,      (* songs with a stop position                            *)
  Repeats,        (* values of Repeat                                      *)
  Capacity,       (* blocks that the output holds besides what it plays    *)
  MaxEvents,      (* bound, for each value of Repeat, of the commands of   *)
                  (* the user and the failures of decoder and output       *)
  MaxTime,        (* bound of the time line of a playlist that repeats     *)
  MaxList         (* bound of the list of a decoder that delivers          *)

ASSUME SongsAssumption ==
  /\ N \in Nat \ {0} /\ StopSongs \subseteq 1 .. N /\ Repeats \subseteq BOOLEAN
  /\ MaxEvents \in [BOOLEAN -> Nat] /\ {Capacity, MaxTime, MaxList} \subseteq Nat

VARIABLES
  queue,          (* Ctrl::Queue                                           *)
  repeat,         (* Ctrl::Repeat                                          *)
  posted,         (* commands the user has posted                          *)
  quit,           (* how far Uninit has come                               *)
  p               (* the player:                                           *)
                  (*   list       PrefetchList                             *)
                  (*   seeking    IsSeeking                                *)
                  (*   LastStart                                           *)
                  (*   open       Glue::Initialized                        *)
                  (*   dec        Glue::DecPlug and its thread             *)
                  (*   sent       FLG_PlaystopSent                         *)
                  (*   MaxPos                                              *)
                  (*   PlayingPos OParams.PlayingPos                       *)
                  (*   TimeOffset what the output has seen of it           *)
                  (*   buf, now   what the output has to play, and plays   *)
                  (*   flush      it shall tell the end of the data        *)
                  (*   todo       what the handler in progress has still   *)
                  (*              to do; dec is what DecClose waits for if *)
                  (*              this is to navigate, start or close      *)
                  (*   faults     failures so far                          *)
                  (* and history of this playback, no step depends on it:  *)
                  (*   late       a song ended before the one before it    *)
                  (*              had left the list                        *)
                  (*   wrong      the current song was started in place of *)
                  (*              the last one of the list                 *)
                  (*   stale      now is of a song that had been left      *)
                  (*   astray     and behind the begin of the one after it *)

CtrlVars == <<queue, repeat, posted, quit, p>>

Song    == 1 .. N
NoSong  == 0
NoDec   == [song |-> NoSong, offset |-> 0, status |-> "none", done |-> FALSE, jump |-> FALSE]
NoBlock == [song |-> NoSong, pos |-> 0]

Command(c, n) == [cmd |-> c, to |-> n]
Plain(c)      == Command(c, NoSong)

Nothing       == Plain("nothing")

Entry(song, offset) == [song |-> song, offset |-> offset, completed |-> FALSE]
Current(s)          == Head(s.list)
Decoding(s)         == s.dec.status = "playing"

MoreEvents(s) == posted + s.faults < MaxEvents[repeat]

\* Before there is something to play it is what the output was told.
OutPlayingPos(s) == IF s.now = NoBlock THEN s.TimeOffset ELSE s.now.pos

(***************************************************************************)
(* Glue.                                                                   *)
(***************************************************************************)

\* The output has nothing to play any more.
Silenced(s) == [s EXCEPT !.buf = <<>>, !.now = NoBlock, !.flush = FALSE, !.stale = FALSE, !.astray = FALSE]

OutTrash(s) == IF s.open THEN [Silenced(s) EXCEPT !.TimeOffset = s.PlayingPos] ELSE s

OutFlush(s) == IF s.open THEN [s EXCEPT !.flush = TRUE] ELSE s

\* The output goes and the decoder is left to itself.
OutCloseMutant(s) ==
  IF s.open THEN [Silenced(s) EXCEPT !.open = FALSE, !.PlayingPos = OutPlayingPos(s)] ELSE s

\* Has to wait for the decoder, which gets no buffer any more.
OutClose(s) ==
  IF s.open
  THEN [Silenced(s) EXCEPT !.open = FALSE, !.PlayingPos = OutPlayingPos(s),
                           !.todo = IF s.dec = NoDec THEN @ ELSE Plain("close")]
  ELSE s

\* If it fails then it is closed, and with it a decoder that was left, unless it was
\* Init that failed.
OutputStart(s, offset) ==
  LET failed == [s EXCEPT !.PlayingPos = offset, !.faults = @ + 1]
  IN {[s EXCEPT !.open = TRUE, !.PlayingPos = offset, !.TimeOffset = IF s.open THEN @ ELSE offset]}
       \cup IF ~ MoreEvents(s) THEN {}
            ELSE IF s.open THEN {OutClose(failed)}
            ELSE {failed, [failed EXCEPT !.dec = NoDec]}

\* The decoder is closed again if it cannot start.
DecPlay(s, e) ==
  {[s EXCEPT !.dec = [NoDec EXCEPT !.song = e.song, !.offset = e.offset, !.status = "playing"],
             !.sent = FALSE, !.MaxPos = 0]}
    \cup IF MoreEvents(s) THEN {[s EXCEPT !.dec = NoDec, !.sent = FALSE, !.MaxPos = 0, !.faults = @ + 1]}
         ELSE {}

\* A thread that has ended does not jump any more.
DecJump(s) ==
  [s EXCEPT !.dec = IF @.status = "stopped" THEN @ ELSE [@ EXCEPT !.status = "playing", !.done = FALSE, !.jump = TRUE],
            !.PlayingPos = 0]

(***************************************************************************)
(* Helpers of the handlers.                                                *)
(***************************************************************************)

PrefetchClear(s) == IF s.list = <<>> THEN s ELSE [s EXCEPT !.list = <<[Current(s) EXCEPT !.completed = FALSE]>>]

OutputStop(s) ==
  LET t == [OutClose(PrefetchClear(s)) EXCEPT !.late = FALSE, !.wrong = FALSE] IN
  IF t.list = <<>> THEN t ELSE [t EXCEPT !.list[1].offset = 0]

\* If the decoder does not start then playback stops.
DecoderStart(s, e) ==
  {IF t.dec = NoDec THEN OutputStop(t)
   ELSE [t EXCEPT !.LastStart = IF @ = NoSong THEN e.song ELSE @]
     : t \in DecPlay([s EXCEPT !.seeking = FALSE], e)}

\* Drops the entries that have been played completely.
CheckPrefetch(s) ==
  LET played == {n \in 1 .. Len(s.list) : \A i \in 2 .. n : s.list[i].offset <= OutPlayingPos(s)} IN
  IF s.list = <<>> THEN s
  ELSE [s EXCEPT !.list = SubSeq(@, CHOOSE n \in played : \A m \in played : m <= n, Len(@))]

FetchCurrentSongTime(s) == IF s.open /\ ~ s.seeking THEN CheckPrefetch(s) ELSE s

(***************************************************************************)
(* Handlers.                                                               *)
(***************************************************************************)

Stop(s) == IF s.open THEN OutputStop(OutTrash(s)) ELSE s

\* If the list still has more than one entry then it was left by a failure of the output.
Play(s) ==
  IF s.open \/ s.list = <<>> THEN {s}
  ELSE UNION {IF t.open
              THEN LET rest == Len(s.list) > 1
                       u    == [t EXCEPT !.list[1].offset = 0, !.late = @ /\ rest, !.wrong = rest]
                   IN  DecoderStart(u, Current(u))
              ELSE {t}
                : t \in OutputStart(s, 0)}

\* Another position of the song that is decoded; a decoder that refuses to jump changes
\* nothing here.  One that has quit is restarted and may deliver before the buffers are
\* trashed.
NavigateSong(s) ==
  IF ~ s.open THEN {s}
  ELSE IF s.dec # NoDec THEN {OutTrash([DecJump(s) EXCEPT !.seeking = TRUE])}
  ELSE {IF t.open THEN [t EXCEPT !.todo = Plain("trash")] ELSE t
          : t \in DecoderStart([s EXCEPT !.wrong = @ \/ Len(s.list) > 1], Current(s))}

\* The buffers of the output are kept.
NavigateOtherMutant(s, to) ==
  IF s.open THEN [s EXCEPT !.todo = Command("navigate", to)]
  ELSE [s EXCEPT !.list[1] = [@ EXCEPT !.offset = 0, !.song = to]]

\* The decoder is told to stop, and the buffers are trashed.
NavigateOther(s, to) ==
  IF s.open THEN [OutTrash(s) EXCEPT !.todo = Command("navigate", to)]
  ELSE [s EXCEPT !.list[1] = [@ EXCEPT !.offset = 0, !.song = to]]

\* Stores the song.  What the decoder has delivered in between counts for its begin.
Navigated(s) ==
  LET t == PrefetchClear(s)
  IN [t EXCEPT !.list = Append(@, Entry(s.todo.to, Current(t).offset + s.MaxPos)), !.todo = Plain("start")]

\* The decoder that was told to stop has ended.
Started(s) ==
  DecoderStart([s EXCEPT !.todo = Nothing, !.astray = s.stale /\ s.now.pos > Last(s.list).offset], Last(s.list))

NavigateCore(s, to) == IF to = Last(s.list).song THEN NavigateSong(s) ELSE {NavigateOther(s, to)}

Load(s, list) == {[Stop(s) EXCEPT !.list = list, !.LastStart = NoSong]}

Navigate(s, to) == IF s.list = <<>> THEN {s} ELSE NavigateCore(s, to)

Skip(s) == IF s.list = <<>> \/ Current(s).song = N THEN {s} ELSE NavigateCore(s, Current(s).song + 1)

Completed(s) == IF s.list = <<>> THEN s ELSE [s EXCEPT !.list[Len(s.list)].completed = TRUE]

\* The iterator is not reset at the end.
SuccessorMutant(s) ==
  IF Current(s).song < N THEN Current(s).song + 1
  ELSE IF repeat /\ s.LastStart # N THEN N ELSE NoSong

\* The song after the current one, none at the end.
Successor(s) ==
  IF Current(s).song < N THEN Current(s).song + 1
  ELSE IF repeat /\ s.LastStart # 1 THEN 1 ELSE NoSong

\* The end of the playlist is not passed to the output.
DecStopMutant(s) ==
  LET t == [Completed(s) EXCEPT !.dec = NoDec, !.LastStart = IF s.MaxPos > 0 THEN NoSong ELSE @, !.late = @ \/ Len(s.list) > 1]
      e == Entry(Successor(t), Current(t).offset + t.MaxPos)
  IN IF s.dec = NoDec THEN {Completed(s)}
     ELSE IF s.list = <<>> THEN {[s EXCEPT !.dec = NoDec]}
     ELSE IF e.song = NoSong THEN {t}
     ELSE UNION {DecoderStart(u, e) : u \in OutputStart([t EXCEPT !.list = Append(@, e)], e.offset)}

\* Continues with the next song.
DecStop(s) ==
  LET t == [Completed(s) EXCEPT !.dec = NoDec, !.LastStart = IF s.MaxPos > 0 THEN NoSong ELSE @, !.late = @ \/ Len(s.list) > 1]
      e == Entry(Successor(t), Current(t).offset + t.MaxPos)
  IN IF s.dec = NoDec THEN {Completed(s)}
     ELSE IF s.list = <<>> THEN {[s EXCEPT !.dec = NoDec]}
     ELSE IF e.song = NoSong THEN {OutFlush(t)}
     ELSE UNION {DecoderStart(u, e) : u \in OutputStart([t EXCEPT !.list = Append(@, e)], e.offset)}

\* Back to the first song, and stop.  Without a list what happens is undefined.
OutStop(s) ==
  IF s.list = <<>> THEN {s}
  ELSE {Stop([s EXCEPT !.list[1].song = 1])}

(***************************************************************************)
(* The controller's thread.                                                *)
(***************************************************************************)

\* results: what the player may be like afterwards.
Handle(c, results) ==
  /\ p.todo = Nothing /\ queue # <<>> /\ Head(queue).cmd = c
  /\ queue' = Tail(queue)
  /\ p' \in results
  /\ UNCHANGED <<repeat, posted, quit>>

MsgPlay     == Handle("play", Play(p))
MsgStop     == Handle("stop", {Stop(p)})
MsgNavigate == Handle("navigate", Navigate(p, Head(queue).to))
MsgSkip     == Handle("skip", Skip(p))
MsgLoad     == Handle("load", Load(p, <<Entry(1, 0)>>))
MsgUnload   == Handle("unload", Load(p, <<>>))
MsgLocation == Handle("location", {FetchCurrentSongTime(p)})
MsgDecStop  == Handle("decstop", DecStop(p))
MsgSeekStop == Handle("seekstop", {[p EXCEPT !.seeking = FALSE]})
MsgOutStop  == Handle("outstop", OutStop(p))

\* The rest of a handler that has been interrupted.
HandleRest(c, results) ==
  /\ p.todo.cmd = c
  /\ p' \in results
  /\ UNCHANGED <<queue, repeat, posted, quit>>

ResumeNavigate == HandleRest("navigate", {Navigated(p)})
ResumeStart    == HandleRest("start", Started(p))
ResumeTrash    == HandleRest("trash", {[OutTrash(p) EXCEPT !.todo = Nothing]})
ResumeClose    == HandleRest("close", {[p EXCEPT !.dec = NoDec, !.todo = Nothing]})

(***************************************************************************)
(* The decoder.                                                            *)
(***************************************************************************)

Post(c) == queue' = Append(queue, Plain(c))

\* GlueCommitBuffer, which ends the song at its stop position.  The output begins
\* at once if it has nothing else.
Commit ==
  LET block == [song |-> p.dec.song, pos |-> p.dec.offset] IN
  /\ Decoding(p) /\ ~ p.dec.done /\ ~ p.dec.jump /\ p.open /\ ~ p.sent
  /\ Len(p.buf) < Capacity
  /\ (repeat => p.dec.offset < MaxTime) /\ Len(p.list) < MaxList
  /\ p' = [p EXCEPT !.now = IF @ = NoBlock THEN block ELSE @,
                    !.buf = IF p.now = NoBlock THEN @ ELSE Append(@, block),
                    !.MaxPos = 1, !.dec.done = TRUE, !.flush = FALSE, !.sent = p.dec.song \in StopSongs,
                    !.stale = @ \/ p.todo.cmd \in {"navigate", "start"}]
  /\ IF p.dec.song \in StopSongs THEN Post("decstop") ELSE UNCHANGED queue
  /\ UNCHANGED <<repeat, posted, quit>>

\* DECEVENT_PLAYSTOP, discarded if it has been sent.
PlayStop ==
  /\ Decoding(p) /\ p.dec.done
  /\ p' = [p EXCEPT !.dec.status = "ended", !.sent = TRUE]
  /\ IF p.sent THEN UNCHANGED queue ELSE Post("decstop")
  /\ UNCHANGED <<repeat, posted, quit>>

DecoderEnds(faults) ==
  /\ Decoding(p) /\ ~ p.dec.jump
  /\ p' = [p EXCEPT !.dec.status = "stopped", !.faults = faults]
  /\ Post("decstop")
  /\ UNCHANGED <<repeat, posted, quit>>

\* DECEVENT_PLAYERROR: the decoder gets no buffer.
PlayError == (p.sent \/ ~ p.open) /\ DecoderEnds(p.faults)

\* DECEVENT_PLAYERROR: it fails by itself.
DecodeError == ~ p.dec.done /\ MoreEvents(p) /\ DecoderEnds(p.faults + 1)

SeekStop ==
  /\ Decoding(p) /\ p.dec.jump
  /\ p' = [p EXCEPT !.dec.jump = FALSE]
  /\ Post("seekstop")
  /\ UNCHANGED <<repeat, posted, quit>>

(***************************************************************************)
(* The output.                                                             *)
(***************************************************************************)

PlayBlock ==
  /\ p.open /\ p.buf # <<>>
  /\ p' = [p EXCEPT !.now = Head(p.buf), !.buf = Tail(@), !.stale = FALSE]
  /\ UNCHANGED <<queue, repeat, posted, quit>>

\* OUTEVENT_END_OF_DATA.
EndOfData ==
  /\ p.open /\ p.flush /\ p.buf = <<>>
  /\ p' = [p EXCEPT !.flush = FALSE]
  /\ Post("outstop")
  /\ UNCHANGED <<repeat, posted, quit>>

\* OUTEVENT_PLAY_ERROR.
OutError ==
  /\ p.open /\ MoreEvents(p)
  /\ p' = [p EXCEPT !.faults = @ + 1]
  /\ Post("stop")
  /\ UNCHANGED <<repeat, posted, quit>>

(***************************************************************************)
(* The user interface and the end of the program.                          *)
(***************************************************************************)

UserCommand == {Plain(c) : c \in {"play", "stop", "skip", "load"}} \cup {Command("navigate", n) : n \in Song}

User ==
  /\ quit = "no" /\ MoreEvents(p)
  /\ posted' = posted + 1
  /\ \E c \in UserCommand : queue' = Append(queue, c)
  /\ UNCHANGED <<repeat, quit, p>>

Asked == \E i \in 1 .. Len(queue) : queue[i].cmd = "location"

\* The timer asks for the position, once at a time.
Poll ==
  /\ quit = "no" /\ p.open /\ ~ Asked
  /\ Post("location")
  /\ UNCHANGED <<repeat, posted, quit, p>>

\* Uninit purges the queue and waits for the position.
UninitBegin ==
  /\ quit = "no" /\ MoreEvents(p)
  /\ quit' = "asking" /\ posted' = posted + 1
  /\ queue' = <<Plain("location")>>
  /\ UNCHANGED <<repeat, p>>

PostUnload ==
  /\ quit = "asking" /\ ~ Asked
  /\ quit' = "unloading" /\ Post("unload")
  /\ UNCHANGED <<repeat, posted, p>>

\* The worker ends here.  Decoder and output are heard until then.
PostPill ==
  /\ quit = "unloading"
  /\ quit' = "done" /\ Post("end")
  /\ UNCHANGED <<repeat, posted, p>>

(***************************************************************************)
(* Specification.                                                          *)
(***************************************************************************)

\* The player resumes what it played when it was left.
CtrlInit ==
  /\ queue = <<Plain("load"), Plain("play")>>
  /\ repeat \in Repeats /\ posted = 0 /\ quit = "no"
  /\ p = [list |-> <<>>, seeking |-> FALSE, LastStart |-> NoSong, open |-> FALSE, dec |-> NoDec, sent |-> FALSE,
          MaxPos |-> 0, PlayingPos |-> 0, TimeOffset |-> 0, buf |-> <<>>, now |-> NoBlock, flush |-> FALSE, faults |-> 0,
          todo |-> Nothing, late |-> FALSE, wrong |-> FALSE, stale |-> FALSE, astray |-> FALSE]

Worker ==
  \/ MsgPlay \/ MsgStop \/ MsgNavigate \/ MsgSkip \/ MsgLoad \/ MsgUnload
  \/ MsgLocation \/ MsgDecStop \/ MsgSeekStop \/ MsgOutStop
  \/ ResumeNavigate \/ ResumeStart \/ ResumeTrash \/ ResumeClose

Decoder == Commit \/ PlayStop \/ PlayError \/ SeekStop

Output == PlayBlock \/ EndOfData

Uninit == PostUnload \/ PostPill

CtrlNext == Worker \/ Decoder \/ Output \/ DecodeError \/ OutError \/ User \/ Poll \/ UninitBegin \/ Uninit

CtrlSpec == CtrlInit /\ [][CtrlNext]_CtrlVars

\* The threads go on, and the timer ticks.  Nothing has to fail, and the user need not
\* do anything.
CtrlFairSpec == CtrlSpec /\ WF_CtrlVars(Worker) /\ WF_CtrlVars(Decoder) /\ WF_CtrlVars(Output) /\ WF_CtrlVars(Poll) /\ WF_CtrlVars(Uninit)

(***************************************************************************)
(* Properties.                                                             *)
(***************************************************************************)

\* The decoder works on the last entry of the list.  Holds unless the wrong entry was
\* started, or the output failed to open between two songs and is still closed.  While
\* a handler waits for the decoder to end it is none of the list any more.
DecodesLast ==
  p.dec # NoDec /\ p.todo.cmd \in {"nothing", "trash"} /\ ~ p.wrong /\ (p.open \/ p.faults = 0) =>
    p.list # <<>> /\ p.dec.song = Last(p.list).song /\ p.dec.offset = Last(p.list).offset

\* A song has ended before the one before it had left the list, the wrong entry was
\* started, or a song that had been left was heard behind the begin of its successor.
Confused(s) == s.late \/ s.wrong \/ s.astray

\* For whatever the output has to play the list has the entry that CheckPrefetch
\* will take for the current one when it is played.  Not for a block that the decoder
\* delivers when the song has been left, after the buffers have been trashed.
ListCovers ==
  ~ Confused(p) =>
    \A b \in Range(p.buf) \cup (IF p.stale THEN {} ELSE {p.now} \ {NoBlock}) :
      \E i \in 1 .. Len(p.list) :
        /\ p.list[i].song = b.song /\ p.list[i].offset = b.pos
        /\ \A j \in i + 1 .. Len(p.list) : p.list[j].offset > b.pos

\* Song by song without a gap, whatever the user or the failures intervene, with the
\* same exceptions.
SongsInOrder ==
  [][p'.now # p.now /\ p.now # NoBlock /\ p'.now # NoBlock /\ ~ Confused(p) /\ ~ p.stale =>
     p'.now.song = IF p.now.song < N THEN p.now.song + 1 ELSE 1]_CtrlVars

\* Without Repeat playback comes to an end: the last song is passed to the output
\* as such, and what the output tells then stops the engine.
PlaybackEnds == p.open /\ ~ repeat ~> ~ p.open \/ p.late
=============================================================================
