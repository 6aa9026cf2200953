----------------------------- MODULE AsyncBuffer -----------------------------
(***************************************************************************)
(* xio123/xio_asyncbuffer.cpp: a thread reads a stream ahead into a ring   *)
(* buffer, while the owner of the stream reads from it and seeks.          *)
(*                                                                         *)
(* A byte of the file is represented by its position, -1 is what nobody    *)
(* has written.  Buffer pointers are offsets from head.  The owner's calls *)
(* are serialized by the handle (xio.cpp).  What a thread does while it    *)
(* has mtx_access is one step, except for the copying of read, which is    *)
(* one step per chunk.  Reads and seeks of the underlying stream are made  *)
(* without the mutex: they begin in one step and are over in another.      *)
(***************************************************************************)
EXTENDS Integers, Functions

CONSTANTS
  FileSize,
  Size,           (* size of the buffer                                    *)
  Keep,           (* data_keep                                             *)
  MinObsolete,    (* less obsolete data than that is not dropped, 512      *)
  BlockSize,      (* most that is read from the stream at once             *)
  MaxCount,       (* most that the owner reads at once                     *)
  Prefills,       (* levels to start sending data at                       *)
  MaxFaults       (* bound of the failures of the stream                   *)

ASSUME SizeAssumption ==
  /\ FileSize \in Nat /\ Size \in Nat \ {0} /\ Keep \in Nat /\ MinObsolete \in Nat
  /\ BlockSize \in 1 .. Size /\ MaxCount \in Nat \ {0} /\ MaxFaults \in Nat
  /\ Prefills \subseteq 0 .. Size

\* With less the buffer could be full of obsolete data.
ASSUME RoomAssumption == Keep + MinObsolete < Size

VARIABLES
  bytes,          (* the memory of the buffer                              *)
  data_head, data_tail, data_read, data_size, data_rest,
  prefill, seekto, data_end, end,
  evt_read_data, evt_have_data,
  read_pos, eof, error,  (* XIObuffer and XPROTOCOL, the owner's view       *)
  chain,          (* the underlying stream                                 *)
  ahead,          (* where the read-ahead thread is                        *)
  job,            (* what it asked the stream for, and the result          *)
  at,             (* where the owner is                                    *)
  count, done,    (* arguments and progress of its call                    *)
  (* History variables, no step depends on them: *)
  lost,           (* evt_read_data was reset although a seek was pending   *)
  slipped,        (* a read failed after it had taken data                 *)
  brim            (* a seek ended behind the last byte of a full buffer    *)

pool    == <<data_head, data_tail, data_read, data_size, data_rest>>
events  == <<evt_read_data, evt_have_data>>
owner   == <<read_pos, eof, error, at, count, done>>
history == <<lost, slipped, brim>>
vars    == <<bytes, pool, prefill, seekto, data_end, end, events, owner, chain, ahead, job, history>>

Position == 0 .. FileSize
None     == -1

\* The owner keeps mtx_access from chunk to chunk.
Locked == at = "copying"

\* advance and move.
Move(p, n) == IF p + n >= Size THEN p + n - Size ELSE IF p + n < 0 THEN p + n + Size ELSE p + n

Lower(a, b) == IF a < b THEN a ELSE b

\* Position in the file of the first byte of the data.
FilePos == read_pos - (data_size - data_rest)

(***************************************************************************)
(* Operators named ...Mutant are faulty variants of the operator that      *)
(* follows them.  No specification uses them: each shows that a property   *)
(* notices the fault.                                                      *)
(***************************************************************************)

(***************************************************************************)
(* The underlying stream.                                                  *)
(***************************************************************************)

\* read: some bytes, none at the end of the file, or an error.  A protocol that fills
\* the request in a loop may meet the end after the last bytes.  (If it meets an error
\* there, as xio_http.cpp may in a stream with titles, then these bytes are lost: that
\* is a fault of the protocol and left out.)
StreamRead(n) ==
  \/ \E k \in 1 .. Lower(n, FileSize - chain.pos), met \in BOOLEAN :
       /\ met => chain.pos + k = FileSize
       /\ job' = [what |-> "read", done |-> k]
       /\ bytes' = [i \in DOMAIN bytes |->
            IF i \in data_tail .. data_tail + k - 1 THEN chain.pos + (i - data_tail) ELSE bytes[i]]
       /\ chain' = [chain EXCEPT !.pos = @ + k, !.eof = @ \/ met]
  \/ /\ chain.pos = FileSize
     /\ job' = [what |-> "read", done |-> 0]
     /\ chain' = [chain EXCEPT !.eof = TRUE]
     /\ UNCHANGED bytes
  \/ /\ chain.faults < MaxFaults
     /\ job' = [what |-> "read", done |-> -1]
     /\ chain' = [chain EXCEPT !.error = TRUE, !.faults = @ + 1]
     /\ UNCHANGED bytes

StreamSeek(to) ==
  \/ /\ job' = [what |-> "seek", done |-> to]
     /\ chain' = [chain EXCEPT !.pos = to, !.eof = FALSE, !.error = FALSE]
  \/ /\ chain.faults < MaxFaults
     /\ job' = [what |-> "failed", done |-> to]
     /\ chain' = [chain EXCEPT !.error = TRUE, !.faults = @ + 1]

(***************************************************************************)
(* read_ahead.                                                             *)
(***************************************************************************)

\* The end of an iteration, still under the mutex.
Signal ==
  /\ data_end' = (chain.eof \/ chain.error)
  /\ evt_have_data' = (evt_have_data \/ data_end' \/ data_size' >= prefill)
  /\ evt_read_data' = (evt_read_data /\ (end \/ ~ (data_size' = Size \/ data_end')))
  /\ lost' = (lost \/ (~ end /\ data_end' /\ seekto' # None))
  /\ ahead' = "wait"
  /\ job' = [what |-> "none", done |-> 0]

Discard ==
  /\ data_head' = 0 /\ data_tail' = 0 /\ data_read' = 0
  /\ data_size' = 0 /\ data_rest' = 0

Quit ==
  /\ ahead = "wait" /\ evt_read_data /\ end
  /\ ahead' = "ended"
  /\ UNCHANGED <<bytes, pool, prefill, seekto, data_end, end, events, owner, chain, job, history>>

BeginSeek ==
  /\ ahead = "wait" /\ evt_read_data /\ ~ end /\ ~ Locked
  /\ seekto # None
  /\ StreamSeek(seekto)
  /\ ahead' = "seek"
  /\ UNCHANGED <<bytes, pool, prefill, seekto, data_end, end, events, owner, history>>

\* A seek that arrived meanwhile is taken for this one.
EndSeekMutant ==
  /\ ahead = "seek" /\ ~ Locked
  /\ IF job.what = "failed" THEN error' = TRUE /\ UNCHANGED pool ELSE Discard /\ UNCHANGED error
  /\ seekto' = None
  /\ Signal
  /\ UNCHANGED <<bytes, prefill, end, read_pos, eof, at, count, done, chain, slipped, brim>>

\* Double check: an additional seek command could have arrived.
EndSeek ==
  /\ ahead = "seek" /\ ~ Locked
  /\ IF job.what = "failed" THEN error' = TRUE /\ UNCHANGED pool ELSE Discard /\ UNCHANGED error
  /\ seekto' = IF seekto = job.done THEN None ELSE seekto
  /\ Signal
  /\ UNCHANGED <<bytes, prefill, end, read_pos, eof, at, count, done, chain, slipped, brim>>

\* Reads up to the end of the memory even if the data begins before it.
BeginReadMutant ==
  /\ ahead = "wait" /\ evt_read_data /\ ~ end /\ ~ Locked
  /\ seekto = None /\ data_size < Size
  /\ StreamRead(Lower(BlockSize, Size - data_tail))
  /\ ahead' = "read"
  /\ UNCHANGED <<pool, prefill, seekto, data_end, end, events, owner, history>>

BeginRead ==
  /\ ahead = "wait" /\ evt_read_data /\ ~ end /\ ~ Locked
  /\ seekto = None /\ data_size < Size
  /\ StreamRead(Lower(BlockSize, (IF data_head > data_tail THEN data_head ELSE Size) - data_tail))
  /\ ahead' = "read"
  /\ UNCHANGED <<pool, prefill, seekto, data_end, end, events, owner, history>>

\* A seek that arrived meanwhile is left to the next iteration.
EndReadMutant ==
  /\ ahead = "read" /\ ~ Locked
  /\ IF job.done > 0
     THEN /\ data_size' = data_size + job.done /\ data_rest' = data_rest + job.done
          /\ data_tail' = Move(data_tail, job.done)
          /\ UNCHANGED <<data_head, data_read>>
     ELSE UNCHANGED pool
  /\ UNCHANGED <<bytes, prefill, seekto, end, owner, chain, slipped, brim>>
  /\ Signal

\* A seek that arrived meanwhile may be satisfied by the new data, else the
\* buffer is of no use.
EndRead ==
  LET size == data_size + job.done IN
  /\ ahead = "read" /\ ~ Locked
  /\ \/ /\ job.done <= 0
        /\ UNCHANGED <<pool, seekto, brim>>
     \/ /\ job.done > 0 /\ seekto = None
        /\ data_size' = size /\ data_rest' = data_rest + job.done
        /\ data_tail' = Move(data_tail, job.done)
        /\ UNCHANGED <<data_head, data_read, seekto, brim>>
     \/ /\ job.done > 0 /\ seekto # None /\ seekto \in FilePos .. FilePos + size
        /\ data_size' = size /\ data_rest' = size - (seekto - FilePos)
        /\ data_tail' = Move(data_tail, job.done)
        /\ data_read' = Move(data_head, seekto - FilePos)
        /\ brim' = (brim \/ (size = Size /\ data_rest' = 0))
        /\ seekto' = None
        /\ UNCHANGED data_head
     \/ /\ job.done > 0 /\ seekto \notin {None} \cup FilePos .. FilePos + size
        /\ Discard
        /\ UNCHANGED <<seekto, brim>>
  /\ Signal
  /\ UNCHANGED <<bytes, prefill, end, owner, chain, slipped>>

\* The buffer is full.
Idle ==
  /\ ahead = "wait" /\ evt_read_data /\ ~ end /\ ~ Locked
  /\ seekto = None /\ data_size = Size
  /\ UNCHANGED <<bytes, pool, prefill, seekto, end, owner, chain, slipped, brim>>
  /\ Signal

(***************************************************************************)
(* read.                                                                   *)
(***************************************************************************)

\* xio_fread reads nothing after the end of the file or an error.
Read ==
  /\ at = "idle" /\ ~ eof /\ ~ error
  /\ \E n \in 1 .. MaxCount : count' = n
  /\ done' = 0
  /\ at' = "copying"
  /\ UNCHANGED <<bytes, pool, prefill, seekto, data_end, end, events, read_pos, eof, error, chain, ahead, job, history>>

\* The head of the data moves when there is too much obsolete data.
DropObsolete(rest) ==
  LET obsolete == data_size - rest - Keep IN
  IF obsolete > MinObsolete
  THEN /\ data_head' = Move(data_head, obsolete) /\ data_size' = data_size - obsolete
       /\ evt_read_data' = TRUE
  ELSE UNCHANGED <<data_head, data_size, evt_read_data>>

Copy ==
  LET n == Lower(Lower(Size - data_read, data_rest), count - done) IN
  /\ at = "copying" /\ done < count /\ data_rest > 0
  /\ data_read' = Move(data_read, n) /\ data_rest' = data_rest - n
  /\ done' = done + n
  /\ DropObsolete(data_rest - n)
  /\ UNCHANGED <<bytes, data_tail, prefill, seekto, data_end, end, evt_have_data, read_pos, eof, error, at, count, chain, ahead, job, history>>

Copied ==
  /\ at = "copying" /\ done = count
  /\ read_pos' = read_pos + done
  /\ at' = "idle" /\ count' = 0 /\ done' = 0
  /\ UNCHANGED <<bytes, pool, prefill, seekto, data_end, end, events, eof, error, chain, ahead, job, history>>

\* No data left: the end of the file, an error, or something to wait for.
AtEof ==
  /\ at = "copying" /\ done < count /\ data_rest = 0
  /\ data_end /\ chain.eof
  /\ eof' = TRUE
  /\ read_pos' = read_pos + done
  /\ at' = "idle" /\ count' = 0 /\ done' = 0
  /\ UNCHANGED <<bytes, pool, prefill, seekto, data_end, end, events, error, chain, ahead, job, history>>

\* What has been copied before does not count.
Failed ==
  /\ at = "copying" /\ done < count /\ data_rest = 0
  /\ data_end /\ ~ chain.eof /\ chain.error
  /\ error' = TRUE
  /\ slipped' = (slipped \/ done > 0)
  /\ at' = "idle" /\ count' = 0 /\ done' = 0
  /\ UNCHANGED <<bytes, pool, prefill, seekto, data_end, end, events, read_pos, eof, chain, ahead, job, lost, brim>>

Wait ==
  /\ at = "copying" /\ done < count /\ data_rest = 0
  /\ ~ (data_end /\ (chain.eof \/ chain.error))
  /\ evt_have_data' = FALSE /\ evt_read_data' = TRUE
  /\ at' = "wait"
  /\ UNCHANGED <<bytes, pool, prefill, seekto, data_end, end, read_pos, eof, error, count, done, chain, ahead, job, history>>

Resume ==
  /\ at = "wait" /\ evt_have_data
  /\ at' = "copying"
  /\ UNCHANGED <<bytes, pool, prefill, seekto, data_end, end, events, read_pos, eof, error, count, done, chain, ahead, job, history>>

(***************************************************************************)
(* do_seek and close.                                                      *)
(***************************************************************************)

SeekInBuffer ==
  /\ at = "idle"
  /\ \E offset \in Position \cap (FilePos .. FilePos + data_size) :
       /\ data_read' = Move(data_head, offset - FilePos)
       /\ data_rest' = data_size - (offset - FilePos)
       /\ DropObsolete(data_size - (offset - FilePos))
       /\ read_pos' = offset
  /\ eof' = FALSE /\ error' = FALSE
  /\ UNCHANGED <<bytes, data_tail, prefill, seekto, data_end, end, evt_have_data, at, count, done, chain, ahead, job, history>>

\* The read-ahead thread is not told.
SeekMutant ==
  /\ at = "idle"
  /\ \E offset \in Position \ (FilePos .. FilePos + data_size) : count' = offset /\ seekto' = offset
  /\ eof' = FALSE /\ error' = FALSE
  /\ evt_have_data' = FALSE
  /\ at' = "seek"
  /\ UNCHANGED <<bytes, pool, prefill, data_end, end, evt_read_data, read_pos, done, chain, ahead, job, history>>

Seek ==
  /\ at = "idle"
  /\ \E offset \in Position \ (FilePos .. FilePos + data_size) : count' = offset /\ seekto' = offset
  /\ eof' = FALSE /\ error' = FALSE
  /\ evt_read_data' = TRUE /\ evt_have_data' = FALSE
  /\ at' = "seek"
  /\ UNCHANGED <<bytes, pool, prefill, data_end, end, read_pos, done, chain, ahead, job, history>>

\* Acknowledged by the read-ahead thread.
SeekDone ==
  /\ at = "seek" /\ evt_have_data
  /\ read_pos' = IF error THEN read_pos ELSE count
  /\ at' = "idle" /\ count' = 0
  /\ UNCHANGED <<bytes, pool, prefill, seekto, data_end, end, events, eof, error, done, chain, ahead, job, history>>

Close ==
  /\ at = "idle"
  /\ end' = TRUE /\ evt_read_data' = TRUE
  /\ at' = "close"
  /\ UNCHANGED <<bytes, pool, prefill, seekto, data_end, evt_have_data, read_pos, eof, error, count, done, chain, ahead, job, history>>

\* DosWaitThread.
Closed ==
  /\ at = "close" /\ ahead = "ended"
  /\ at' = "closed"
  /\ UNCHANGED <<bytes, pool, prefill, seekto, data_end, end, events, read_pos, eof, error, count, done, chain, ahead, job, history>>

(***************************************************************************)
(* Specification.                                                          *)
(***************************************************************************)

Init ==
  /\ bytes = [i \in 0 .. Size - 1 |-> None]
  /\ data_head = 0 /\ data_tail = 0 /\ data_read = 0 /\ data_size = 0 /\ data_rest = 0
  /\ prefill \in Prefills
  /\ seekto = None /\ data_end = FALSE /\ end = FALSE
  /\ evt_read_data = TRUE /\ evt_have_data = FALSE
  /\ read_pos = 0 /\ eof = FALSE /\ error = FALSE
  /\ chain = [pos |-> 0, eof |-> FALSE, error |-> FALSE, faults |-> 0]
  /\ ahead = "wait" /\ job = [what |-> "none", done |-> 0]
  /\ at = "idle" /\ count = 0 /\ done = 0
  /\ lost = FALSE /\ slipped = FALSE /\ brim = FALSE

ReadAhead == BeginSeek \/ EndSeek \/ BeginRead \/ EndRead \/ Idle \/ Quit

Continue == Copy \/ Copied \/ AtEof \/ Failed \/ Wait \/ Resume \/ SeekDone \/ Closed

Next == ReadAhead \/ Continue \/ Read \/ SeekInBuffer \/ Seek \/ Close

Spec == Init /\ [][Next]_vars

\* Both threads go on, and the stream answers.  The owner need not call anything.
FairSpec == Spec /\ WF_vars(ReadAhead) /\ WF_vars(Continue)

(***************************************************************************)
(* Properties.                                                             *)
(***************************************************************************)

\* The pointers and counters of the ring always agree, and what the read-ahead
\* thread reads without the mutex does not overlap what it holds.
RingConsistent ==
  /\ data_head \in 0 .. Size - 1 /\ data_size \in 0 .. Size /\ data_rest \in 0 .. data_size
  /\ data_tail = Move(data_head, data_size)
  /\ data_read = Move(data_head, data_size - data_rest)
  /\ ahead = "read" /\ job.done > 0 => data_size + job.done <= Size

\* read returns the bytes at the position of the stream.  Holds unless a seek got
\* lost or a read failed halfway.
ReadsRight ==
  at = "copying" /\ ~ lost /\ ~ slipped =>
    \A i \in 0 .. data_rest - 1 : bytes[Move(data_read, i)] = read_pos + done + i

\* The end of the file is reported at the end of the file only.  Holds under the same
\* conditions, unless the stream has failed and not been sought since: then data_end is
\* still set when the stream meets the end with the last bytes, and read does not wait
\* for them.
EofRight == eof /\ ~ lost /\ ~ slipped /\ ~ chain.error => read_pos = FileSize

\* A call returns, unless the owner is behind the last byte of a full buffer.
CallsReturn == at \notin {"idle", "closed"} ~> (at \in {"idle", "closed"} \/ brim)
=============================================================================
