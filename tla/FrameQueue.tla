----------------------------- MODULE FrameQueue -----------------------------
(***************************************************************************)
(* The queue of mctools.c (dstf_t) that cuts a stream into frames, and the *)
(* loop around it in dhav2mkv.c and dvrcontrol.c: first data is appended   *)
(* until the container format is known, then every read() is handed to     *)
(* dstf_process_*_stream_to_frames(), which is called again with no new    *)
(* data for as long as it returns more than 0.  The two formats' ways of   *)
(* finding a frame are in DhavFramer and RawFramer.                        *)
(*                                                                         *)
(* How much a read() returns is arbitrary, up to MaxRead: pipe and file    *)
(* boundaries have nothing to do with those of the frames.                 *)
(***************************************************************************)
EXTENDS Integers, Sequences

CONSTANTS
  MaxLen,    \* cells in the queue, dstf->sq_maxlen
  MaxRead,   \* the most that one read() returns
  MaxDst,    \* size of the buffer a frame is copied to
  Streams    \* the streams considered, sequences of integers

ASSUME FrameQueueAssumption ==
  /\ MaxLen \in Nat \ {0}
  /\ MaxRead \in Nat \ {0} /\ 2 * MaxRead <= MaxLen
  /\ MaxDst \in Nat
  /\ Streams \subseteq Seq(Int)

VARIABLES
  input,   \* the whole stream
  got,     \* how much of it has been read
  sq,      \* the queue's cells; 0 is whatever malloc() left there
  offs,    \* sq_offs, the first cell in use
  len,     \* sq_len, the number of cells in use
  frames,  \* the frames delivered
  ret,     \* the last result of dstf_process_*_stream_to_frames()
  eof,     \* the last read() returned 0
  pc       \* "identify", "read", "again", "end" or "failed"

vars == <<input, got, sq, offs, len, frames, ret, eof, pc>>

Init ==
  /\ input \in Streams
  /\ got = 0
  /\ sq = [c \in 0..MaxLen-1 |-> 0]
  /\ offs = 0 /\ len = 0
  /\ frames = <<>>
  /\ ret = 0
  /\ eof = FALSE
  /\ pc = "identify"

(* What a read() may return: 0 at the end of the stream only. *)
ReadSizes ==
  IF got = Len(input) THEN {0} ELSE {n \in 1..MaxRead : got + n <= Len(input)}

(* The cells with the next n of the stream copied to those from `at'. *)
Copied(cells, at, n) ==
  [c \in 0..MaxLen-1 |-> IF c \in at..at+n-1 THEN input[got + c - at + 1] ELSE cells[c]]

-----------------------------------------------------------------------------
(***************************************************************************)
(* The identification loop appends without looking whether the data fits:  *)
(* its condition leaves room for two reads.                                *)
(***************************************************************************)
IdentifyFull ==
  /\ pc = "identify" /\ MaxLen - len < 2 * MaxRead
  /\ pc' = "read"
  /\ UNCHANGED <<input, got, sq, offs, len, frames, ret, eof>>

(* The queue's contents with the next n of the stream appended. *)
Appended(n) == [i \in 1..len + n |-> Copied(sq, offs + len, n)[offs + i - 1]]

(* They are appended; `known' tells that the format shows in them. *)
IdentifyMore(n, known) ==
  /\ pc = "identify" /\ MaxLen - len >= 2 * MaxRead
  /\ sq' = Copied(sq, offs + len, n)
  /\ len' = len + n
  /\ got' = got + n
  /\ pc' = IF n = 0 \/ known THEN "read" ELSE "identify"
  /\ UNCHANGED <<input, offs, frames, ret, eof>>

-----------------------------------------------------------------------------
(***************************************************************************)
(* The common head and tail of dstf_process_*_stream_to_frames(), for n    *)
(* cells of new data.                                                      *)
(***************************************************************************)

(* Mutant: the room in front of the cells in use is not counted. *)
NoRoomBehind(n) ==
  /\ n > MaxLen - (len + offs)
  /\ ret' = -1
  /\ pc' = "failed"
  /\ got' = got + n
  /\ UNCHANGED <<sq, offs, len, frames>>

NoRoom(n) ==
  /\ n > MaxLen - len
  /\ ret' = -1
  /\ pc' = "failed"
  /\ got' = got + n
  /\ UNCHANGED <<sq, offs, len, frames>>

(* The queue is packed, to begin at cell 0, only when n cells do not fit   *)
(* behind the ones in use.                                                 *)
LoadedOffs(n) == IF n > MaxLen - (len + offs) THEN 0 ELSE offs

(* Mutant: the offset is set back but nothing is moved. *)
LoadedUnpacked(n) == Copied(sq, LoadedOffs(n) + len, n)

Loaded(n) ==
  LET at     == LoadedOffs(n)
      packed == [c \in 0..MaxLen-1 |->
                   IF at # offs /\ c < len THEN sq[offs + c] ELSE sq[c]]
  IN  Copied(packed, at + len, n)

(* The queue's contents after the new data has been loaded. *)
Contents(n) ==
  LET cells == Loaded(n)
      at    == LoadedOffs(n)
  IN  [i \in 1..len + n |-> cells[at + i - 1]]

(* Mutant: what is delivered still counts as in use. *)
LeftWithFrame(n, skip, size) == len + n - skip

Left(n, skip, size) == len + n - skip - size

(* Result r after `skip' cells were dropped and `size' delivered. *)
Settle(n, skip, size, r) ==
  /\ sq' = Loaded(n)
  /\ offs' = LoadedOffs(n) + skip + size
  /\ len' = Left(n, skip, size)
  /\ got' = got + n
  /\ ret' = r
  /\ frames' = IF r = 1 THEN Append(frames, SubSeq(Contents(n), skip + 1, skip + size))
                        ELSE frames
  /\ pc' = IF r > 0 THEN "again"
           ELSE IF r < 0 THEN "failed"
           ELSE IF eof' THEN "end" ELSE "read"

(* One turn of the outer loop: n cells of new data, 0 at the stream's end. *)
Read(n) ==
  /\ pc = "read"
  /\ eof' = (n = 0)
  /\ UNCHANGED input

(* Another turn of the inner one, which goes on with no new data. *)
Again == pc = "again" /\ UNCHANGED <<input, eof>>

Done == pc \in {"end", "failed"} /\ UNCHANGED vars
-----------------------------------------------------------------------------
(* Every variable holds a value of its type: the cells in use lie within   *)
(* sq[], whatever identify and dstf_process_*() appended and dropped.      *)
TypeOK ==
  /\ input \in Streams
  /\ got \in 0..Len(input)
  /\ sq \in [0..MaxLen-1 -> Int]
  /\ offs \in 0..MaxLen /\ len \in 0..MaxLen /\ offs + len <= MaxLen
  /\ frames \in Seq(Seq(Int))
  /\ ret \in {-3, -1, 0, 1, 3}
  /\ eof \in BOOLEAN
  /\ pc \in {"identify", "read", "again", "end", "failed"}

(* The cells in use hold the end of what has been read, in order: packing, *)
(* loading and dropping never mix, lose or repeat data within the queue.   *)
HoldsTail ==
  pc # "failed" =>
    /\ len <= got
    /\ \A i \in 0..len-1 : sq[offs + i] = input[got - len + i + 1]
=============================================================================
