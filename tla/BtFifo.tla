------------------------------- MODULE BtFifo -------------------------------
(***************************************************************************)
(* The circular byte FIFO of bufftools.c.  It lies between two pipes in    *)
(* the intermediate process of a capture: btfifo_fd_to_fifo() fills it     *)
(* from the DVR streamer, btfifo_fifo_to_fd() drains it to the converter.  *)
(*                                                                         *)
(* The k-th byte of the incoming stream is the number k, so a lost,        *)
(* repeated, reordered or overwritten byte shows.  A read() or write() on  *)
(* a non-blocking descriptor transfers any part of what it is asked for,   *)
(* none at end of file, or fails: with EAGAIN or EINTR (-1), or for good.  *)
(***************************************************************************)
EXTENDS Integers, Sequences

CONSTANTS
  BSize,     \* size of the buffer, btfifo->bsize (1048576 in dvrcontrol.c)
  UseWmin,   \* BTFIFO_F_USE_WMIN is among the flags
  Wmin,      \* btfifo->wmin: with that flag, the least worth writing
  MaxBytes   \* bound: length of the incoming stream

ASSUME BtFifoAssumption ==
  /\ BSize \in Nat \ {0}
  /\ UseWmin \in BOOLEAN
  /\ Wmin \in Nat
  /\ MaxBytes \in Nat

VARIABLES
  b,       \* the buffer's cells; 0 is whatever malloc() left there
  dlen,    \* bytes stored
  dpos,    \* cell of the oldest byte stored
  rin,     \* bytes that read() has handed over so far
  out,     \* the bytes write() has taken so far
  ret,     \* what the last operation returned
  phase,   \* "open", then "closed": flushed and destroyed
  cut      \* a write of the last flush failed or a signal cut it short

vars == <<b, dlen, dpos, rin, out, ret, phase, cut>>

Again == -1         \* EAGAIN, EWOULDBLOCK or EINTR
ReadFail1 == -1301  \* the first read() failed
ReadFail2 == -1401  \* the only read(), or the second, failed
WriteFail == -101   \* a write() failed
Full == -2          \* no room to read into

(* Mutant: one byte too many is taken for free. *)
FreeLenOffByOne == BSize - dlen + 1

(* btfifo_get_free_len() and btfifo_get_stored_len(). *)
FreeLen == BSize - dlen
StoredLen == dlen

Moved(r) == IF r > 0 THEN r ELSE 0     \* bytes behind a syscall's result

(* The buffer with the next n bytes after the first `seen' of the stream   *)
(* copied to the cells from `at'.                                          *)
Store(buf, at, n, seen) ==
  [c \in 0..BSize-1 |-> IF c \in at..at+n-1 THEN seen + c - at + 1 ELSE buf[c]]

(* The bytes in the n cells from `at'. *)
Cells(at, n) == [k \in 1..n |-> b[at + k - 1]]

Init ==
  /\ b = [c \in 0..BSize-1 |-> 0]
  /\ dlen = 0 /\ dpos = 0
  /\ rin = 0 /\ out = <<>>
  /\ ret = 0
  /\ phase = "open" /\ cut = FALSE

-----------------------------------------------------------------------------
(***************************************************************************)
(* btfifo_fd_to_fifo().  The free cells are one region or, when the stored *)
(* bytes lie in the middle, two; the second is read into only when the     *)
(* first read() filled the first.                                          *)
(***************************************************************************)
TwoFreeRegions == dpos # 0 /\ dpos + dlen < BSize

ReadResults(len, seen, code) ==
  {Again, code} \cup {n \in 0..len : seen + n <= MaxBytes}

FdToFifoFull ==
  /\ FreeLen = 0
  /\ ret' = Full
  /\ UNCHANGED <<b, dlen, dpos, rin, out>>

(* Mutant: the free region is always taken to begin behind dlen cells. *)
SecondRegionAtDlen(len) == dlen

(* Where a read() from the second or only free region puts its data. *)
SecondRegionAt(len) == IF dpos = 0 THEN dlen ELSE dpos - len

(* One read(): there is one region, or the first of two was not filled. *)
FdToFifoOneRead ==
  /\ FreeLen # 0
  /\ LET len == IF TwoFreeRegions THEN BSize - (dpos + dlen) ELSE FreeLen
         at  == IF TwoFreeRegions THEN dpos + dlen ELSE SecondRegionAt(len)
     IN \E r \in ReadResults(len, rin, IF TwoFreeRegions THEN ReadFail1 ELSE ReadFail2) :
          /\ TwoFreeRegions => r # len
          /\ b' = Store(b, at, Moved(r), rin)
          /\ dlen' = dlen + Moved(r)
          /\ rin' = rin + Moved(r)
          /\ ret' = r
  /\ UNCHANGED <<dpos, out>>

(* The first read() fills the cells up to the buffer's end, the second     *)
(* reads from cell 0 on; its result alone is returned.                     *)
FdToFifoTwoReads ==
  /\ TwoFreeRegions
  /\ LET len1 == BSize - (dpos + dlen)
         len2 == BSize - (dlen + len1)
         seen == rin + len1
     IN /\ seen <= MaxBytes
        /\ \E r \in ReadResults(len2, seen, ReadFail2) :
             /\ b' = Store(Store(b, dpos + dlen, len1, rin),
                           SecondRegionAt(len2), Moved(r), seen)
             /\ dlen' = dlen + len1 + Moved(r)
             /\ rin' = seen + Moved(r)
             /\ ret' = r
  /\ UNCHANGED <<dpos, out>>

FdToFifo ==
  /\ phase = "open"
  /\ FdToFifoFull \/ FdToFifoOneRead \/ FdToFifoTwoReads
  /\ UNCHANGED <<phase, cut>>

-----------------------------------------------------------------------------
(***************************************************************************)
(* btfifo_fifo_to_fd(), likewise with the stored bytes' regions.           *)
(***************************************************************************)
TwoUsedRegions == dpos # 0 /\ dpos + dlen > BSize

WriteResults(len) == {Again, WriteFail} \cup 0..len

(* Mutant: the position is not set back at the end of the buffer. *)
AdvanceUnwrapped(at, len, n) == (IF len = 0 THEN 0 ELSE at) + n

(* The cell of the oldest byte after n of the len stored ones from `at'    *)
(* were written; the code tests for an empty FIFO before it subtracts n.   *)
Advance(at, len, n) ==
  LET p == (IF len = 0 THEN 0 ELSE at) + n IN IF p = BSize THEN 0 ELSE p

Drain(useWmin, blocking) ==
  \/ /\ dlen = 0 \/ (useWmin /\ Wmin > dlen)
     /\ ret' = 0
     /\ UNCHANGED <<dlen, dpos, out, cut>>
  \/ /\ dlen # 0 /\ ~ (useWmin /\ Wmin > dlen)
     /\ LET len == IF TwoUsedRegions THEN BSize - dpos ELSE dlen
        IN \E r \in WriteResults(len) :
             /\ TwoUsedRegions => r # len
             /\ out' = out \o Cells(dpos, Moved(r))
             /\ dlen' = dlen - Moved(r)
             /\ dpos' = IF r > 0 THEN Advance(dpos, dlen, r) ELSE dpos
             /\ ret' = r
             /\ cut' = (blocking /\ r # len)
  \/ /\ TwoUsedRegions /\ ~ (useWmin /\ Wmin > dlen)
     /\ LET len1 == BSize - dpos
            len2 == dlen - len1
        IN \E r \in WriteResults(len2) :
             /\ out' = out \o Cells(dpos, len1) \o Cells(0, Moved(r))
             /\ dlen' = len2 - Moved(r)
             /\ dpos' = IF r > 0 THEN Advance(0, len2, r) ELSE 0
             /\ ret' = r
             /\ cut' = (blocking /\ r # len2)

FifoToFd ==
  /\ phase = "open"
  /\ Drain(UseWmin, FALSE)
  /\ UNCHANGED <<b, rin, phase>>

(* Mutant: the descriptor is not made blocking for the last write. *)
FlushNonBlocking ==
  /\ phase = "open"
  /\ phase' = "closed"
  /\ Drain(FALSE, FALSE)
  /\ UNCHANGED <<b, rin>>

(***************************************************************************)
(* How stream_dvr_subprocess_to_pipe() ends: it makes the descriptor       *)
(* blocking, takes BTFIFO_F_USE_WMIN off, writes once more and destroys    *)
(* the FIFO.  A blocking write() takes all it is given unless it fails or  *)
(* a signal cuts it short.                                                 *)
(***************************************************************************)
FlushAndDestroy ==
  /\ phase = "open"
  /\ phase' = "closed"
  /\ Drain(FALSE, TRUE)
  /\ UNCHANGED <<b, rin>>

Next == FdToFifo \/ FifoToFd \/ FlushAndDestroy

Spec == Init /\ [][Next]_vars
-----------------------------------------------------------------------------
Wrap(c) == IF c >= BSize THEN c - BSize ELSE c

(* The i-th byte stored, counting from 0 at the oldest. *)
StoredAt(i) == b[Wrap(dpos + i)]

(* Every variable holds a value of its type: no operation of bufftools.c   *)
(* leaves dlen or dpos pointing outside the buffer.                        *)
TypeOK ==
  /\ b \in [0..BSize-1 -> Nat]
  /\ dlen \in 0..BSize
  /\ dpos \in 0..BSize-1
  /\ rin \in Nat
  /\ out \in Seq(Nat)
  /\ ret \in Int
  /\ phase \in {"open", "closed"}
  /\ cut \in BOOLEAN

(* What btfifo_fd_to_fifo() read is, in order, what btfifo_fifo_to_fd()    *)
(* wrote followed by what is stored: over wrap-arounds, short transfers    *)
(* and failures of either region nothing is lost, doubled or overwritten.  *)
InOrder ==
  /\ rin = Len(out) + dlen
  /\ \A i \in 1..Len(out) : out[i] = i
  /\ \A i \in 0..dlen-1 : StoredAt(i) = Len(out) + i + 1

(* The flush that ends stream_dvr_subprocess_to_pipe() leaves nothing      *)
(* behind unless a write failed or a signal cut it short.                  *)
FlushComplete == phase = "closed" /\ ~cut => Len(out) = rin

(* The circular buffer implements a bounded queue of bytes: what users of  *)
(* btfifo_fd_to_fifo() and btfifo_fifo_to_fd() see.                        *)
Q == INSTANCE ByteQueue WITH
       Cap <- BSize, queue <- [i \in 1..dlen |-> StoredAt(i - 1)]
ImplementsByteQueue == Q!Spec
=============================================================================
