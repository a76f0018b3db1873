----------------------------- MODULE DhavFramer -----------------------------
(***************************************************************************)
(* dstf_process_dhav_stream_to_frames(), which finds the frames of a DHAV  *)
(* stream.  A cell stands for four bytes.  A frame is                      *)
(*                                                                         *)
(*    Header, two words, its length, ..., Trailer, its length again        *)
(*                                                                         *)
(* and whatever cannot be the start of one is skipped.                     *)
(***************************************************************************)
EXTENDS FrameQueue

(* As a length, either word is larger than any queue.                      *)
Header  == MaxLen + 1     \* "DHAV"
Trailer == MaxLen + 2     \* "dhav"

(* A frame is never said to be shorter than its last two words, so that    *)
(* dhav_offset, its length less those, does not wrap around.               *)
ASSUME DhavFramerAssumption ==
  /\ Streams \subseteq Seq(Nat)
  /\ \A s \in Streams : \A i \in 1..Len(s) - 3 : s[i] = Header => s[i + 3] >= 2

(* identify_mc_format() *)
IdentifyDhav(q) == \E i, j \in DOMAIN q : q[i] = Header /\ q[j] = Trailer

(* At offset i of the queue's contents q: is there enough to tell, the     *)
(* frame's advertised length, and what is to be done with it.              *)
Enough(q, i) == Len(q) - i >= 4

Advertised(q, i) == q[i + 4]

AtHeader(q, i) ==
  Enough(q, i) /\ q[i + 1] = Header /\ Advertised(q, i) <= MaxLen

Incomplete(q, i) == AtHeader(q, i) /\ i + Advertised(q, i) > Len(q)

Whole(q, i) ==
  /\ AtHeader(q, i) /\ i + Advertised(q, i) <= Len(q)
  /\ q[i + Advertised(q, i) - 1] = Trailer
  /\ q[i + Advertised(q, i)] = Advertised(q, i)

Garbage(q, i) == ~Incomplete(q, i) /\ ~Whole(q, i)

(* Mutant: a frame not yet complete is taken for garbage. *)
StopsAtWholeOnly(q, s) ==
  /\ Enough(q, s) => Whole(q, s)
  /\ \A i \in 0..s-1 : ~Whole(q, i)

(* Skipping garbage comes to an end at offset s. *)
StopsAt(q, s) ==
  /\ Enough(q, s) => ~Garbage(q, s)
  /\ \A i \in 0..s-1 : Enough(q, i) /\ Garbage(q, i)

(* Mutant: 3, to be called again, also when there was nothing to skip. *)
TooShortAlways3(q, s) == 3

(* The result when fewer than four cells remain. *)
TooShort(q, s) == IF s = 0 THEN 0 ELSE 3

Process(n) ==
  \/ NoRoom(n)
  \/ /\ n <= MaxLen - len
     /\ LET q == Contents(n)
        IN \E s \in 0..Len(q) :
             /\ StopsAt(q, s)
             /\ \/ ~Enough(q, s) /\ Settle(n, s, 0, TooShort(q, s))
                \/ Incomplete(q, s) /\ Settle(n, s, 0, 0)
                \/ /\ Whole(q, s)
                   /\ IF Advertised(q, s) > MaxDst
                        THEN Settle(n, s, 0, -3)
                        ELSE Settle(n, s, Advertised(q, s), 1)

Identify ==
  IdentifyFull \/ \E n \in ReadSizes : IdentifyMore(n, IdentifyDhav(Appended(n)))

Next ==
  \/ Identify
  \/ \E n \in ReadSizes : Read(n) /\ Process(n)
  \/ Again /\ Process(0)
  \/ Done

Spec == Init /\ [][Next]_vars

(* Nothing but the loop itself has to be scheduled: at the end of the      *)
(* stream a read returns 0.                                                *)
FairSpec == Spec /\ WF_vars(Next)
-----------------------------------------------------------------------------
(* At offset p of a stream: a frame lies there, or would end behind it.   *)
IntactAt(s, p) ==
  \E n \in 2..MaxLen :
    /\ p + n <= Len(s)
    /\ s[p + 1] = Header /\ s[p + 4] = n
    /\ s[p + n - 1] = Trailer /\ s[p + n] = n

AwaitedAt(s, p) ==
  \E n \in 2..MaxLen : p + n > Len(s) /\ s[p + 1] = Header /\ s[p + 4] = n

(* The frames of a stream that is looked at as a whole, from each offset   *)
(* on: the first intact one, then those behind it; none behind a header    *)
(* whose frame would end after the stream.                                 *)
FramesFrom(s) ==
  LET F[p \in 0..Len(s)] ==
        IF p + 4 > Len(s) \/ AwaitedAt(s, p) THEN <<>>
        ELSE IF IntactAt(s, p)
             THEN <<SubSeq(s, p + 1, p + s[p + 4])>> \o F[p + s[p + 4]]
             ELSE F[p + 1]
  IN  F

FramesOf(s) == FramesFrom(s)[0]

(* How the reads cut the stream makes no difference to the frames that     *)
(* dstf_process_dhav_stream_to_frames() delivers: garbage and corrupted    *)
(* frames, whichever side of a cut they are, cost no intact frame.         *)
FramesInOrder ==
  LET all == FramesOf(input)
  IN  Len(frames) <= Len(all) /\ frames = SubSeq(all, 1, Len(frames))

(* The loop ends, and by then every frame has been delivered: the inner    *)
(* loop is left, and the queue has room for each read (FailsOnLargeFrame   *)
(* says when it has not).                                                  *)
EveryFrameDelivered ==
  <>(pc = "failed" \/ (pc = "end" /\ frames = FramesOf(input)))

(* dstf_process_dhav_stream_to_frames() gives up for want of room only     *)
(* while it waits for the rest of a single frame, one that would leave     *)
(* less than the room for another read.                                    *)
FailsOnLargeFrame ==
  pc = "failed" =>
    LET q == [i \in 1..len |-> sq[offs + i - 1]]
    IN  ret = -1 /\ Incomplete(q, 0) /\ Advertised(q, 0) > MaxLen - MaxRead + 1
=============================================================================
