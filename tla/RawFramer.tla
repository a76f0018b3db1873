----------------------------- MODULE RawFramer ------------------------------
(***************************************************************************)
(* dstf_process_raw_h264_stream_to_frames(), which finds the frames of a   *)
(* raw H.264 stream: each begins with a start code, the bytes 0 0 1, and   *)
(* ends where the next one begins.  A cell is a byte; the eight that spell *)
(* Dahua_ZH, by which the format is recognised, are the one cell Mark.     *)
(* Every stream considered is recognised; one that is not goes to the      *)
(* framer of DHAV streams.                                                 *)
(***************************************************************************)
EXTENDS FrameQueue

Mark == -1

(* identify_mc_format() *)
IdentifyRaw(q) == \E i \in DOMAIN q : q[i] = Mark

(* A start code at offset i. *)
StartsAt(q, i) ==
  i + 3 <= Len(q) /\ q[i + 1] = 0 /\ q[i + 2] = 0 /\ q[i + 3] = 1

(* search_mpeg_NAL(): k is the offset of the first one from offset i on. *)
FirstFrom(q, i, k) ==
  k >= i /\ StartsAt(q, k) /\ \A j \in i..k-1 : ~StartsAt(q, j)

NoneFrom(q, i) == \A j \in i..Len(q)-1 : ~StartsAt(q, j)

(* The first start code comes before Mark and is read while identification *)
(* goes on.  Where it is not, it may be dropped but for its last bytes.    *)
ASSUME RawFramerAssumption ==
  \A s \in Streams : \A k \in 0..Len(s) :
    FirstFrom(s, 0, k) => /\ k + 3 <= MaxLen - 2 * MaxRead + 1
                          /\ \A i \in 1..k+3 : s[i] # Mark

(* Mutant: the search for the next frame begins one byte further on. *)
SecondSearchLate(first) == first + 5

(* Where the search for the next frame begins. *)
SecondSearch(first) == first + 4

Process(n) ==
  \/ NoRoom(n)
  \/ /\ n <= MaxLen - len
     /\ LET q == Contents(n)
        IN \/ Len(q) < 8 /\ Settle(n, 0, 0, 0)
           \/ Len(q) >= 8 /\ NoneFrom(q, 0) /\ Settle(n, Len(q), 0, 0)
           \/ \E f \in 0..Len(q)-1 :
                /\ Len(q) >= 8 /\ FirstFrom(q, 0, f)
                /\ \/ /\ Len(q) - f < 8 \/ NoneFrom(q, SecondSearch(f))
                      /\ Settle(n, f, 0, 0)
                   \/ \E k \in 0..Len(q)-1 :
                        /\ Len(q) - f >= 8 /\ FirstFrom(q, SecondSearch(f), k)
                        /\ IF k - f > MaxDst
                             THEN Settle(n, f, 0, -3)
                             ELSE Settle(n, f, k - f, 1)

Identify ==
  IdentifyFull \/ \E n \in ReadSizes : IdentifyMore(n, IdentifyRaw(Appended(n)))

Next ==
  \/ Identify
  \/ \E n \in ReadSizes : Read(n) /\ Process(n)
  \/ Again /\ Process(0)
  \/ Done

Spec == Init /\ [][Next]_vars
FairSpec == Spec /\ WF_vars(Next)
-----------------------------------------------------------------------------
(* The frames of a stream that is looked at as a whole, from each offset   *)
(* on: from each start code to the first one at least four bytes behind.   *)
FramesFrom(s) ==
  LET F[p \in 0..Len(s)] ==
        LET starts == {i \in p..Len(s)-1 : StartsAt(s, i)}
            first  == CHOOSE i \in starts : \A j \in starts : i <= j
            later  == {i \in starts : i >= first + 4}
            next   == CHOOSE i \in later : \A j \in later : i <= j
        IN  IF starts = {} THEN <<>>
            ELSE IF later = {} \/ first + 8 > Len(s) THEN <<>>
            ELSE <<SubSeq(s, first + 1, next)>> \o F[next]
  IN  F

FramesOf(s) == FramesFrom(s)[0]

(* How the reads cut the stream, through a start code even, makes no       *)
(* difference to the frames that dstf_process_raw_h264_stream_to_frames()  *)
(* delivers.                                                               *)
FramesInOrder ==
  LET all == FramesOf(input)
  IN  Len(frames) <= Len(all) /\ frames = SubSeq(all, 1, Len(frames))

(* The loop ends, with every frame delivered but the one that no start     *)
(* code follows.                                                           *)
EveryFrameDelivered == <>(pc = "end" /\ frames = FramesOf(input))
=============================================================================
