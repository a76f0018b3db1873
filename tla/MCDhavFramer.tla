---------------------------- MODULE MCDhavFramer ----------------------------
(***************************************************************************)
(* Streams for DhavFramer: up to three pieces one after the other, intact  *)
(* frames of several lengths and what noise on the way makes of them.      *)
(***************************************************************************)
EXTENDS DhavFramer

CONSTANT MaxPieces      \* bound: pieces in a stream

Intact == { <<Header, 0, Trailer, 4>>,
            <<Header, 0, 0, 6, Trailer, 6>>,
            <<Header, 0, 0, 8, Header, 0, Trailer, 8>> }

Damaged == { <<0>>,                              \* stray data
             <<Header, 0, 0, 6, 0, 6>>,            \* no trailer
             <<Header, 0, 0, 6, Trailer, 5>>,        \* lengths differ
             <<Header, 0, 0, 6>>,                  \* cut off
             <<Header, 0, 0, MaxLen + 3, Trailer>> } \* longer than the queue

(* Lengths that the queue can hold, but not with another read behind.      *)
Large == { <<Header, 0, 0, MaxLen>> }

(* Words that are nothing in particular tell their place in the stream.    *)
Numbered(s) == [i \in DOMAIN s |-> IF s[i] = 0 THEN 100 + i ELSE s[i]]

Concat(pieces) ==
  LET F[i \in 0..Len(pieces)] == IF i = 0 THEN <<>> ELSE F[i - 1] \o pieces[i]
  IN  F[Len(pieces)]

MCStreams ==
  {Numbered(Concat(p)) :
     p \in UNION {[1..k -> Intact \cup Damaged \cup Large] : k \in 1..MaxPieces}}
=============================================================================
