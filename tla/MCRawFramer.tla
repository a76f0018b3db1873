---------------------------- MODULE MCRawFramer -----------------------------
(***************************************************************************)
(* Streams for RawFramer: something before the first start code, a frame   *)
(* with Mark in it, and then up to MaxPieces frames and stray bytes; and a *)
(* stream with no start code at all.                                       *)
(***************************************************************************)
EXTENDS RawFramer

CONSTANT MaxPieces      \* bound: pieces behind the frame with Mark

Lead == { <<>>, <<2>>, <<0>>, <<0, 0>> }
Marked == { <<0, 0, 1, 2, Mark>>, <<0, 0, 1, Mark, 0>> }
Piece == { <<0, 0, 1>>,            \* next to another start code
           <<0, 0, 1, 2>>,         \* the shortest frame
           <<0, 0, 1, 2, 3, 4>>,
           <<0, 0, 1, 5, 1, 0>>,   \* ends like a start code begins
           <<0>> }

Concat(pieces) ==
  LET F[i \in 0..Len(pieces)] == IF i = 0 THEN <<>> ELSE F[i - 1] \o pieces[i]
  IN  F[Len(pieces)]

MCStreams ==
  {l \o m \o Concat(p) : l \in Lead, m \in Marked,
                         p \in UNION {[1..k -> Piece] : k \in 0..MaxPieces}}
  \cup {<<Mark, 2, 2, 0, 0, 2, 2, 0, 2, 2, 2>>}
=============================================================================
