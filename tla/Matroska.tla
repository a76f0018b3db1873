------------------------------ MODULE Matroska ------------------------------
(***************************************************************************)
(* How dt_convert_frame_to_mkv() of mctools.c lays out a chunk of the      *)
(* output: the table mkv_head[] in front of the first one, what is written *)
(* over parts of it, and a cluster with a single block.                    *)
(*                                                                         *)
(* Matroska elements lie within each other.  An element is an identifier   *)
(* and a size, `head' bytes together, and `own' bytes of its own; one that *)
(* contains others has none.  `size' is what its size field says.          *)
(***************************************************************************)
EXTENDS Integers, Sequences

Element(name, in, head, size, own) ==
  [name |-> name, in |-> in, head |-> head, size |-> size, own |-> own]
Master(name, in, head, size) == Element(name, in, head, size, 0)
Leaf(name, in, head, size) == Element(name, in, head, size, size)

Unknown == -1   \* a size field of ones only: up to the end of the file

MkvHead == <<
  Leaf("EBML", "file", 12, 35),
  Master("Segment", "file", 12, Unknown),
  Leaf("Void", "Segment", 9, 147),
  Master("Info", "Segment", 12, 69),
    Leaf("TimecodeScale", "Info", 4, 3),
    Leaf("MuxingApp", "Info", 3, 13),
    Leaf("WritingApp", "Info", 3, 13),
    Leaf("SegmentUID", "Info", 3, 16),
    Leaf("Duration", "Info", 3, 8),
  Master("Tracks", "Segment", 12, 112),
    Master("TrackEntry", "Tracks", 9, 103),
      Leaf("TrackNumber", "TrackEntry", 2, 1),
      Leaf("TrackUID", "TrackEntry", 3, 1),
      Leaf("FlagLacing", "TrackEntry", 2, 1),
      Leaf("Language", "TrackEntry", 4, 3),
      Leaf("FlagDefault", "TrackEntry", 2, 1),
      Leaf("CodecID", "TrackEntry", 2, 15),
      Leaf("TrackType", "TrackEntry", 2, 1),
      Master("Video", "TrackEntry", 9, 26),
        Leaf("PixelWidth", "Video", 2, 2),
        Leaf("PixelHeight", "Video", 2, 2),
        Leaf("DisplayWidth", "Video", 3, 2),
        Leaf("DisplayHeight", "Video", 3, 2),
        Leaf("FrameRate", "Video", 4, 4),
      Leaf("CodecPrivate", "TrackEntry", 3, 25) >>

MainHeaderLoad == 416 + 4
ClusterLoad == 22
SimpleBlockLoad == 13

Patch(name, at, len) == [name |-> name, at |-> at, len |-> len]

(* What is written over the table, where and how much. *)
Patches == {
  Patch("CodecID", 339, 15),               \* MKV_HOFF_CodecStr
  Patch("PixelWidth", 366 + 2, 2), Patch("PixelHeight", 370 + 2, 2),
  Patch("DisplayWidth", 374 + 3, 2), Patch("DisplayHeight", 379 + 3, 2),
  Patch("FrameRate", 384 + 4, 4),
  Patch("MuxingApp", 234 + 3, 13), Patch("WritingApp", 250 + 3, 13),
  Patch("Language", 327 + 4, 3), Patch("TimecodeScale", 227 + 4, 3) }

(* The chunk for `body' bytes of video. *)
PayloadLen(head, body) ==
  ClusterLoad + SimpleBlockLoad + body + (IF head THEN MainHeaderLoad ELSE 0)

(* Mutant: the cluster's size does not count the block's header. *)
ClusterLenOfBody(body) == body + ClusterLoad - 12

ClusterLen(body) == body + ClusterLoad + SimpleBlockLoad - 12
BlockLen(body) == body + SimpleBlockLoad - 9

(* A timecode of 8 bytes, and in front of the video itself a byte for the  *)
(* track, two for a relative timestamp and one for the flags.              *)
ElementsOf(head, body) ==
  (IF head THEN MkvHead ELSE <<>>)
    \o << Master("Cluster", "Segment", 12, ClusterLen(body)),
          Leaf("Timecode", "Cluster", 2, 8),
          Element("SimpleBlock", "Cluster", 9, BlockLen(body), 4 + body) >>

-----------------------------------------------------------------------------
(* Bytes that the first k elements of els, or those of them within the one *)
(* called name, take.                                                      *)
BytesOf(els, k) ==
  LET F[i \in 0..k] == IF i = 0 THEN 0 ELSE F[i - 1] + els[i].head + els[i].own IN F[k]

SizeWithin(els, name) ==
  LET F[i \in 0..Len(els)] ==
        IF i = 0 THEN 0
        ELSE F[i - 1] + (IF els[i].in = name THEN els[i].head + els[i].size ELSE 0)
  IN  F[Len(els)]

(* Every size field says what the element has of its own or, if it has     *)
(* others within it, what those take.                                      *)
SizesNest(els) ==
  \A k \in DOMAIN els : els[k].size # Unknown =>
    els[k].size = els[k].own + SizeWithin(els, els[k].name)

(* What is written over the table is all of an element's own bytes.        *)
PatchesLand ==
  \A p \in Patches : \E k \in DOMAIN MkvHead :
    /\ MkvHead[k].name = p.name /\ MkvHead[k].own = p.len
    /\ p.at = BytesOf(MkvHead, k - 1) + MkvHead[k].head
=============================================================================
